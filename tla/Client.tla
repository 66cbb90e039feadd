------------------------------- MODULE Client -------------------------------
(***************************************************************************)
(* FullClient (src/c4_client): one node that takes transactions from its   *)
(* users into a pool, imports blocks that the network offers, authors      *)
(* blocks of its own on any block it knows or on the best one, and keeps   *)
(* blocks and states in a BasicStorage.  The calls come in any order.      *)
(*                                                                         *)
(* As FullClient<C, SM, FC, P, S> is generic in its parts, a node carries  *)
(* them: its consensus engine, its fork choice rule and its pool, which    *)
(* never change.  What engines and pools do are parameters.                *)
(***************************************************************************)
EXTENDS Block, ForkChoice, Batches

CONSTANTS
    Txs,                      \* the transitions users may submit
    DefaultState,             \* SM::State::default()
    Nodes,                    \* records of an engine, a rule, a pool, and whether
                              \* the owner of the node shows genesis to the rule
    TryInsert(_, _, _),       \* a pool's queue after try_insert
    Validate(_, _, _),        \* an engine's validate: parent digest, header
    Sealings(_, _, _),        \* the digests of the headers that its seal may
                              \* return; none when it returns None
    GenesisStates,            \* the genesis states clients are created with
    Bodies,                   \* the bodies of manual and of offered blocks
    OfferedDigests,           \* the digests of offered blocks
    MaxCalls,                 \* bounds of the exploration: manual and imported
    MaxSubmitted              \* blocks, accepted transactions

ASSUME BoundsAssumption ==
    /\ MaxCalls \in Nat
    /\ MaxSubmitted \in Nat

ASSUME NodeAssumption ==
    \A n \in Nodes : n.rule \in Rules /\ n.shown \in BOOLEAN

VARIABLES
    node,                       \* consensus_engine, fork_choice's type, and so on
    blocks, states,             \* BasicStorage: blocks_map, states_map
    last_block, current_state,  \* and the tip
    pool,                       \* transaction_pool.queue
    fork_choice,
    accepted,                   \* history: how often each transaction got in, was
    executed,                   \* part of an automatic block or of a batch that could
    dropped,                    \* not be sealed, and was removed because one equal to
    swept,                      \* it was included;
    calls                       \* number of manual and of imported blocks

storage == <<blocks, states, last_block, current_state>>
tallies == <<accepted, executed, dropped, swept>>
vars == <<node, storage, pool, fork_choice, tallies, calls>>

GenesisBlock == Genesis(DefaultState)

\* The states of a BasicStorage::new.
FreshStates == Put([h \in {} |-> DefaultState], HashState(DefaultState), DefaultState)

NoneYet == [t \in Txs |-> 0]

\* FullClient::new on such a storage: it only adds the state it is given.
Init ==
    /\ node \in Nodes
    /\ blocks = Put([h \in {} |-> GenesisBlock], HashBlock(GenesisBlock), GenesisBlock)
    /\ \E s \in GenesisStates : states = Put(FreshStates, HashState(s), s)
    /\ last_block = GenesisBlock
    /\ current_state = DefaultState
    /\ pool = <<>>
    /\ fork_choice = IF node.shown
                     THEN ImportHook(node.rule, DefaultOf(node.rule), GenesisBlock)
                     ELSE DefaultOf(node.rule)
    /\ accepted = NoneYet /\ executed = NoneYet /\ dropped = NoneYet /\ swept = NoneYet
    /\ calls = 0

-----------------------------------------------------------------------------
(* Users: submit_transaction *)

SubmitTransaction(t) ==
    /\ SumFunction(accepted) < MaxSubmitted
    /\ pool' = TryInsert(node.pool, pool, t)
    /\ accepted' = IF pool' = pool THEN accepted ELSE [accepted EXCEPT ![t] = @ + 1]
    /\ UNCHANGED <<node, storage, fork_choice, executed, dropped, swept, calls>>

-----------------------------------------------------------------------------
(* Authoring *)

AuthoredBlock(parentHash, body, state, digest) ==
    [header |-> Header(parentHash, blocks[parentHash].header.height + 1,
                       HashState(state), HashBody(body), digest),
     body |-> body]

ParentDigest(parentHash) == blocks[parentHash].header.consensus_digest

Partial(parentHash, body, state) ==
    AuthoredBlock(parentHash, body, state, DefaultDigest).header

\* The blocks that seal may make of it.
Sealed(parentHash, body, state) ==
    {AuthoredBlock(parentHash, body, state, digest) :
        digest \in Sealings(node.engine, ParentDigest(parentHash), Partial(parentHash, body, state))}

\* Mutant of Store: only the state is stored.
MutStoreForgetsBlock(b, state) ==
    /\ blocks' = blocks
    /\ states' = Put(states, HashState(state), state)

\* add_block and set_state.
Store(b, state) ==
    /\ blocks' = Put(blocks, HashBlock(b), b)
    /\ states' = Put(states, HashState(state), state)

\* The parent and its state are found, or the call fails with no effect.
CanBuildOn(parentHash) ==
    /\ parentHash \in DOMAIN blocks
    /\ blocks[parentHash].header.state_root \in DOMAIN states

StateOn(parentHash, body) == Execute(states[blocks[parentHash].header.state_root], body)

\* author_and_import_manual_block: neither the tip nor the pool changes.
AuthorManual(transactions, parentHash) ==
    LET state == StateOn(parentHash, transactions)
    IN /\ calls < MaxCalls
       /\ calls' = calls + 1
       /\ CanBuildOn(parentHash)
       /\ \E b \in Sealed(parentHash, transactions, state) :
            Store(b, state) /\ fork_choice' = ImportHook(node.rule, fork_choice, b)
       /\ UNCHANGED <<node, last_block, current_state, pool, tallies>>

\* Mutant of MoveTip: the state of the old tip stays current.
MutMoveTipOnly(b, state) == last_block' = b /\ current_state' = current_state

\* set_current_state and set_last_block.
MoveTip(b, state) == last_block' = b /\ current_state' = state

\* How often t is in a list, and a tally with every transaction of a list added.
CountIn(q, t) == Cardinality({i \in DOMAIN q : q[i] = t})

Tallied(tally, q) == [t \in Txs |-> tally[t] + CountIn(q, t)]

\* What removing the transactions of an included batch takes from behind it.
SweptBy(batch, rest) == Retain(rest, DOMAIN rest \ OthersThan(batch, rest))

\* author_and_import_automatic_block.  When seal gives nothing the batch is
\* already out of the pool, and the call fails.
AuthorAutomatic ==
    LET parentHash == BestBlock(node.rule, fork_choice)
        batch == NextBatch(pool)
        state == StateOn(parentHash, batch)
    IN /\ CanBuildOn(parentHash)
       /\ \/ batch = <<>> /\ UNCHANGED <<storage, pool, fork_choice, executed, dropped, swept>>
          \/ /\ batch # <<>>
             /\ Sealed(parentHash, batch, state) = {}
             /\ pool' = AfterBatch(pool)
             /\ dropped' = Tallied(dropped, batch)
             /\ UNCHANGED <<storage, fork_choice, executed, swept>>
          \/ /\ batch # <<>>
             /\ pool' = AfterInclusion(pool)
             /\ \E b \in Sealed(parentHash, batch, state) :
                  /\ Store(b, state)
                  /\ MoveTip(b, state)
                  /\ fork_choice' = ImportHook(node.rule, fork_choice, b)
             /\ executed' = Tallied(executed, batch)
             /\ swept' = Tallied(swept, SweptBy(batch, AfterBatch(pool)))
             /\ UNCHANGED dropped
       /\ UNCHANGED <<node, accepted, calls>>

-----------------------------------------------------------------------------
(* The network *)

\* Mutants of Acceptable: the height is not checked; the state root is not.
MutAnyHeight(b) ==
    /\ b.header.parent = HashHeader(last_block.header)
    /\ Validate(node.engine, last_block.header.consensus_digest, b.header)
    /\ b.header.state_root = HashState(Execute(current_state, b.body))
    /\ b.header.extrinsics_root = HashBody(b.body)

MutAnyStateRoot(b) ==
    /\ b.header.height = last_block.header.height + 1
    /\ b.header.parent = HashHeader(last_block.header)
    /\ Validate(node.engine, last_block.header.consensus_digest, b.header)
    /\ b.header.extrinsics_root = HashBody(b.body)

\* The checks of import_block, all against the tip.
Acceptable(b) ==
    /\ b.header.height = last_block.header.height + 1
    /\ b.header.parent = HashHeader(last_block.header)
    /\ Validate(node.engine, last_block.header.consensus_digest, b.header)
    /\ b.header.state_root = HashState(Execute(current_state, b.body))
    /\ b.header.extrinsics_root = HashBody(b.body)

\* import_block: the block and its state are stored, and nothing else happens.
ImportBlock(b) ==
    /\ calls < MaxCalls
    /\ calls' = calls + 1
    /\ Acceptable(b)
    /\ Store(b, Execute(current_state, b.body))
    /\ UNCHANGED <<node, last_block, current_state, pool, fork_choice, tallies>>

-----------------------------------------------------------------------------
\* What the network offers: children of the tip or of any other block, by either
\* hash, right or wrong in their height, state root and extrinsics root.
ImportOffered ==
    \E parent \in {HashBlock(last_block)} \cup {HashHeader(b.header) : b \in Range(blocks)},
       height \in {last_block.header.height, last_block.header.height + 1},
       body \in Bodies, digest \in OfferedDigests :
       \E extrinsics \in {body, <<>>},
          state \in {Execute(current_state, body), current_state, DefaultState} :
          ImportBlock([header |-> Header(parent, height, HashState(state),
                                         HashBody(extrinsics), digest),
                       body |-> body])

Next ==
    \/ \E t \in Txs : SubmitTransaction(t)
    \/ \E body \in Bodies, parentHash \in DOMAIN blocks :
          AuthorManual(body, parentHash)
    \/ AuthorAutomatic
    \/ ImportOffered

Spec == Init /\ [][Next]_vars

-----------------------------------------------------------------------------
(* What the client promises *)

StateOf(b) == states[b.header.state_root]

\* b is p's child: an authored block refers to p's block hash, an imported one to
\* the hash of p's header; it carries the result of its body on p's state.
Authored(b, p) == b.header.parent = HashBlock(p)
Imported(b, p) == b.header.parent = HashHeader(p.header)

Follows(b, p) ==
    /\ Authored(b, p) \/ Imported(b, p)
    /\ b.header.height = p.header.height + 1
    /\ b.header.state_root = HashState(Execute(StateOf(p), b.body))
    /\ b.header.extrinsics_root = HashBody(b.body)

KeysAreHashes ==
    /\ \A h \in DOMAIN blocks : h = HashBlock(blocks[h])
    /\ \A h \in DOMAIN states : h = HashState(states[h])

EveryStateIsKnown == \A h \in DOMAIN blocks : blocks[h].header.state_root \in DOMAIN states

EveryBlockFollows ==
    \A h \in DOMAIN blocks :
        \/ blocks[h] = GenesisBlock
        \/ \E p \in DOMAIN blocks : Follows(blocks[h], blocks[p])

\* The database is one tree of valid blocks over genesis with the state of every
\* block, whatever mix of manual authoring on old blocks, automatic authoring and
\* imports built it (p2:56-89, p5:34-150).
StorageSound ==
    /\ KeysAreHashes
    /\ HashBlock(GenesisBlock) \in DOMAIN blocks
    /\ EveryStateIsKnown
    /\ EveryBlockFollows

\* The tip is a stored block, and the current state is its state: the two fields
\* that import_block combines are never of different blocks (p2:57-77, p5:144-145).
TipSound ==
    /\ HashBlock(last_block) \in DOMAIN blocks
    /\ last_block.header.state_root = HashState(current_state)

\* What import_block let in passes the block's own verify_sub_chain and the
\* engine's validate on its parent (p2:56-89 against p1:113-136).
ImportsVerify ==
    \A h, p \in DOMAIN blocks : Imported(blocks[h], blocks[p]) =>
        /\ VerifySubChain(blocks[p], StateOf(blocks[p]), <<blocks[h]>>)
        /\ Validate(node.engine, blocks[p].header.consensus_digest, blocks[h].header)

\* What an author builds is as good as what it imports: "valid", by verify_sub_chain
\* of the block it is built on (p1:112-136), so that whoever has that block for a tip
\* can import it (p2:56-89).
AuthoredVerify ==
    \A h, p \in DOMAIN blocks : Authored(blocks[h], blocks[p]) =>
        VerifySubChain(blocks[p], StateOf(blocks[p]), <<blocks[h]>>)

\* FullClient::best_block, which says 0 when the rule names nothing.
ReportedBest ==
    LET best == BestBlock(node.rule, fork_choice) IN IF best = NoBlock THEN ZeroHash ELSE best

\* The block that the client reports as the best can be built on, once it reports one.
BestIsStored == ReportedBest # ZeroHash => CanBuildOn(ReportedBest)

Included(t) == \E h \in DOMAIN blocks : t \in Range(blocks[h].body)

\* Every time a transaction was accepted is accounted for: it still waits, was executed
\* as part of a block that is in the storage, was in a batch that could not be sealed, or
\* was removed with one equal to it that was executed.  So nothing else takes anything
\* from the pool, and nothing is executed that was not accepted or more often than it
\* was, whatever is imported, authored by hand or submitted twice (p4:3-4, p5:80-150).
\* The last two are never executed: QueuedUntilIncluded, and p5:136 with p4:154-156.
EachAccountedFor ==
    \A t \in Txs :
        /\ accepted[t] = CountIn(pool, t) + executed[t] + dropped[t] + swept[t]
        /\ swept[t] > 0 => executed[t] > 0
        /\ executed[t] > 0 => Included(t)

\* "Transactions that are not yet included in the blockchain are queued" (p4:3-4).
QueuedUntilIncluded == \A t \in Txs : accepted[t] > 0 => t \in Range(pool) \/ Included(t)

\* Under a rule that prefers height, the tip only ever climbs: automatic authoring
\* never builds on a lower block than it did before, whatever forks were authored
\* by hand in between.
TipClimbs ==
    [][node.rule = "LongestChain" /\ last_block' # last_block
         => last_block'.header.height > last_block.header.height]_vars
=============================================================================
