--------------------------- MODULE Client_proofs ---------------------------
(***************************************************************************)
(* For every engine, pool, fork choice rule and state machine, and any     *)
(* number of calls: the storage of a client is one tree of valid blocks    *)
(* with the state of each, and its tip is one of them.                     *)
(*                                                                         *)
(* Either invariant needs the other: import_block builds on the tip and    *)
(* the current state, which must be in the storage, and the tip moves to   *)
(* what was just stored.  Together they are inductive, because a hash is   *)
(* a key for one value only: whatever is stored under it was there before. *)
(*                                                                         *)
(* If moreover the pool keeps what it has when it lets something in, every *)
(* transaction it let in is accounted for, each as often as it got in: the *)
(* proof counts the positions at which it is.                              *)
(*                                                                         *)
(* What import_block let in passes verify_sub_chain and the engine on all  *)
(* stored blocks with the header that it names: they share the state, too. *)
(*                                                                         *)
(* The best block is always one of the storage: the fork choice is shown   *)
(* only what was just stored.  Under LongestChain the tip climbs: what is  *)
(* built on the best block is higher than all that the rule has seen.      *)
(***************************************************************************)
EXTENDS Nodes, Collections_proofs

IInv == StorageSound /\ TipSound

\* Storing a value under its hash keeps every other entry, and the value of its own.
LEMMA PutKeeps ==
    ASSUME NEW m, NEW k, NEW v,
           NEW x \in DOMAIN m, x = k => m[x] = v
    PROVE  x \in DOMAIN Put(m, k, v) /\ Put(m, k, v)[x] = m[x]
BY DEF Put

\* No entry of the storage changes, whatever is stored.
LEMMA StoreKeeps ==
    ASSUME KeysAreHashes, NEW b, NEW s, Store(b, s)
    PROVE  /\ \A h \in DOMAIN blocks : h \in DOMAIN blocks' /\ blocks'[h] = blocks[h]
           /\ \A h \in DOMAIN states : h \in DOMAIN states' /\ states'[h] = states[h]
           /\ DOMAIN blocks' = DOMAIN blocks \cup {HashBlock(b)}
           /\ DOMAIN states' = DOMAIN states \cup {HashState(s)}
           /\ blocks'[HashBlock(b)] = b /\ states'[HashState(s)] = s
<1>1. ASSUME NEW h \in DOMAIN blocks, h = HashBlock(b) PROVE blocks[h] = b
  BY <1>1 DEF KeysAreHashes, HashBlock
<1>2. ASSUME NEW h \in DOMAIN states, h = HashState(s) PROVE states[h] = s
  BY <1>2 DEF KeysAreHashes, HashState
<1>3. \A h \in DOMAIN blocks : h \in DOMAIN blocks' /\ blocks'[h] = blocks[h]
  BY <1>1, PutKeeps DEF Store
<1>4. \A h \in DOMAIN states : h \in DOMAIN states' /\ states'[h] = states[h]
  BY <1>2, PutKeeps DEF Store
<1>5. /\ DOMAIN blocks' = DOMAIN blocks \cup {HashBlock(b)}
      /\ blocks'[HashBlock(b)] = b
  BY DEF Store, Put
<1>6. /\ DOMAIN states' = DOMAIN states \cup {HashState(s)}
      /\ states'[HashState(s)] = s
  BY DEF Store, Put
<1>. QED
  BY <1>3, <1>4, <1>5, <1>6

\* A block that follows one of the storage may be stored with the state it names.
LEMMA StorePreserves ==
    ASSUME StorageSound, NEW b, NEW s, Store(b, s),
           NEW p \in DOMAIN blocks, Follows(b, blocks[p]),
           b.header.state_root = HashState(s)
    PROVE  StorageSound'
<1>1. KeysAreHashes /\ EveryStateIsKnown /\ EveryBlockFollows
  BY DEF StorageSound
<1>2. /\ \A h \in DOMAIN blocks : h \in DOMAIN blocks' /\ blocks'[h] = blocks[h]
      /\ \A h \in DOMAIN states : h \in DOMAIN states' /\ states'[h] = states[h]
      /\ DOMAIN blocks' = DOMAIN blocks \cup {HashBlock(b)}
      /\ DOMAIN states' = DOMAIN states \cup {HashState(s)}
      /\ blocks'[HashBlock(b)] = b /\ states'[HashState(s)] = s
  BY <1>1, StoreKeeps
<1>3. KeysAreHashes'
  BY <1>1, <1>2 DEF KeysAreHashes
<1>4. HashBlock(GenesisBlock) \in DOMAIN blocks'
  BY <1>2 DEF StorageSound
<1>5. EveryStateIsKnown'
  BY <1>1, <1>2 DEF EveryStateIsKnown
<1>6. \A h \in DOMAIN blocks :
        blocks'[h] = blocks[h] /\ StateOf(blocks[h])' = StateOf(blocks[h])
  <2>1. \A h \in DOMAIN blocks : blocks[h].header.state_root \in DOMAIN states
    BY <1>1 DEF EveryStateIsKnown
  <2>2. \A h \in DOMAIN blocks : states'[blocks[h].header.state_root] = states[blocks[h].header.state_root]
    BY <1>2, <2>1, Zenon
  <2>. QED
    BY <1>2, <2>2 DEF StateOf
<1>7. EveryBlockFollows'
  <2>1. ASSUME NEW h \in DOMAIN blocks'
        PROVE  \/ blocks'[h] = GenesisBlock
               \/ \E q \in DOMAIN blocks' : Follows(blocks[h], blocks[q])'
    <3>1. CASE h \in DOMAIN blocks /\ blocks[h] = GenesisBlock
      BY <3>1, <1>2
    <3>2. CASE h \in DOMAIN blocks /\ blocks[h] # GenesisBlock
      <4>1. PICK q \in DOMAIN blocks : Follows(blocks[h], blocks[q])
        BY <3>2, <1>1 DEF EveryBlockFollows
      <4>2. Follows(blocks[h], blocks[q])'
        BY <3>2, <4>1, <1>6 DEF Follows, Authored, Imported
      <4>. QED
        BY <4>2, <1>2
    <3>3. CASE h = HashBlock(b)
      <4>1. Follows(blocks[h], blocks[p])'
        BY <3>3, <1>2, <1>6 DEF Follows, Authored, Imported
      <4>. QED
        BY <4>1, <1>2
    <3>. QED
      BY <2>1, <1>2, <3>1, <3>2, <3>3
  <2>. QED
    BY <2>1 DEF EveryBlockFollows
<1>. QED
  BY <1>3, <1>4, <1>5, <1>7 DEF StorageSound

\* The block of an author follows the one it is built on.
LEMMA AuthoredFollows ==
    ASSUME StorageSound, NEW parentHash, CanBuildOn(parentHash), NEW body,
           NEW b \in Sealed(parentHash, body, StateOn(parentHash, body))
    PROVE  /\ parentHash \in DOMAIN blocks
           /\ Follows(b, blocks[parentHash])
           /\ b.header.state_root = HashState(StateOn(parentHash, body))
<1>. DEFINE s == StateOn(parentHash, body)
<1>1. PICK digest : b = AuthoredBlock(parentHash, body, s, digest)
  BY DEF Sealed
<1>2. /\ b.body = body
      /\ b.header.parent = parentHash
      /\ b.header.height = blocks[parentHash].header.height + 1
      /\ b.header.state_root = HashState(s)
      /\ b.header.extrinsics_root = HashBody(body)
  BY <1>1 DEF AuthoredBlock, Header
<1>3. parentHash \in DOMAIN blocks /\ parentHash = HashBlock(blocks[parentHash])
  BY DEF CanBuildOn, StorageSound, KeysAreHashes
<1>4. s = Execute(StateOf(blocks[parentHash]), body)
  BY DEF StateOn, StateOf
<1>. HIDE DEF s
<1>5. Follows(b, blocks[parentHash])
  BY <1>2, <1>3, <1>4 DEF Follows, Authored
<1>. QED
  BY <1>2, <1>3, <1>5 DEF s

\* What import_block accepts follows the tip.
LEMMA AcceptableFollows ==
    ASSUME IInv, NEW b, Acceptable(b)
    PROVE  /\ HashBlock(last_block) \in DOMAIN blocks
           /\ blocks[HashBlock(last_block)] = last_block
           /\ Follows(b, last_block)
           /\ b.header.state_root = HashState(Execute(current_state, b.body))
<1>1. HashBlock(last_block) \in DOMAIN blocks /\ blocks[HashBlock(last_block)] = last_block
  BY DEF IInv, StorageSound, TipSound, KeysAreHashes, HashBlock
<1>2. HashState(current_state) \in DOMAIN states
  BY <1>1 DEF IInv, StorageSound, EveryStateIsKnown, TipSound
<1>3. states[HashState(current_state)] = current_state
  BY <1>2 DEF IInv, StorageSound, KeysAreHashes, HashState
<1>4. StateOf(last_block) = current_state
  BY <1>3 DEF StateOf, IInv, TipSound
<1>. QED
  BY <1>1, <1>4 DEF Acceptable, Follows, Imported

-----------------------------------------------------------------------------
LEMMA InitIInv == Init => IInv
<1>. SUFFICES ASSUME Init PROVE IInv
  OBVIOUS
<1>. DEFINE g == HashBlock(GenesisBlock)
            d == HashState(DefaultState)
            noBlocks == [h \in {} |-> GenesisBlock]
<1>1. PICK s \in GenesisStates : states = Put(FreshStates, HashState(s), s)
  BY DEF Init
<1>2. /\ DOMAIN blocks = {g} /\ blocks[g] = GenesisBlock
  <2>1. blocks = Put(noBlocks, g, GenesisBlock)
    BY DEF Init
  <2>. QED  BY <2>1 DEF Put
<1>3. /\ DOMAIN states = {d, HashState(s)} /\ states[HashState(s)] = s
      /\ states[d] = DefaultState
  <2>1. /\ DOMAIN FreshStates = {d} /\ FreshStates[d] = DefaultState
    BY DEF FreshStates, Put
  <2>2. d = HashState(s) => s = DefaultState
    BY DEF HashState
  <2>3. DOMAIN states = DOMAIN FreshStates \cup {HashState(s)} /\ states[HashState(s)] = s
    BY <1>1 DEF Put
  <2>4. states[d] = FreshStates[d]
    BY <1>1, <2>1, <2>2, PutKeeps
  <2>. QED  BY <2>1, <2>3, <2>4
<1>4. KeysAreHashes
  BY <1>2, <1>3 DEF KeysAreHashes
<1>5. GenesisBlock.header.state_root = d
  BY DEF GenesisBlock, Genesis, Header
<1>6. last_block = GenesisBlock /\ current_state = DefaultState
  BY DEF Init
<1>. HIDE DEF g, d
<1>7. EveryStateIsKnown
  BY <1>2, <1>3, <1>5 DEF EveryStateIsKnown
<1>8. EveryBlockFollows
  BY <1>2 DEF EveryBlockFollows
<1>9. g \in DOMAIN blocks
  BY <1>2
<1>10. StorageSound
  BY <1>4, <1>7, <1>8, <1>9 DEF StorageSound, g
<1>11. TipSound
  BY <1>5, <1>6, <1>9 DEF TipSound, g, d
<1>. QED
  BY <1>10, <1>11 DEF IInv

\* Where the storage and the tip stay as they are, so does the invariant.
LEMMA KeepsIInv ==
    ASSUME IInv, UNCHANGED storage
    PROVE  IInv'
<1>1. blocks' = blocks /\ states' = states /\ last_block' = last_block /\ current_state' = current_state
  BY DEF storage
<1>2. KeysAreHashes' /\ (HashBlock(GenesisBlock) \in DOMAIN blocks)' /\ EveryStateIsKnown'
  BY <1>1 DEF IInv, StorageSound, KeysAreHashes, EveryStateIsKnown
<1>3. EveryBlockFollows'
  BY <1>1 DEF IInv, StorageSound, EveryBlockFollows, Follows, Authored, Imported, StateOf
<1>4. TipSound'
  BY <1>1 DEF IInv, TipSound
<1>. QED
  BY <1>2, <1>3, <1>4 DEF IInv, StorageSound

\* The old tip stays in the storage when something is added to it.
LEMMA TipStays ==
    ASSUME IInv, NEW b, NEW s, Store(b, s), UNCHANGED <<last_block, current_state>>
    PROVE  TipSound'
BY StoreKeeps DEF IInv, StorageSound, TipSound

\* A tip that was just stored is sound.
LEMMA TipMoves ==
    ASSUME NEW b, NEW s, Store(b, s), MoveTip(b, s), b.header.state_root = HashState(s)
    PROVE  TipSound'
<1>1. blocks' = Put(blocks, HashBlock(b), b) /\ last_block' = b /\ current_state' = s
  BY DEF Store, MoveTip
<1>2. HashBlock(b) \in DOMAIN blocks'
  BY <1>1 DEF Put
<1>. QED
  BY <1>1, <1>2 DEF TipSound

LEMMA NextIInv == IInv /\ [Next]_vars => IInv'
<1>. SUFFICES ASSUME IInv, [Next]_vars PROVE IInv'
  OBVIOUS
<1>0. StorageSound
  BY DEF IInv
<1>1. CASE UNCHANGED vars
  BY <1>1, KeepsIInv DEF vars
<1>2. ASSUME NEW t \in Txs, SubmitTransaction(t)
      PROVE  IInv'
  BY <1>2, KeepsIInv DEF SubmitTransaction
<1>3. ASSUME NEW body \in Bodies, NEW parentHash \in DOMAIN blocks, AuthorManual(body, parentHash)
      PROVE  IInv'
  <2>. DEFINE s == StateOn(parentHash, body)
  <2>1. PICK b \in Sealed(parentHash, body, s) : Store(b, s)
    BY <1>3 DEF AuthorManual
  <2>2. CanBuildOn(parentHash) /\ UNCHANGED <<last_block, current_state>>
    BY <1>3 DEF AuthorManual
  <2>3. /\ Follows(b, blocks[parentHash])
        /\ b.header.state_root = HashState(s)
    BY <1>0, <2>1, <2>2, AuthoredFollows
  <2>. HIDE DEF s
  <2>4. StorageSound'
    BY <1>0, <2>1, <2>3, StorePreserves
  <2>5. TipSound'
    BY <2>1, <2>2, TipStays
  <2>. QED
    BY <2>4, <2>5 DEF IInv
<1>4. CASE AuthorAutomatic
  <2>. DEFINE parentHash == BestBlock(node.rule, fork_choice)
              batch == NextBatch(pool)
              s == StateOn(parentHash, batch)
  <2>1. CASE UNCHANGED storage
    BY <2>1, KeepsIInv
  <2>2. CASE \E b \in Sealed(parentHash, batch, s) : Store(b, s) /\ MoveTip(b, s)
    <3>1. PICK b \in Sealed(parentHash, batch, s) : Store(b, s) /\ MoveTip(b, s)
      BY <2>2
    <3>2. CanBuildOn(parentHash)
      BY <1>4 DEF AuthorAutomatic
    <3>. HIDE DEF parentHash, batch
    <3>3. /\ parentHash \in DOMAIN blocks
          /\ Follows(b, blocks[parentHash])
          /\ b.header.state_root = HashState(s)
      BY <1>0, <3>1, <3>2, AuthoredFollows
    <3>. HIDE DEF s
    <3>4. StorageSound'
      BY <1>0, <3>1, <3>3, StorePreserves
    <3>5. TipSound'
      BY <3>1, <3>3, TipMoves
    <3>. QED
      BY <3>4, <3>5 DEF IInv
  <2>. QED
    BY <1>4, <2>1, <2>2 DEF AuthorAutomatic
<1>5. ASSUME NEW b, ImportBlock(b)
      PROVE  IInv'
  <2>. DEFINE s == Execute(current_state, b.body)
              p == HashBlock(last_block)
  <2>1. Store(b, s) /\ Acceptable(b) /\ UNCHANGED <<last_block, current_state>>
    BY <1>5 DEF ImportBlock
  <2>2. /\ p \in DOMAIN blocks
        /\ Follows(b, blocks[p])
        /\ b.header.state_root = HashState(s)
    BY <2>1, AcceptableFollows
  <2>. HIDE DEF s, p
  <2>3. StorageSound'
    BY <1>0, <2>1, <2>2, StorePreserves
  <2>4. TipSound'
    BY <2>1, TipStays
  <2>. QED
    BY <2>3, <2>4 DEF IInv
<1>6. CASE ImportOffered
  BY <1>5, <1>6 DEF ImportOffered
<1>. QED
  BY <1>1, <1>2, <1>3, <1>4, <1>6 DEF Next

\* Whatever mix of authoring and imports built it, the storage is one tree of valid
\* blocks over genesis, with the state of each (p2:56-89, p5:34-150).
THEOREM StorageAlwaysSound == Spec => []StorageSound
<1>1. IInv => StorageSound
  BY DEF IInv
<1>. QED
  BY InitIInv, NextIInv, <1>1, PTL DEF Spec

\* The tip and the current state that import_block combines are always of one stored
\* block (p2:57-77, p5:144-145).
THEOREM TipAlwaysSound == Spec => []TipSound
<1>1. IInv => TipSound
  BY DEF IInv
<1>. QED
  BY InitIInv, NextIInv, <1>1, PTL DEF Spec

-----------------------------------------------------------------------------
(* What was imported verifies *)

\* What refers to a block by its header was validated against that header.
Validated ==
    \A h, p \in DOMAIN blocks : Imported(blocks[h], blocks[p]) =>
        Validate(node.engine, blocks[p].header.consensus_digest, blocks[h].header)

\* The two ways to refer to a block exclude each other, and neither is of genesis.
LEMMA OneReference ==
    ASSUME NEW b, NEW p, Imported(b, p)
    PROVE  /\ \A q : ~ Authored(b, q)
           /\ \A q : Imported(b, q) => q.header = p.header
           /\ b # GenesisBlock
BY DEF Imported, Authored, HashHeader, HashBlock, GenesisBlock, Genesis, Header, ZeroHash

\* An imported block of the storage follows one that it refers to by its header.
LEMMA ImportedFollows ==
    ASSUME StorageSound, NEW h \in DOMAIN blocks, NEW p, Imported(blocks[h], p)
    PROVE  \E q \in DOMAIN blocks :
              /\ Follows(blocks[h], blocks[q])
              /\ Imported(blocks[h], blocks[q])
              /\ blocks[q].header = p.header
<1>1. blocks[h] # GenesisBlock
  BY OneReference
<1>2. PICK q \in DOMAIN blocks : Follows(blocks[h], blocks[q])
  BY <1>1 DEF StorageSound, EveryBlockFollows
<1>3. Imported(blocks[h], blocks[q])
  BY <1>2, OneReference DEF Follows
<1>4. blocks[q].header = p.header
  BY <1>3, OneReference
<1>. QED
  BY <1>2, <1>3, <1>4

LEMMA StoreValidates ==
    ASSUME StorageSound, Validated, node' = node, NEW b, NEW s, Store(b, s),
           NEW q \in DOMAIN blocks, Follows(b, blocks[q]),
           Imported(b, blocks[q]) =>
               Validate(node.engine, blocks[q].header.consensus_digest, b.header)
    PROVE  Validated'
<1>1. /\ \A h \in DOMAIN blocks : h \in DOMAIN blocks' /\ blocks'[h] = blocks[h]
      /\ DOMAIN blocks' = DOMAIN blocks \cup {HashBlock(b)}
      /\ blocks'[HashBlock(b)] = b
  BY StoreKeeps DEF StorageSound
<1>2. ASSUME NEW h \in DOMAIN blocks', NEW p \in DOMAIN blocks',
             Imported(blocks'[h], blocks'[p])
      PROVE  Validate(node.engine, blocks'[p].header.consensus_digest, blocks'[h].header)
  <2>1. CASE h \in DOMAIN blocks
    <3>1. PICK r \in DOMAIN blocks : /\ Imported(blocks[h], blocks[r])
                                     /\ blocks[r].header = blocks'[p].header
      BY <1>1, <1>2, <2>1, ImportedFollows
    <3>2. Validate(node.engine, blocks[r].header.consensus_digest, blocks[h].header)
      BY <2>1, <3>1 DEF Validated
    <3>. QED
      BY <1>1, <2>1, <3>1, <3>2
  <2>2. CASE h = HashBlock(b)
    <3>1. blocks'[h] = b
      BY <1>1, <2>2
    <3>2. Imported(b, blocks[q])
      BY <1>2, <3>1, OneReference DEF Follows
    <3>3. blocks'[p].header = blocks[q].header
      BY <1>2, <3>1, <3>2, OneReference
    <3>. QED
      BY <3>1, <3>2, <3>3
  <2>. QED
    BY <1>1, <2>1, <2>2
<1>. QED
  BY <1>2 DEF Validated, Imported

\* What an author builds does not refer to a block by its header.
LEMMA SealedIsNotImported ==
    ASSUME StorageSound, NEW parentHash, CanBuildOn(parentHash), NEW body, NEW s,
           NEW b \in Sealed(parentHash, body, s)
    PROVE  ~ Imported(b, blocks[parentHash])
<1>1. b.header.parent = parentHash
  BY DEF Sealed, AuthoredBlock, Header
<1>2. parentHash = HashBlock(blocks[parentHash])
  BY DEF CanBuildOn, StorageSound, KeysAreHashes
<1>. QED
  BY <1>1, <1>2 DEF Imported, HashBlock, HashHeader

LEMMA AlwaysValidated == Spec => []Validated
<1>1. Init => Validated
  <2>. SUFFICES ASSUME Init, NEW h \in DOMAIN blocks, NEW p \in DOMAIN blocks,
                       Imported(blocks[h], blocks[p])
                PROVE  FALSE
    BY DEF Validated
  <2>1. blocks[h] = GenesisBlock
    BY DEF Init, Put
  <2>. QED
    BY <2>1, OneReference
<1>2. IInv /\ Validated /\ [Next]_vars => Validated'
  <2>. SUFFICES ASSUME IInv, Validated, [Next]_vars PROVE Validated'
    OBVIOUS
  <2>0. StorageSound
    BY DEF IInv
  <2>1. ASSUME blocks' = blocks, node' = node PROVE Validated'
    BY <2>1 DEF Validated, Imported
  <2>2. ASSUME NEW t \in Txs, SubmitTransaction(t) PROVE Validated'
    BY <2>1, <2>2 DEF SubmitTransaction, storage
  <2>3. ASSUME NEW body, NEW parentHash, CanBuildOn(parentHash), node' = node,
               NEW s, s = StateOn(parentHash, body),
               NEW b \in Sealed(parentHash, body, s), Store(b, s)
        PROVE  Validated'
    <3>1. parentHash \in DOMAIN blocks /\ Follows(b, blocks[parentHash])
      BY <2>0, <2>3, AuthoredFollows
    <3>2. ~ Imported(b, blocks[parentHash])
      BY <2>0, <2>3, SealedIsNotImported
    <3>. QED
      BY <2>0, <2>3, <3>1, <3>2, StoreValidates
  <2>4. ASSUME NEW body \in Bodies, NEW parentHash \in DOMAIN blocks,
               AuthorManual(body, parentHash)
        PROVE  Validated'
    BY <2>3, <2>4 DEF AuthorManual
  <2>5. CASE AuthorAutomatic
    <3>1. PICK parentHash, body, s :
             /\ parentHash = BestBlock(node.rule, fork_choice)
             /\ body = NextBatch(pool) /\ s = StateOn(parentHash, body)
      OBVIOUS
    <3>2. /\ node' = node /\ CanBuildOn(parentHash)
          /\ \/ UNCHANGED storage
             \/ \E b \in Sealed(parentHash, body, s) : Store(b, s)
      BY <2>5, <3>1 DEF AuthorAutomatic
    <3>3. CASE UNCHANGED storage
      BY <2>1, <3>2, <3>3 DEF storage
    <3>. QED
      BY <2>3, <3>1, <3>2, <3>3
  <2>6. ASSUME NEW b, ImportBlock(b) PROVE Validated'
    <3>1. /\ Store(b, Execute(current_state, b.body)) /\ Acceptable(b) /\ node' = node
      BY <2>6 DEF ImportBlock
    <3>2. /\ HashBlock(last_block) \in DOMAIN blocks
          /\ blocks[HashBlock(last_block)] = last_block
          /\ Follows(b, last_block)
      BY <3>1, AcceptableFollows
    <3>3. Validate(node.engine, last_block.header.consensus_digest, b.header)
      BY <3>1 DEF Acceptable
    <3>. QED
      BY <2>0, <3>1, <3>2, <3>3, StoreValidates
  <2>7. CASE ImportOffered
    BY <2>6, <2>7 DEF ImportOffered
  <2>8. CASE UNCHANGED vars
    BY <2>1, <2>8 DEF vars, storage
  <2>. QED
    BY <2>2, <2>4, <2>5, <2>7, <2>8 DEF Next
<1>. QED
  BY <1>1, <1>2, InitIInv, NextIInv, PTL DEF Spec

\* The states that verify_sub_chain goes through on a chain of one block.
Runs(g, preState, chain) ==
    g = [k \in 0..1 |-> IF k = 0 THEN preState ELSE Execute(g[k - 1], chain[k].body)]

LEMMA StateAfterOne ==
    ASSUME NEW preState, NEW b
    PROVE  StateAfter(preState, <<b>>, 1) = Execute(preState, b.body)
<1>1. PICK chain : chain = <<b>>
  OBVIOUS
<1>2. chain[1] = b
  BY <1>1
<1>3. PICK after : after = Execute(preState, b.body)
  OBVIOUS
<1>4. \E g : Runs(g, preState, chain)
  <2>1. PICK g : g = [k \in 0..1 |-> IF k = 0 THEN preState ELSE after]
    OBVIOUS
  <2>2. g = [k \in 0..1 |-> g[k]] /\ g[0] = preState /\ g[1] = after
    BY <2>1
  <2>3. ASSUME NEW k \in 0..1
        PROVE  g[k] = IF k = 0 THEN preState ELSE Execute(g[k - 1], chain[k].body)
    <3>1. k = 0 \/ k = 1
      OBVIOUS
    <3>. QED
      BY <1>2, <1>3, <2>2, <3>1
  <2>. QED
    BY <2>2, <2>3 DEF Runs
<1>5. PICK g : g = (CHOOSE h : Runs(h, preState, chain)) /\ Runs(g, preState, chain)
  BY <1>4
<1>6. StateAfter(preState, chain, 1) = g[1]
  BY <1>5 DEF StateAfter, Runs
<1>. QED
  BY <1>1, <1>2, <1>5, <1>6 DEF Runs

\* Whatever import_block lets in passes the block's own verify_sub_chain, and the
\* engine's validate, on every stored block that it refers to (p2:56-89, p1:113-136).
THEOREM ImportsAlwaysVerify == Spec => []ImportsVerify
<1>1. IInv /\ Validated => ImportsVerify
  <2>. SUFFICES ASSUME IInv, Validated, NEW h \in DOMAIN blocks, NEW p \in DOMAIN blocks,
                       Imported(blocks[h], blocks[p])
                PROVE  VerifySubChain(blocks[p], StateOf(blocks[p]), <<blocks[h]>>)
    BY DEF ImportsVerify, Validated
  <2>1. PICK q \in DOMAIN blocks :
           Follows(blocks[h], blocks[q]) /\ blocks[q].header = blocks[p].header
    BY ImportedFollows DEF IInv
  <2>2. PICK b, chain : b = blocks[h] /\ chain = <<b>>
    OBVIOUS
  <2>3. DOMAIN chain = {1} /\ chain[1] = b
    BY <2>2
  <2>4. StateAfter(StateOf(blocks[p]), chain, 1) = Execute(StateOf(blocks[p]), b.body)
    BY <2>2, StateAfterOne
  <2>5. StateOf(blocks[q]) = StateOf(blocks[p])
    BY <2>1 DEF StateOf
  <2>6. /\ b.header.state_root = HashState(Execute(StateOf(blocks[p]), b.body))
        /\ b.header.extrinsics_root = HashBody(b.body)
        /\ b.header.height = blocks[p].header.height + 1
    BY <2>1, <2>2, <2>5 DEF Follows
  <2>7. b.header.parent = HashHeader(blocks[p].header)
    BY <2>2 DEF Imported
  <2>8. VerifyHeaders(blocks[p].header, chain)
    BY <2>3, <2>6, <2>7 DEF VerifyHeaders, VerifyChild
  <2>9. VerifySubChain(blocks[p], StateOf(blocks[p]), chain)
    BY <2>3, <2>4, <2>6, <2>8 DEF VerifySubChain
  <2>. QED
    BY <2>2, <2>9
<1>. QED
  BY <1>1, AlwaysValidated, InitIInv, NextIInv, PTL DEF Spec

-----------------------------------------------------------------------------
(* Every transaction is accounted for *)

At(q, K, t) == {i \in K : q[i] = t}

\* A list that holds what another one has at the positions K holds as much of it.
LEMMA MovedCount ==
    ASSUME NEW q, NEW K, NEW r, IsFiniteSet(DOMAIN r),
           NEW f \in Bijection(DOMAIN r, K), \A k \in DOMAIN r : r[k] = q[f[k]],
           NEW t
    PROVE  CountIn(r, t) = Cardinality(At(q, K, t))
<1>. DEFINE D == {k \in DOMAIN r : r[k] = t}
            T == At(q, K, t)
            g == [k \in D |-> f[k]]
<1>1. /\ f \in [DOMAIN r -> K] /\ (\A i \in K : \E k \in DOMAIN r : f[k] = i)
      /\ \A k, l \in DOMAIN r : f[k] = f[l] => k = l
  BY DEF Bijection, Injection, Surjection, IsInjective
<1>2. g \in [D -> T]
  BY <1>1 DEF At
<1>3. \A k, l \in D : g[k] = g[l] => k = l
  BY <1>1
<1>4. \A i \in T : \E k \in D : g[k] = i
  BY <1>1 DEF At
<1>5. IsFiniteSet(D)
  <2>1. D \in SUBSET DOMAIN r
    OBVIOUS
  <2>. HIDE DEF D
  <2>. QED  BY <2>1, FS_Subset
<1>. HIDE DEF D, T, g
<1>6. DOMAIN g = D
  BY <1>2
<1>7. g \in Bijection(D, T)
  BY <1>2, <1>3, <1>4, <1>6 DEF Bijection, Injection, Surjection, IsInjective
<1>8. Cardinality(T) = Cardinality(D)
  BY <1>5, <1>7, FS_Bijection DEF ExistsBijection
<1>. QED
  BY <1>8 DEF CountIn, D, T

\* The counts of two parts of the positions add up.
LEMMA SplitCount ==
    ASSUME NEW q, NEW K, NEW L, IsFiniteSet(K), IsFiniteSet(L), K \cap L = {}, NEW t
    PROVE  /\ Cardinality(At(q, K, t)) \in Nat
           /\ Cardinality(At(q, L, t)) \in Nat
           /\ Cardinality(At(q, K \cup L, t)) =
                 Cardinality(At(q, K, t)) + Cardinality(At(q, L, t))
<1>. DEFINE A == At(q, K, t)
            B == At(q, L, t)
<1>1. A \in SUBSET K /\ B \in SUBSET L /\ A \cap B = {} /\ At(q, K \cup L, t) = A \cup B
  BY DEF At
<1>. HIDE DEF A, B
<1>2. IsFiniteSet(A) /\ IsFiniteSet(B)
  BY <1>1, FS_Subset
<1>3. Cardinality(A) \in Nat /\ Cardinality(B) \in Nat
  BY <1>2, FS_CardinalityType
<1>4. Cardinality(A \cup B) = Cardinality(A) + Cardinality(B) - Cardinality({})
  BY <1>1, <1>2, FS_Union
<1>5. Cardinality({}) = 0
  BY FS_EmptySet
<1>6. Cardinality(A \cup B) = Cardinality(A) + Cardinality(B)
  BY <1>3, <1>4, <1>5
<1>7. Cardinality(At(q, K \cup L, t)) = Cardinality(A \cup B)
  BY <1>1
<1>. QED
  BY <1>3, <1>6, <1>7 DEF A, B

LEMMA CountIsNat ==
    ASSUME NEW S, NEW q \in Seq(S), NEW t
    PROVE  /\ CountIn(q, t) \in Nat
           /\ CountIn(q, t) > 0 <=> t \in Range(q)
<1>. DEFINE D == {i \in DOMAIN q : q[i] = t}
<1>1. IsFiniteSet(DOMAIN q)
  <2>1. Len(q) \in Nat /\ DOMAIN q = 1..Len(q)
    OBVIOUS
  <2>. QED  BY <2>1, FS_Interval
<1>2. D \in SUBSET DOMAIN q /\ (D # {} <=> t \in Range(q))
  BY DEF Range
<1>. HIDE DEF D
<1>3. IsFiniteSet(D)
  BY <1>1, <1>2, FS_Subset
<1>4. Cardinality(D) \in Nat /\ (Cardinality(D) = 0 <=> D = {})
  BY <1>3, FS_CardinalityType, FS_EmptySet
<1>. QED
  BY <1>2, <1>4 DEF CountIn, D

\* Retain keeps what is at the positions to keep, each once.
LEMMA RetainedCount ==
    ASSUME NEW S, NEW q \in Seq(S), NEW kept \in SUBSET DOMAIN q, NEW t
    PROVE  CountIn(Retain(q, kept), t) = Cardinality(At(q, kept, t))
<1>. DEFINE n == Cardinality(kept)
            r == Retain(q, kept)
            f == [k \in 1..n |-> Nth(kept, k)]
<1>1. Len(q) \in Nat /\ DOMAIN q = 1..Len(q)
  OBVIOUS
<1>2. IsFiniteSet(kept) /\ \A i \in kept : i \in Nat
  <2>1. IsFiniteSet(1..Len(q))
    BY <1>1, FS_Interval
  <2>2. kept \in SUBSET (1..Len(q))
    BY <1>1
  <2>3. IsFiniteSet(kept)
    BY <2>1, <2>2, FS_Subset
  <2>. QED  BY <1>1, <2>2, <2>3
<1>3. /\ n \in Nat
      /\ \A k \in 1..n : Nth(kept, k) \in kept
      /\ \A k, l \in 1..n : k < l => Nth(kept, k) < Nth(kept, l)
      /\ \A i \in kept : \E k \in 1..n : Nth(kept, k) = i
  BY <1>2, NthEnumerates
<1>4. DOMAIN r = 1..n /\ \A k \in 1..n : r[k] = q[f[k]]
  BY DEF Retain
<1>5. f \in [1..n -> kept] /\ (\A i \in kept : \E k \in 1..n : f[k] = i)
      /\ DOMAIN f = 1..n
  BY <1>3
<1>6. ASSUME NEW k \in 1..n, NEW l \in 1..n, f[k] = f[l] PROVE k = l
  <2>1. ~ (k < l) /\ ~ (l < k)
    <3>1. f[k] = Nth(kept, k) /\ f[l] = Nth(kept, l)
      OBVIOUS
    <3>2. Nth(kept, k) \in Nat
      BY <1>2, <1>3
    <3>. QED  BY <1>3, <1>6, <3>1, <3>2
  <2>2. k \in Nat /\ l \in Nat
    BY <1>3
  <2>. QED  BY <2>1, <2>2
<1>. HIDE DEF f, n, r
<1>7. f \in Bijection(1..n, kept)
  BY <1>5, <1>6 DEF Bijection, Injection, Surjection, IsInjective
<1>8. IsFiniteSet(1..n)
  BY <1>3, FS_Interval
<1>9. CountIn(r, t) = Cardinality(At(q, kept, t))
  BY <1>4, <1>7, <1>8, MovedCount
<1>. QED  BY <1>9 DEF r

\* What the client needs of a pool: it changes only to let the transaction in, once,
\* and keeps what it has.
Once(t) == [u \in Txs |-> IF u = t THEN 1 ELSE 0]

Lets(q, t, r) ==
    /\ r \in Seq(Txs)
    /\ r = q \/ \A u \in Txs : CountIn(r, u) = CountIn(q, u) + Once(t)[u]

PoolsKeep ==
    \A n \in Nodes, q \in Seq(Txs), t \in Txs : Lets(q, t, TryInsert(n.pool, q, t))

\* An insertion, at any position, keeps every element and adds the new one.
LEMMA InsertedCount ==
    ASSUME NEW q \in Seq(Txs), NEW t \in Txs, NEW p \in 1..Len(q) + 1,
           NEW r \in Seq(Txs), Inserted(q, p, t, r)
    PROVE  Lets(q, t, r)
<1>. DEFINE K == (1..Len(q) + 1) \ {p}
            f == [i \in 1..Len(q) |-> IF i < p THEN i ELSE i + 1]
<1>1. /\ Len(q) \in Nat /\ DOMAIN q = 1..Len(q) /\ DOMAIN r = 1..Len(q) + 1 /\ p \in Nat
      /\ \A i \in 1..Len(q) + 1 : r[i] = IF i < p THEN q[i] ELSE IF i = p THEN t ELSE q[i - 1]
  BY DEF Inserted
<1>2. DOMAIN f = 1..Len(q) /\ \A i \in 1..Len(q) : f[i] = IF i < p THEN i ELSE i + 1
  OBVIOUS
<1>3. f \in [1..Len(q) -> K]
  BY <1>1
<1>. HIDE DEF f
<1>4. \A i, j \in 1..Len(q) : f[i] = f[j] => i = j
  BY <1>1, <1>2
<1>5. \A k \in K : \E i \in 1..Len(q) : f[i] = k
  <2>. SUFFICES ASSUME NEW k \in K PROVE \E i \in 1..Len(q) : f[i] = k
    OBVIOUS
  <2>1. CASE k < p
    BY <1>1, <1>2, <2>1
  <2>2. CASE ~ (k < p)
    <3>1. k - 1 \in 1..Len(q) /\ ~ (k - 1 < p) /\ (k - 1) + 1 = k
      BY <1>1, <2>2
    <3>. QED  BY <1>2, <3>1
  <2>. QED  BY <2>1, <2>2
<1>6. \A i \in 1..Len(q) : q[i] = r[f[i]]
  <2>. SUFFICES ASSUME NEW i \in 1..Len(q) PROVE q[i] = r[f[i]]
    OBVIOUS
  <2>1. CASE i < p
    BY <1>1, <1>2, <2>1
  <2>2. CASE ~ (i < p)
    <3>1. i + 1 \in 1..Len(q) + 1 /\ ~ (i + 1 < p) /\ i + 1 # p /\ (i + 1) - 1 = i
      BY <1>1, <2>2
    <3>2. r[i + 1] = q[(i + 1) - 1]
      BY <1>1, <3>1
    <3>. QED  BY <1>2, <2>2, <3>1, <3>2
  <2>. QED  BY <2>1, <2>2
<1>7. K \cup {p} = DOMAIN r /\ K \cap {p} = {} /\ K \in SUBSET (1..Len(q) + 1)
  BY <1>1
<1>. HIDE DEF K
<1>8. IsFiniteSet(1..Len(q)) /\ IsFiniteSet(1..Len(q) + 1)
  BY <1>1, FS_Interval
<1>9. IsFiniteSet(K) /\ IsFiniteSet({p})
  BY <1>7, <1>8, FS_Subset, FS_Singleton
<1>10. f \in Bijection(DOMAIN q, K)
  BY <1>1, <1>2, <1>3, <1>4, <1>5 DEF Bijection, Injection, Surjection, IsInjective
<1>11. ASSUME NEW u \in Txs
       PROVE  CountIn(r, u) = CountIn(q, u) + Once(t)[u]
  <2>1. CountIn(q, u) = Cardinality(At(r, K, u))
    BY <1>1, <1>6, <1>8, <1>10, MovedCount
  <2>2. CountIn(r, u) = Cardinality(At(r, K \cup {p}, u))
    BY <1>7 DEF CountIn, At
  <2>3. Cardinality(At(r, K \cup {p}, u)) =
           Cardinality(At(r, K, u)) + Cardinality(At(r, {p}, u))
    BY <1>7, <1>9, SplitCount
  <2>4. Cardinality(At(r, {p}, u)) = Once(t)[u]
    <3>1. r[p] = t
      BY <1>1
    <3>2. At(r, {p}, u) = IF u = t THEN {p} ELSE {}
      BY <3>1 DEF At
    <3>. QED  BY <3>2, FS_Singleton, FS_EmptySet DEF Once
  <2>. QED  BY <2>1, <2>2, <2>3, <2>4
<1>. QED
  BY <1>11 DEF Lets

\* The pools of the repository do, whatever their threshold and their censor.
LEMMA NodePoolsKeep ==
    ASSUME NEW p, p.kind \in {"PriorityPool", "CensoringPool"},
           NEW q \in Seq(Txs), NEW t \in Txs
    PROVE  Lets(q, t, NodeTryInsert(p, q, t))
<1>. DEFINE lower == {i \in DOMAIN q : Priority(q[i]) < Priority(t)}
<1>0. Len(q) \in Nat /\ DOMAIN q = 1..Len(q)
  OBVIOUS
<1>1. Lets(q, t, q)
  BY DEF Lets
<1>2. Lets(q, t, Append(q, t))
  <2>1. Append(q, t) \in Seq(Txs) /\ Inserted(q, Len(q) + 1, t, Append(q, t))
    BY <1>0 DEF Inserted
  <2>2. Len(q) + 1 \in 1..Len(q) + 1
    BY <1>0
  <2>. DEFINE r == Append(q, t)
  <2>. HIDE DEF r
  <2>3. r \in Seq(Txs) /\ Inserted(q, Len(q) + 1, t, r)
    BY <2>1 DEF r
  <2>4. Lets(q, t, r)
    BY <2>2, <2>3, InsertedCount
  <2>. QED
    BY <2>4 DEF r
<1>3. lower # {} => Lets(q, t, InsertAt(q, Min(lower), t))
  <2>. SUFFICES ASSUME lower # {} PROVE Lets(q, t, InsertAt(q, Min(lower), t))
    OBVIOUS
  <2>1. lower \in SUBSET Nat /\ lower \in SUBSET (1..Len(q))
    BY <1>0
  <2>. HIDE DEF lower
  <2>2. Min(lower) \in 1..Len(q)
    BY <2>1, MinOfNats
  <2>3. InsertAt(q, Min(lower), t) \in Seq(Txs) /\ Inserted(q, Min(lower), t, InsertAt(q, Min(lower), t))
    BY <2>2, InsertAtElements
  <2>4. Min(lower) \in 1..Len(q) + 1
    BY <2>2, <1>0
  <2>. QED
    BY <2>3, <2>4, InsertedCount
<1>4. CASE p.kind = "PriorityPool"
  <2>1. \/ NodeTryInsert(p, q, t) = q
        \/ NodeTryInsert(p, q, t) = PriorityInsert(q, t, lower)
    BY <1>4, Zenon DEF NodeTryInsert
  <2>2. PriorityInsert(q, t, lower) = IF lower = {} THEN Append(q, t) ELSE InsertAt(q, Min(lower), t)
    BY DEF PriorityInsert
  <2>. HIDE DEF lower
  <2>. QED
    BY <2>1, <2>2, <1>1, <1>2, <1>3
<1>5. CASE p.kind = "CensoringPool"
  <2>1. NodeTryInsert(p, q, t) = q \/ NodeTryInsert(p, q, t) = Append(q, t)
    BY <1>5 DEF NodeTryInsert, PushBack
  <2>. QED
    BY <2>1, <1>1, <1>2
<1>. QED
  BY <1>4, <1>5

\* A batch and what remains behind it are all of the queue; of what remains, what is
\* equal to a transaction of the batch is swept out, and the rest stays.
LEMMA BatchSplits ==
    ASSUME NEW q \in Seq(Txs)
    PROVE  LET batch == NextBatch(q)
               rest == AfterBatch(q)
               gone == SweptBy(batch, rest)
           IN /\ {batch, rest, gone, AfterInclusion(q)} \subseteq Seq(Txs)
              /\ \A t \in Txs :
                    /\ CountIn(q, t) = CountIn(batch, t) + CountIn(rest, t)
                    /\ CountIn(rest, t) = CountIn(AfterInclusion(q), t) + CountIn(gone, t)
              /\ Range(gone) \subseteq Range(batch)
<1>. DEFINE n == IF Len(q) < BatchSize THEN Len(q) ELSE BatchSize
            batch == NextBatch(q)
            rest == AfterBatch(q)
            kept == OthersThan(batch, rest)
            gone == SweptBy(batch, rest)
<1>1. Len(q) \in Nat /\ DOMAIN q = 1..Len(q) /\ (\A i \in 1..Len(q) : q[i] \in Txs)
  OBVIOUS
<1>2. n \in 0..Len(q)
  BY <1>1, BatchAssumption
<1>. HIDE DEF n, batch, rest, kept, gone
<1>3. /\ batch \in Seq(Txs) /\ Len(batch) = n
      /\ \A i \in 1..n : batch[i] = q[i]
  <2>1. batch = SubSeq(q, 1, n)
    BY DEF NextBatch, n, batch
  <2>. QED
    BY <2>1, <1>2, FirstElements
<1>4. /\ rest \in Seq(Txs) /\ Len(rest) = Len(q) - n
      /\ \A i \in 1..Len(q) - n : rest[i] = q[n + i]
  <2>1. rest = SubSeq(q, n + 1, Len(q))
    BY <1>3 DEF AfterBatch, rest, batch
  <2>. QED
    BY <2>1, <1>2, OtherElements
<1>5. AfterInclusion(q) = Retain(rest, kept) /\ gone = Retain(rest, DOMAIN rest \ kept)
  BY DEF AfterInclusion, SweptBy, batch, rest, kept, gone
<1>6. kept \in SUBSET DOMAIN rest /\ \A i \in DOMAIN rest \ kept : rest[i] \in Range(batch)
  BY DEF OthersThan, kept
<1>. DEFINE front == 1..n
            back == n + 1..Len(q)
            shift == [i \in DOMAIN rest |-> n + i]
<1>7. /\ front \cap back = {} /\ front \cup back = DOMAIN q
      /\ DOMAIN batch = front /\ DOMAIN rest = 1..Len(q) - n
  BY <1>1, <1>2, <1>3, <1>4
<1>8. IsFiniteSet(front) /\ IsFiniteSet(back) /\ IsFiniteSet(DOMAIN rest)
  BY <1>1, <1>2, <1>7, FS_Interval
<1>9. shift \in Bijection(DOMAIN rest, back)
  <2>1. shift \in [DOMAIN rest -> back] /\ DOMAIN shift = DOMAIN rest
    BY <1>1, <1>2, <1>7
  <2>2. \A i, j \in DOMAIN rest : shift[i] = shift[j] => i = j
    BY <1>1, <1>2, <1>7
  <2>3. \A k \in back : \E i \in DOMAIN rest : shift[i] = k
    <3>. SUFFICES ASSUME NEW k \in back PROVE \E i \in DOMAIN rest : shift[i] = k
      OBVIOUS
    <3>1. k - n \in DOMAIN rest /\ n + (k - n) = k
      BY <1>1, <1>2, <1>7
    <3>. QED  BY <3>1
  <2>. HIDE DEF shift, back
  <2>. QED  BY <2>1, <2>2, <2>3 DEF Bijection, Injection, Surjection, IsInjective
<1>10. \A i \in DOMAIN rest : rest[i] = q[shift[i]]
  BY <1>4, <1>7
<1>. HIDE DEF shift, front, back
<1>11. ASSUME NEW t \in Txs
       PROVE  CountIn(q, t) = CountIn(batch, t) + CountIn(rest, t)
  <2>1. CountIn(q, t) = Cardinality(At(q, front \cup back, t))
    BY <1>7 DEF CountIn, At
  <2>2. CountIn(batch, t) = Cardinality(At(q, front, t))
    BY <1>3, <1>7 DEF CountIn, At, front
  <2>3. CountIn(rest, t) = Cardinality(At(q, back, t))
    BY <1>8, <1>9, <1>10, MovedCount
  <2>4. Cardinality(At(q, front \cup back, t)) =
           Cardinality(At(q, front, t)) + Cardinality(At(q, back, t))
    BY <1>7, <1>8, SplitCount
  <2>. QED  BY <2>1, <2>2, <2>3, <2>4
<1>12. ASSUME NEW t \in Txs
       PROVE  CountIn(rest, t) = CountIn(AfterInclusion(q), t) + CountIn(gone, t)
  <2>. DEFINE left == DOMAIN rest \ kept
  <2>1. left \in SUBSET DOMAIN rest /\ kept \cap left = {} /\ kept \cup left = DOMAIN rest
    BY <1>6
  <2>2. gone = Retain(rest, left)
    BY <1>5
  <2>. HIDE DEF left
  <2>3. IsFiniteSet(kept) /\ IsFiniteSet(left)
    BY <1>6, <1>8, <2>1, FS_Subset
  <2>4. CountIn(rest, t) = Cardinality(At(rest, kept \cup left, t))
    BY <2>1 DEF CountIn, At
  <2>5. CountIn(AfterInclusion(q), t) = Cardinality(At(rest, kept, t))
    BY <1>4, <1>5, <1>6, RetainedCount
  <2>6. CountIn(gone, t) = Cardinality(At(rest, left, t))
    BY <1>4, <2>1, <2>2, RetainedCount
  <2>7. Cardinality(At(rest, kept \cup left, t)) =
           Cardinality(At(rest, kept, t)) + Cardinality(At(rest, left, t))
    BY <2>1, <2>3, SplitCount
  <2>. QED  BY <2>4, <2>5, <2>6, <2>7
<1>13. AfterInclusion(q) \in Seq(Txs)
  BY <1>4, <1>5, <1>6, RetainElements
<1>14. gone \in Seq(Txs) /\ Range(gone) \subseteq Range(batch)
  <2>. DEFINE left == DOMAIN rest \ kept
  <2>1. left \in SUBSET DOMAIN rest /\ gone = Retain(rest, left)
    BY <1>5
  <2>2. \A i \in left : rest[i] \in Range(batch)
    BY <1>6
  <2>. HIDE DEF left
  <2>3. gone \in Seq(Txs) /\ \A k \in DOMAIN gone : Nth(left, k) \in left /\ gone[k] = rest[Nth(left, k)]
    BY <1>4, <2>1, RetainElements
  <2>4. \A k \in DOMAIN gone : gone[k] \in Range(batch)
    BY <2>2, <2>3
  <2>5. \A S : Range(gone) \subseteq S <=> \A k \in DOMAIN gone : gone[k] \in S
    BY DEF Range
  <2>. QED  BY <2>3, <2>4, <2>5
<1>. QED
  BY <1>3, <1>4, <1>11, <1>12, <1>13, <1>14 DEF batch, rest, gone

PoolInv ==
    /\ node \in Nodes
    /\ pool \in Seq(Txs)
    /\ {accepted, executed, dropped, swept} \subseteq [Txs -> Nat]
    /\ EachAccountedFor

\* What is in a block stays in one.
LEMMA IncludedStays ==
    ASSUME IInv, NEW t, Included(t), UNCHANGED storage \/ \E b, s : Store(b, s)
    PROVE  Included(t)'
<1>1. CASE UNCHANGED storage
  BY <1>1 DEF storage, Included
<1>2. ASSUME NEW b, NEW s, Store(b, s) PROVE Included(t)'
  BY <1>2, StoreKeeps DEF IInv, StorageSound, Included
<1>. QED
  BY <1>1, <1>2

LEMMA InitPoolInv == Init => PoolInv
<1>. SUFFICES ASSUME Init PROVE PoolInv
  OBVIOUS
<1>1. /\ node \in Nodes /\ pool = <<>> /\ pool \in Seq(Txs)
      /\ accepted = NoneYet /\ executed = NoneYet /\ dropped = NoneYet /\ swept = NoneYet
  BY DEF Init
<1>2. NoneYet \in [Txs -> Nat] /\ \A t \in Txs : NoneYet[t] = 0
  BY DEF NoneYet
<1>3. \A t : CountIn(pool, t) = 0
  BY <1>1, FS_EmptySet DEF CountIn
<1>. QED
  BY <1>1, <1>2, <1>3 DEF PoolInv, EachAccountedFor

LEMMA TalliedIsNat ==
    ASSUME NEW tally \in [Txs -> Nat], NEW q \in Seq(Txs)
    PROVE  /\ Tallied(tally, q) \in [Txs -> Nat]
           /\ \A t \in Txs : Tallied(tally, q)[t] = tally[t] + CountIn(q, t)
BY CountIsNat DEF Tallied

LEMMA NextPoolInv ==
    ASSUME PoolsKeep, IInv, PoolInv, [Next]_vars
    PROVE  PoolInv'
<1>0. /\ node \in Nodes /\ pool \in Seq(Txs)
      /\ accepted \in [Txs -> Nat] /\ executed \in [Txs -> Nat]
      /\ dropped \in [Txs -> Nat] /\ swept \in [Txs -> Nat]
      /\ \A t \in Txs :
            /\ accepted[t] = CountIn(pool, t) + executed[t] + dropped[t] + swept[t]
            /\ swept[t] > 0 => executed[t] > 0
            /\ executed[t] > 0 => Included(t)
  BY DEF PoolInv, EachAccountedFor
\* Nothing is to be shown where the pool and the tallies stay.
<1>1. ASSUME UNCHANGED <<node, pool, tallies>>, UNCHANGED storage \/ \E b, s : Store(b, s)
      PROVE  PoolInv'
  <2>1. /\ node' = node /\ pool' = pool /\ accepted' = accepted /\ executed' = executed
        /\ dropped' = dropped /\ swept' = swept
    BY <1>1 DEF tallies
  <2>2. \A t \in Txs : Included(t) => Included(t)'
    BY <1>1, IncludedStays
  <2>. QED
    BY <1>0, <2>1, <2>2 DEF PoolInv, EachAccountedFor
<1>2. CASE UNCHANGED vars
  BY <1>2, <1>1 DEF vars
<1>3. ASSUME NEW t \in Txs, SubmitTransaction(t) PROVE PoolInv'
  <2>1. /\ Lets(pool, t, pool') /\ node' = node /\ dropped' = dropped /\ blocks' = blocks
        /\ executed' = executed /\ swept' = swept
    BY <1>3, <1>0 DEF PoolsKeep, SubmitTransaction, storage
  <2>2. accepted' = IF pool' = pool THEN accepted ELSE [accepted EXCEPT ![t] = @ + 1]
    BY <1>3 DEF SubmitTransaction
  <2>3. CASE pool' = pool
    <3>1. \A u \in Txs : Included(u) => Included(u)'
      BY <2>1 DEF Included
    <3>. QED
      BY <1>0, <2>1, <2>2, <2>3, <3>1 DEF PoolInv, EachAccountedFor
  <2>4. CASE pool' # pool
    <3>1. accepted' \in [Txs -> Nat] /\ \A u \in Txs : accepted'[u] = accepted[u] + Once(t)[u]
      BY <1>0, <2>2, <2>4 DEF Once
    <3>2. pool' \in Seq(Txs) /\ \A u \in Txs : CountIn(pool', u) = CountIn(pool, u) + Once(t)[u]
      BY <2>1, <2>4 DEF Lets
    <3>3. \A u \in Txs : Once(t)[u] \in Nat /\ CountIn(pool, u) \in Nat
      BY <1>0, CountIsNat DEF Once
    <3>4. \A u \in Txs :
             /\ accepted'[u] = CountIn(pool', u) + executed[u] + dropped[u] + swept[u]
             /\ swept[u] > 0 => executed[u] > 0
             /\ executed[u] > 0 => Included(u)'
      <4>. SUFFICES ASSUME NEW u \in Txs
                    PROVE  accepted'[u] = CountIn(pool', u) + executed[u] + dropped[u] + swept[u]
        BY <1>0, <2>1 DEF Included
      <4>1. PICK o, c : o = Once(t)[u] /\ c = CountIn(pool, u) /\ o \in Nat /\ c \in Nat
        BY <3>3
      <4>2. /\ accepted[u] = c + executed[u] + dropped[u] + swept[u]
            /\ executed[u] \in Nat /\ dropped[u] \in Nat /\ swept[u] \in Nat
        BY <1>0, <4>1
      <4>3. accepted'[u] = accepted[u] + o /\ CountIn(pool', u) = c + o
        BY <3>1, <3>2, <4>1
      <4>. QED  BY <4>1, <4>2, <4>3
    <3>. QED
      BY <1>0, <2>1, <3>1, <3>2, <3>4 DEF PoolInv, EachAccountedFor
  <2>. QED
    BY <2>3, <2>4
<1>4. ASSUME NEW body \in Bodies, NEW parentHash \in DOMAIN blocks, AuthorManual(body, parentHash)
      PROVE  PoolInv'
  <2>1. \E b, s : Store(b, s)
    BY <1>4 DEF AuthorManual
  <2>2. UNCHANGED <<node, pool, tallies>>
    BY <1>4 DEF AuthorManual
  <2>. QED
    BY <2>1, <2>2, <1>1
<1>5. CASE AuthorAutomatic
  <2>. DEFINE parentHash == BestBlock(node.rule, fork_choice)
              batch == NextBatch(pool)
              rest == AfterBatch(pool)
              gone == SweptBy(batch, rest)
              s == StateOn(parentHash, batch)
  <2>0. /\ CanBuildOn(parentHash) /\ UNCHANGED <<node, accepted>>
        /\ \/ UNCHANGED <<storage, pool, executed, dropped, swept>>
           \/ /\ pool' = rest /\ dropped' = Tallied(dropped, batch)
              /\ UNCHANGED <<storage, executed, swept>>
           \/ /\ pool' = AfterInclusion(pool)
              /\ executed' = Tallied(executed, batch) /\ swept' = Tallied(swept, gone)
              /\ UNCHANGED dropped
              /\ \E b \in Sealed(parentHash, batch, s) : Store(b, s)
    BY <1>5 DEF AuthorAutomatic
  <2>1. /\ batch \in Seq(Txs) /\ rest \in Seq(Txs) /\ gone \in Seq(Txs)
        /\ AfterInclusion(pool) \in Seq(Txs)
        /\ \A t \in Txs :
              /\ CountIn(pool, t) = CountIn(batch, t) + CountIn(rest, t)
              /\ CountIn(rest, t) = CountIn(AfterInclusion(pool), t) + CountIn(gone, t)
        /\ Range(gone) \subseteq Range(batch)
    BY <1>0, BatchSplits
  <2>. HIDE DEF parentHash, batch, rest, gone, s
  <2>2. \A t \in Txs : /\ CountIn(batch, t) \in Nat /\ CountIn(rest, t) \in Nat
                       /\ CountIn(gone, t) \in Nat /\ CountIn(AfterInclusion(pool), t) \in Nat
    BY <2>1, CountIsNat
  <2>3. CASE UNCHANGED <<storage, pool, executed, dropped, swept>>
    BY <2>0, <2>3, <1>1 DEF tallies
  <2>4. CASE /\ pool' = rest /\ dropped' = Tallied(dropped, batch)
             /\ UNCHANGED <<storage, executed, swept>>
    <3>1. dropped' \in [Txs -> Nat] /\ \A t \in Txs : dropped'[t] = dropped[t] + CountIn(batch, t)
      BY <1>0, <2>1, <2>4, TalliedIsNat
    <3>2. ASSUME NEW t \in Txs
          PROVE  /\ accepted[t] = CountIn(rest, t) + executed[t] + dropped'[t] + swept[t]
                 /\ executed[t] > 0 => Included(t)'
      <4>1. PICK x, y, e, d, w :
               /\ x = CountIn(batch, t) /\ y = CountIn(rest, t)
               /\ e = executed[t] /\ d = dropped[t] /\ w = swept[t]
               /\ x \in Nat /\ y \in Nat /\ e \in Nat /\ d \in Nat /\ w \in Nat
        BY <1>0, <2>2
      <4>2. CountIn(pool, t) = x + y /\ dropped'[t] = d + x
        BY <2>1, <3>1, <4>1
      <4>3. accepted[t] = CountIn(pool, t) + e + d + w
        BY <1>0, <4>1
      <4>4. accepted[t] = (x + y) + e + d + w
        BY <4>2, <4>3
      <4>5. (x + y) + e + d + w = y + e + (d + x) + w
        BY <4>1
      <4>6. accepted[t] = CountIn(rest, t) + executed[t] + dropped'[t] + swept[t]
        BY <4>1, <4>2, <4>4, <4>5
      <4>7. Included(t) => Included(t)'
        BY <2>4, IncludedStays
      <4>. QED  BY <1>0, <4>6, <4>7
    <3>. QED
      BY <1>0, <2>0, <2>1, <2>4, <3>1, <3>2 DEF PoolInv, EachAccountedFor
  <2>5. CASE /\ pool' = AfterInclusion(pool)
             /\ executed' = Tallied(executed, batch) /\ swept' = Tallied(swept, gone)
             /\ UNCHANGED dropped
             /\ \E b \in Sealed(parentHash, batch, s) : Store(b, s)
    <3>1. PICK b \in Sealed(parentHash, batch, s) : Store(b, s)
      BY <2>5
    <3>2. b.body = batch
      BY <3>1 DEF Sealed, AuthoredBlock
    <3>3. HashBlock(b) \in DOMAIN blocks' /\ blocks'[HashBlock(b)] = b
      BY <3>1, StoreKeeps DEF IInv, StorageSound
    <3>4. \A t \in Range(batch) : Included(t)'
      BY <3>2, <3>3 DEF Included
    <3>5. /\ executed' \in [Txs -> Nat] /\ swept' \in [Txs -> Nat]
          /\ \A t \in Txs : /\ executed'[t] = executed[t] + CountIn(batch, t)
                            /\ swept'[t] = swept[t] + CountIn(gone, t)
      BY <1>0, <2>1, <2>5, TalliedIsNat
    <3>6. ASSUME NEW t \in Txs
          PROVE  /\ accepted[t] = CountIn(pool', t) + executed'[t] + dropped[t] + swept'[t]
                 /\ swept'[t] > 0 => executed'[t] > 0
                 /\ executed'[t] > 0 => Included(t)'
      <4>1. PICK x, y, z, e, w :
               /\ x = CountIn(batch, t) /\ y = CountIn(AfterInclusion(pool), t)
               /\ z = CountIn(gone, t) /\ e = executed[t] /\ w = swept[t]
               /\ x \in Nat /\ y \in Nat /\ z \in Nat /\ e \in Nat /\ w \in Nat
        BY <1>0, <2>2
      <4>2. /\ CountIn(pool, t) = x + CountIn(rest, t) /\ CountIn(rest, t) = y + z
            /\ accepted[t] = CountIn(pool, t) + executed[t] + dropped[t] + swept[t]
            /\ executed[t] \in Nat /\ dropped[t] \in Nat /\ swept[t] \in Nat
            /\ executed'[t] = executed[t] + x /\ swept'[t] = swept[t] + z
        BY <1>0, <2>1, <3>5, <4>1
      <4>3. accepted[t] = y + executed'[t] + dropped[t] + swept'[t]
        BY <4>1, <4>2
      <4>4. (z > 0 <=> t \in Range(gone)) /\ (x > 0 <=> t \in Range(batch))
        BY <2>1, <4>1, CountIsNat
      <4>5. swept'[t] > 0 => executed'[t] > 0
        <5>1. executed'[t] = e + x /\ swept'[t] = w + z
          BY <4>1, <4>2
        <5>2. (w > 0 => e > 0) /\ (z > 0 => x > 0)
          BY <1>0, <2>1, <4>1, <4>4
        <5>3. w + z > 0 => e + x > 0
          BY <4>1, <5>2
        <5>. QED  BY <5>1, <5>3
      <4>6. executed'[t] > 0 => Included(t)'
        <5>1. Included(t) => Included(t)'
          BY <3>1, IncludedStays
        <5>. QED  BY <1>0, <3>4, <4>1, <4>2, <4>4, <5>1
      <4>. QED  BY <2>5, <4>1, <4>3, <4>5, <4>6
    <3>. QED
      BY <1>0, <2>0, <2>1, <2>5, <3>5, <3>6 DEF PoolInv, EachAccountedFor
  <2>. QED
    BY <2>0, <2>3, <2>4, <2>5
<1>6. ASSUME NEW b, ImportBlock(b) PROVE PoolInv'
  <2>1. \E c, s : Store(c, s)
    BY <1>6 DEF ImportBlock
  <2>2. UNCHANGED <<node, pool, tallies>>
    BY <1>6 DEF ImportBlock
  <2>. QED
    BY <2>1, <2>2, <1>1
<1>7. CASE ImportOffered
  BY <1>6, <1>7 DEF ImportOffered
<1>. QED
  BY <1>2, <1>3, <1>4, <1>5, <1>7 DEF Next

\* However often a transaction got into the pool, so often it waits in it, was executed
\* in a block of the storage, was in a batch that could not be sealed, or went with one
\* equal to it that was executed: for every pool that keeps what it has, as those of
\* the repository do (NodePoolsKeep), whatever is submitted twice, imported or
\* authored by hand (p5:99-138).
THEOREM AlwaysAccountedFor ==
    ASSUME PoolsKeep
    PROVE  Spec => []EachAccountedFor
<1>1. IInv /\ PoolInv /\ [Next]_vars => (IInv /\ PoolInv)'
  BY NextIInv, NextPoolInv
<1>2. Init => IInv /\ PoolInv
  BY InitIInv, InitPoolInv
<1>3. PoolInv => EachAccountedFor
  BY DEF PoolInv
<1>. QED
  BY <1>1, <1>2, <1>3, PTL DEF Spec

-----------------------------------------------------------------------------
(* What a step does to the storage, the tip and the fork choice *)

\* A step stores at most one block, a child of one that is there: of the tip, and not
\* shown to the rule, if it is imported; shown to it if it is authored, and then the
\* new tip at most if it was built on the best block.
Stores(b, p) ==
    /\ blocks' = Put(blocks, HashBlock(b), b)
    /\ Follows(b, blocks[p])
    /\ \/ UNCHANGED <<last_block, fork_choice>>
       \/ /\ fork_choice' = ImportHook(node.rule, fork_choice, b)
          /\ \E body, state :
                b \in Sealed(p, body, state)
          /\ \/ last_block' = last_block
             \/ last_block' = b /\ p = BestBlock(node.rule, fork_choice)

LEMMA StepShape ==
    ASSUME IInv, [Next]_vars
    PROVE  /\ node' = node
           /\ \/ UNCHANGED <<blocks, last_block, fork_choice>>
              \/ \E b : \E p \in DOMAIN blocks : Stores(b, p)
<1>0. StorageSound
  BY DEF IInv
<1>1. CASE UNCHANGED vars
  BY <1>1 DEF vars, storage
<1>2. ASSUME NEW t \in Txs, SubmitTransaction(t)
      PROVE  node' = node /\ UNCHANGED <<blocks, last_block, fork_choice>>
  BY <1>2 DEF SubmitTransaction, storage
<1>3. ASSUME NEW body \in Bodies, NEW p \in DOMAIN blocks, AuthorManual(body, p)
      PROVE  node' = node /\ \E b : Stores(b, p)
  <2>. DEFINE s == StateOn(p, body)
  <2>1. PICK b \in Sealed(p, body, s) :
            Store(b, s) /\ fork_choice' = ImportHook(node.rule, fork_choice, b)
    BY <1>3 DEF AuthorManual
  <2>2. CanBuildOn(p) /\ last_block' = last_block /\ node' = node
    BY <1>3 DEF AuthorManual
  <2>3. Follows(b, blocks[p])
    BY <1>0, <2>1, <2>2, AuthoredFollows
  <2>. HIDE DEF s
  <2>4. Stores(b, p)
    BY <2>1, <2>2, <2>3 DEF Stores, Store
  <2>. QED  BY <2>2, <2>4
<1>4. CASE AuthorAutomatic
  <2>. DEFINE p == BestBlock(node.rule, fork_choice)
              batch == NextBatch(pool)
              s == StateOn(p, batch)
  <2>1. /\ CanBuildOn(p) /\ node' = node
        /\ \/ UNCHANGED <<storage, fork_choice>>
           \/ \E b \in Sealed(p, batch, s) :
                /\ Store(b, s) /\ MoveTip(b, s)
                /\ fork_choice' = ImportHook(node.rule, fork_choice, b)
    BY <1>4 DEF AuthorAutomatic
  <2>2. CASE UNCHANGED <<storage, fork_choice>>
    BY <2>1, <2>2 DEF storage
  <2>3. CASE \E b \in Sealed(p, batch, s) :
                /\ Store(b, s) /\ MoveTip(b, s)
                /\ fork_choice' = ImportHook(node.rule, fork_choice, b)
    <3>1. PICK b \in Sealed(p, batch, s) :
                /\ Store(b, s) /\ MoveTip(b, s)
                /\ fork_choice' = ImportHook(node.rule, fork_choice, b)
      BY <2>3
    <3>2. p \in DOMAIN blocks /\ Follows(b, blocks[p])
      <4>. HIDE DEF p, batch
      <4>. QED  BY <1>0, <2>1, <3>1, AuthoredFollows
    <3>3. Stores(b, p)
      <4>. HIDE DEF batch, s
      <4>. QED  BY <3>1, <3>2 DEF Stores, Store, MoveTip
    <3>. HIDE DEF p
    <3>. QED  BY <2>1, <3>2, <3>3
  <2>. QED  BY <2>1, <2>2, <2>3
<1>5. ASSUME NEW b, ImportBlock(b)
      PROVE  node' = node /\ \E p \in DOMAIN blocks : Stores(b, p)
  <2>1. /\ Store(b, Execute(current_state, b.body)) /\ Acceptable(b)
        /\ UNCHANGED <<node, last_block, fork_choice>>
    BY <1>5 DEF ImportBlock
  <2>2. /\ HashBlock(last_block) \in DOMAIN blocks
        /\ Follows(b, blocks[HashBlock(last_block)])
    BY <2>1, AcceptableFollows
  <2>. QED  BY <2>1, <2>2 DEF Stores, Store
<1>6. CASE ImportOffered
  BY <1>5, <1>6 DEF ImportOffered
<1>. QED  BY <1>1, <1>2, <1>3, <1>4, <1>6 DEF Next

-----------------------------------------------------------------------------
(* The tip under LongestChain *)

\* Heights are numbers; the rule names a stored block as high as any it was shown,
\* the tip among them, or none above genesis.
Below ==
    /\ \A h \in DOMAIN blocks : blocks[h].header.height \in Nat
    /\ last_block.header.height \in Nat
    /\ node.rule = "LongestChain" =>
         /\ fork_choice.best_header_height \in Nat
         /\ last_block.header.height <= fork_choice.best_header_height
         /\ \/ fork_choice = LongestInit
            \/ \E h \in DOMAIN blocks :
                 fork_choice = [best_header_height |-> blocks[h].header.height,
                                best_header_hash |-> h]

LEMMA InitBelow == Init => Below
<1>. SUFFICES ASSUME Init PROVE Below
  OBVIOUS
<1>1. GenesisBlock.header.height = 0
  BY DEF GenesisBlock, Genesis, Header
<1>2. DOMAIN blocks = {HashBlock(GenesisBlock)} /\ blocks[HashBlock(GenesisBlock)] = GenesisBlock
  <2>. DEFINE noBlocks == [h \in {} |-> GenesisBlock]
  <2>1. blocks = Put(noBlocks, HashBlock(GenesisBlock), GenesisBlock)
    BY DEF Init
  <2>. QED  BY <2>1 DEF Put
<1>3. last_block = GenesisBlock
  BY DEF Init
<1>4. ImportHook("LongestChain", LongestInit, GenesisBlock) = LongestInit
  BY <1>1 DEF ImportHook, LongestHook, LongestInit
<1>5. node.rule = "LongestChain" => fork_choice = LongestInit
  BY <1>4 DEF Init, DefaultOf
<1>6. LongestInit.best_header_height = 0
  BY DEF LongestInit
<1>. QED  BY <1>1, <1>2, <1>3, <1>5, <1>6 DEF Below

LEMMA NextBelow ==
    ASSUME IInv, Below, [Next]_vars
    PROVE  /\ Below'
           /\ node.rule = "LongestChain" /\ last_block' # last_block
                => last_block'.header.height > last_block.header.height
<1>1. CASE UNCHANGED <<blocks, last_block, fork_choice>>
  BY <1>1, StepShape DEF Below
<1>2. ASSUME NEW b, NEW p \in DOMAIN blocks, Stores(b, p)
      PROVE  /\ Below'
             /\ node.rule = "LongestChain" /\ last_block' # last_block
                  => last_block'.header.height > last_block.header.height
  <2>1. /\ b.header.height = blocks[p].header.height + 1
        /\ b.header.height \in Nat \ {0}
    BY <1>2 DEF Stores, Follows, Below
  <2>2. KeysAreHashes
    BY DEF IInv, StorageSound
  <2>3. blocks' = Put(blocks, HashBlock(b), b)
    BY <1>2 DEF Stores
  <2>4. ASSUME NEW h \in DOMAIN blocks, h = HashBlock(b) PROVE blocks[h] = b
    BY <2>2, <2>4 DEF KeysAreHashes, HashBlock
  <2>5. \A h \in DOMAIN blocks : h \in DOMAIN blocks' /\ blocks'[h] = blocks[h]
    BY <2>3, <2>4, PutKeeps
  <2>6. DOMAIN blocks' = DOMAIN blocks \cup {HashBlock(b)} /\ blocks'[HashBlock(b)] = b
    BY <2>3 DEF Put
  <2>7. \A h \in DOMAIN blocks' : blocks'[h].header.height \in Nat
    BY <2>1, <2>5, <2>6 DEF Below
  <2>8. node' = node
    BY StepShape
  <2>9. last_block' = last_block \/ last_block' = b
    BY <1>2 DEF Stores
  <2>10. last_block'.header.height \in Nat
    BY <2>1, <2>9 DEF Below
  <2>11. CASE node.rule # "LongestChain"
    BY <2>7, <2>8, <2>10, <2>11 DEF Below
  <2>12. CASE node.rule = "LongestChain"
    <3>. DEFINE best == fork_choice.best_header_height
    <3>1. /\ best \in Nat /\ last_block.header.height <= best
          /\ last_block.header.height \in Nat
      BY <2>12 DEF Below
    <3>2. ASSUME fork_choice = LongestInit \/ \E h \in DOMAIN blocks :
                    fork_choice = [best_header_height |-> blocks[h].header.height,
                                   best_header_hash |-> h]
          PROVE  fork_choice = LongestInit \/ \E h \in DOMAIN blocks' :
                    fork_choice = [best_header_height |-> blocks'[h].header.height,
                                   best_header_hash |-> h]
      BY <2>5, <3>2
    <3>3. CASE UNCHANGED <<last_block, fork_choice>>
      BY <2>7, <2>8, <2>10, <2>12, <3>1, <3>2, <3>3 DEF Below
    <3>4. CASE /\ fork_choice' = ImportHook(node.rule, fork_choice, b)
               /\ \/ last_block' = last_block
                  \/ last_block' = b /\ p = BestBlock(node.rule, fork_choice)
      <4>1. fork_choice' = LongestHook(fork_choice, b)
        BY <2>12, <3>4 DEF ImportHook
      <4>2. /\ fork_choice'.best_header_height \in Nat
            /\ best <= fork_choice'.best_header_height
            /\ b.header.height <= fork_choice'.best_header_height
            /\ \/ fork_choice' = fork_choice
               \/ fork_choice' = [best_header_height |-> b.header.height,
                                  best_header_hash |-> HashBlock(b)]
        BY <2>1, <3>1, <4>1 DEF LongestHook
      <4>3. \/ fork_choice' = LongestInit
            \/ \E h \in DOMAIN blocks' :
                 fork_choice' = [best_header_height |-> blocks'[h].header.height,
                                 best_header_hash |-> h]
        BY <2>6, <2>12, <3>2, <4>2 DEF Below
      <4>4. last_block'.header.height <= fork_choice'.best_header_height
        BY <2>1, <2>9, <3>1, <4>2
      <4>5. ASSUME last_block' # last_block
            PROVE  last_block'.header.height > last_block.header.height
        <5>1. last_block' = b /\ p = fork_choice.best_header_hash
          BY <2>12, <3>4, <4>5 DEF BestBlock, LongestBest
        <5>2. fork_choice # LongestInit
          BY <2>2, <5>1 DEF LongestInit, KeysAreHashes, HashBlock, ZeroHash
        <5>3. blocks[p].header.height = best
          BY <2>12, <5>1, <5>2 DEF Below
        <5>. QED  BY <2>1, <3>1, <5>1, <5>3
      <4>. QED  BY <2>7, <2>8, <2>10, <4>2, <4>3, <4>4, <4>5 DEF Below
    <3>. QED  BY <1>2, <3>3, <3>4 DEF Stores
  <2>. QED  BY <2>11, <2>12
<1>. QED  BY <1>1, <1>2, StepShape

\* Under LongestChain the tip only ever climbs, whatever the node imports, and
\* whatever forks its owner authors by hand (p5:90-150, p3:52-57).
THEOREM TipAlwaysClimbs == Spec => TipClimbs
<1>1. IInv /\ Below /\ [Next]_vars => (IInv /\ Below)'
  BY NextIInv, NextBelow
<1>2. IInv /\ Below /\ [Next]_vars =>
          [node.rule = "LongestChain" /\ last_block' # last_block
             => last_block'.header.height > last_block.header.height]_vars
  BY NextBelow
<1>3. Init => IInv /\ Below
  BY InitIInv, InitBelow
<1>. QED  BY <1>1, <1>2, <1>3, PTL DEF Spec, TipClimbs

-----------------------------------------------------------------------------
(* The best block *)

\* What keys of BTreeMaps need: the weights are numbers, with a greatest one.
Weighs(m, V) ==
    /\ m \in [DOMAIN m -> V]
    /\ DOMAIN m \in SUBSET Nat
    /\ \E n \in Nat : \A w \in DOMAIN m : w <= n

LEMMA GreatestKey ==
    ASSUME NEW V, NEW m, Weighs(m, V), m # EmptyMap
    PROVE  AtGreatestKey(m) \in V
<1>1. DOMAIN m # {}
  BY DEF Weighs, EmptyMap
<1>2. Max(DOMAIN m) \in DOMAIN m
  BY <1>1, MaxOfNats DEF Weighs
<1>. QED  BY <1>2 DEF Weighs, AtGreatestKey

LEMMA PutWeighs ==
    ASSUME NEW V, NEW m, Weighs(m, V), NEW w \in Nat, NEW v \in V
    PROVE  Weighs(Put(m, w, v), V)
<1>1. PICK n \in Nat : \A x \in DOMAIN m : x <= n
  BY DEF Weighs
<1>2. DOMAIN Put(m, w, v) = DOMAIN m \cup {w}
  BY DEF Put
<1>3. Put(m, w, v) \in [DOMAIN m \cup {w} -> V]
  BY DEF Put, Weighs
<1>4. n + w \in Nat /\ \A x \in DOMAIN m \cup {w} : x \in Nat /\ x <= n + w
  BY <1>1 DEF Weighs
<1>. QED  BY <1>2, <1>3, <1>4 DEF Weighs

LEMMA DelWeighs ==
    ASSUME NEW V, NEW m, Weighs(m, V), NEW w
    PROVE  Weighs(Del(m, w), V)
<1>1. PICK n \in Nat : \A x \in DOMAIN m : x <= n
  BY DEF Weighs
<1>2. DOMAIN Del(m, w) = DOMAIN m \ {w}
  BY DEF Del
<1>3. Del(m, w) \in [DOMAIN m \ {w} -> V]
  BY DEF Del, Weighs
<1>. QED  BY <1>1, <1>2, <1>3 DEF Weighs

\* What a rule may name, if the blocks with the hashes K are stored.
Choosable(rule, m, K) ==
    /\ rule \in {"HeaviestChain", "MostAliceSigs"} => Weighs(m, K)
    /\ rule = "Ghost" => Weighs(m, Seq(K) \ {<<>>})

LEMMA MoreToChoose ==
    ASSUME NEW rule, NEW m, NEW K, NEW L, K \subseteq L, Choosable(rule, m, K)
    PROVE  Choosable(rule, m, L)
<1>1. Seq(K) \subseteq Seq(L)
  OBVIOUS
<1>. QED  BY <1>1 DEF Choosable, Weighs

LEMMA NothingToChoose ==
    ASSUME NEW rule, NEW K
    PROVE  Choosable(rule, EmptyMap, K)
<1>1. DOMAIN EmptyMap = {} /\ \A V : EmptyMap \in [{} -> V]
  BY DEF EmptyMap
<1>2. \E n \in Nat : \A w \in {} : w <= n
  BY 0 \in Nat
<1>. QED  BY <1>1, <1>2 DEF Choosable, Weighs

\* The work in a digest is a number, for the rules that are for engines of type Pow.
CountsWork(rule, digest) == rule \in {"HeaviestChain", "Ghost"} => digest \in Nat

\* A block that is shown to a rule becomes one that it may name.
LEMMA HookChooses ==
    ASSUME NEW rule \in Rules, NEW m, NEW K, Choosable(rule, m, K),
           NEW b, HashBlock(b) \in K, CountsWork(rule, b.header.consensus_digest)
    PROVE  Choosable(rule, ImportHook(rule, m, b), K)
<1>. DEFINE d == b.header.consensus_digest
            hash == HashBlock(b)
            ends == EndingIn(m, b.header.parent)
<1>1. CASE rule = "LongestChain"
  BY <1>1 DEF Choosable
<1>2. CASE rule = "HeaviestChain"
  <2>1. Weighs(m, K) /\ d \in Nat
    BY <1>2 DEF Choosable, CountsWork
  <2>2. ImportHook(rule, m, b) = HeaviestHook(m, b)
    BY <1>2 DEF ImportHook
  <2>3. ends \in SUBSET Nat
    BY <2>1 DEF EndingIn, Weighs
  <2>4. HeaviestHook(m, b) = IF ends = {} THEN Put(m, d, hash)
                             ELSE Put(Del(m, Min(ends)), Min(ends) + d, hash)
    BY DEF HeaviestHook
  <2>5. ends # {} => Min(ends) + d \in Nat
    BY <2>1, <2>3, MinOfNats
  <2>. HIDE DEF ends, d, hash
  <2>6. hash \in K
    BY DEF hash
  <2>7. Weighs(HeaviestHook(m, b), K)
    BY <2>1, <2>4, <2>5, <2>6, PutWeighs, DelWeighs
  <2>. QED  BY <1>2, <2>2, <2>7 DEF Choosable
<1>3. CASE rule = "MostAliceSigs"
  <2>. DEFINE signed == IF d = Alice THEN 1 ELSE 0
  <2>1. Weighs(m, K)
    BY <1>3 DEF Choosable
  <2>2. ImportHook(rule, m, b) = MostAliceHook(m, b)
    BY <1>3 DEF ImportHook
  <2>3. ends \in SUBSET Nat
    BY <2>1 DEF EndingIn, Weighs
  <2>4. MostAliceHook(m, b) = IF ends = {} THEN Put(m, signed, hash)
                              ELSE IF d = Alice
                                   THEN Put(Del(m, Min(ends)), Min(ends) + 1, hash)
                                   ELSE m
    BY DEF MostAliceHook
  <2>5. signed \in Nat /\ (ends # {} => Min(ends) + 1 \in Nat)
    BY <2>3, MinOfNats
  <2>. HIDE DEF ends, d, hash, signed
  <2>6. hash \in K
    BY DEF hash
  <2>7. Weighs(MostAliceHook(m, b), K)
    BY <2>1, <2>4, <2>5, <2>6, PutWeighs, DelWeighs
  <2>. QED  BY <1>3, <2>2, <2>7 DEF Choosable
<1>4. CASE rule = "Ghost"
  <2>. DEFINE V == Seq(K) \ {<<>>}
              found == Containing(m, b.header.parent)
  <2>1. Weighs(m, V) /\ d \in Nat
    BY <1>4 DEF Choosable, CountsWork
  <2>2. ImportHook(rule, m, b) = GhostHook(m, b)
    BY <1>4 DEF ImportHook
  <2>3. found \in SUBSET Nat /\ found \subseteq DOMAIN m
    BY <2>1 DEF Containing, Weighs
  <2>4. GhostHook(m, b) = IF found = {} THEN Put(m, d, <<hash>>)
                          ELSE Put(Del(m, Min(found)), Min(found) + d,
                                   Append(m[Min(found)], hash))
    BY DEF GhostHook
  <2>5. found # {} => Min(found) + d \in Nat /\ Min(found) \in DOMAIN m
    BY <2>1, <2>3, MinOfNats
  <2>. HIDE DEF found, d, hash
  <2>6. hash \in K
    BY DEF hash
  <2>7. <<hash>> \in V /\ \A s \in V : Append(s, hash) \in V
    BY <2>6
  <2>8. \A w \in DOMAIN m : m[w] \in V
    BY <2>1 DEF Weighs
  <2>. HIDE DEF V
  <2>9. Weighs(GhostHook(m, b), V)
    BY <2>1, <2>4, <2>5, <2>7, <2>8, PutWeighs, DelWeighs
  <2>. QED  BY <1>4, <2>2, <2>9 DEF Choosable, V
<1>. QED  BY <1>1, <1>2, <1>3, <1>4 DEF Rules

\* HeaviestChain and Ghost are rules for engines of type Pow, whose digests are
\* numbers (p3:78, p3:192, c3_consensus/p1_pow.rs:18).
WorkIsCounted ==
    \A n \in Nodes :
        /\ CountsWork(n.rule, DefaultDigest)
        /\ \A d, h : \A digest \in Sealings(n.engine, d, h) : CountsWork(n.rule, digest)

\* Proof of work, even-only or not, does: it seals with the nonces that are drawn.
LEMMA PowSealsNumbers ==
    ASSUME Nonces \subseteq Nat, NEW threshold, NEW d, NEW h,
           NEW e \in {Engines!Pow(threshold), Engines!EvenOnly(Engines!Pow(threshold))}
    PROVE  NodeSeals(e, d, h) \subseteq Nat
<1>. DEFINE pow == Engines!Pow(threshold)
<1>1. ASSUME NEW p, NEW x
      PROVE  \A y \in Engines!SealsPlain(pow, p, x) : y[2] \in Nat
  <2>1. Engines!SealsPlain(pow, p, x) = Engines!PowSeals(pow)
    BY DEF Engines!SealsPlain, Engines!Pow
  <2>2. \A y \in Engines!PowSeals(pow) : \E n \in Nonces : y = <<"u64", n>>
    BY DEF Engines!PowSeals, Engines!Work
  <2>. QED  BY <2>1, <2>2
<1>2. pow.kind = "Pow"
  BY DEF Engines!Pow
<1>3. /\ Engines!EvenOnly(pow).kind = "EvenOnly" /\ Engines!EvenOnly(pow).inner = pow
  BY DEF Engines!EvenOnly
<1>. HIDE DEF pow
<1>4. ASSUME NEW p, NEW x
      PROVE  \A y \in Engines!Seals(e, p, x) : y[2] \in Nat
  <2>1. e \in {pow, Engines!EvenOnly(pow)}
    BY DEF pow
  <2>2. \/ Engines!Seals(e, p, x) = Engines!SealsPlain(pow, p, x)
        \/ Engines!Seals(e, p, x) = {}
    BY <2>1, <1>2, <1>3 DEF Engines!Seals, Engines!EvenSeals
  <2>. QED  BY <2>2, <1>1
<1>. QED  BY <1>4 DEF NodeSeals

ChoosesStored ==
    node \in Nodes /\ Choosable(node.rule, fork_choice, DOMAIN blocks)

LEMMA InitChoosesStored ==
    ASSUME WorkIsCounted, Init
    PROVE  ChoosesStored
<1>1. node \in Nodes /\ node.rule \in Rules
  BY NodeAssumption DEF Init
<1>2. HashBlock(GenesisBlock) \in DOMAIN blocks
  BY InitIInv DEF IInv, StorageSound
<1>3. GenesisBlock.header.consensus_digest = DefaultDigest
  BY DEF GenesisBlock, Genesis, Header
<1>4. CountsWork(node.rule, GenesisBlock.header.consensus_digest)
  BY <1>1, <1>3 DEF WorkIsCounted
<1>5. Choosable(node.rule, DefaultOf(node.rule), DOMAIN blocks)
  <2>1. CASE node.rule = "LongestChain"
    BY <2>1 DEF Choosable
  <2>2. CASE node.rule # "LongestChain"
    BY <2>2, NothingToChoose DEF DefaultOf
  <2>. QED  BY <2>1, <2>2
<1>6. Choosable(node.rule, ImportHook(node.rule, DefaultOf(node.rule), GenesisBlock), DOMAIN blocks)
  BY <1>1, <1>2, <1>4, <1>5, HookChooses
<1>. QED  BY <1>1, <1>5, <1>6 DEF Init, ChoosesStored

LEMMA NextChoosesStored ==
    ASSUME WorkIsCounted, IInv, ChoosesStored, [Next]_vars
    PROVE  ChoosesStored'
<1>0. node' = node /\ node \in Nodes /\ node.rule \in Rules
  BY StepShape, NodeAssumption DEF ChoosesStored
<1>1. CASE UNCHANGED <<blocks, last_block, fork_choice>>
  BY <1>0, <1>1 DEF ChoosesStored
<1>2. ASSUME NEW b, NEW p \in DOMAIN blocks, Stores(b, p)
      PROVE  ChoosesStored'
  <2>1. DOMAIN blocks' = DOMAIN blocks \cup {HashBlock(b)}
    BY <1>2 DEF Stores, Put
  <2>2. Choosable(node.rule, fork_choice, DOMAIN blocks')
    <3>1. DOMAIN blocks \subseteq DOMAIN blocks'
      BY <2>1
    <3>. QED  BY <3>1, MoreToChoose DEF ChoosesStored
  <2>3. CASE fork_choice' = fork_choice
    BY <1>0, <2>2, <2>3 DEF ChoosesStored
  <2>4. CASE /\ fork_choice' = ImportHook(node.rule, fork_choice, b)
             /\ \E body, state : b \in Sealed(p, body, state)
    <3>1. PICK body, state : b \in Sealed(p, body, state)
      BY <2>4
    <3>2. PICK digest \in Sealings(node.engine, ParentDigest(p), Partial(p, body, state)) :
              b = AuthoredBlock(p, body, state, digest)
      BY <3>1 DEF Sealed
    <3>3. b.header.consensus_digest = digest
      BY <3>2 DEF AuthoredBlock, Header
    <3>4. CountsWork(node.rule, b.header.consensus_digest)
      BY <1>0, <3>2, <3>3 DEF WorkIsCounted
    <3>5. HashBlock(b) \in DOMAIN blocks'
      BY <2>1
    <3>6. Choosable(node.rule, fork_choice', DOMAIN blocks')
      BY <1>0, <2>2, <2>4, <3>4, <3>5, HookChooses
    <3>. QED  BY <1>0, <3>6 DEF ChoosesStored
  <2>. QED  BY <1>2, <2>3, <2>4 DEF Stores
<1>. QED  BY <1>1, <1>2, StepShape

\* The block that a client reports as its best can be built on, under any rule
\* whose digests are what it counts (p3:34-37, p5:50-56).
THEOREM BestIsAlwaysStored ==
    ASSUME WorkIsCounted
    PROVE  Spec => []BestIsStored
<1>1. Init => IInv /\ Below /\ ChoosesStored
  BY InitIInv, InitBelow, InitChoosesStored
<1>2. IInv /\ Below /\ ChoosesStored /\ [Next]_vars => (IInv /\ Below /\ ChoosesStored)'
  BY NextIInv, NextBelow, NextChoosesStored
<1>3. IInv /\ Below /\ ChoosesStored => BestIsStored
  <2>. SUFFICES ASSUME IInv, Below, ChoosesStored, ReportedBest # ZeroHash
                PROVE  CanBuildOn(ReportedBest)
    BY DEF BestIsStored
  <2>. DEFINE best == BestBlock(node.rule, fork_choice)
  <2>1. best # NoBlock /\ best # ZeroHash /\ ReportedBest = best
    BY DEF ReportedBest
  <2>2. node.rule \in Rules
    BY NodeAssumption DEF ChoosesStored
  <2>3. CASE node.rule = "LongestChain"
    <3>1. best = fork_choice.best_header_hash
      BY <2>3 DEF BestBlock, LongestBest
    <3>2. fork_choice # LongestInit
      BY <2>1, <3>1 DEF LongestInit
    <3>3. best \in DOMAIN blocks
      BY <2>3, <3>1, <3>2 DEF Below
    <3>. QED  BY <2>1, <3>3 DEF CanBuildOn, IInv, StorageSound, EveryStateIsKnown
  <2>4. CASE node.rule \in {"HeaviestChain", "MostAliceSigs"}
    <3>1. best = HeaviestBest(fork_choice)
      BY <2>4 DEF BestBlock
    <3>2. fork_choice # EmptyMap /\ best = AtGreatestKey(fork_choice)
      BY <2>1, <3>1 DEF HeaviestBest
    <3>3. best \in DOMAIN blocks
      BY <2>4, <3>2, GreatestKey DEF ChoosesStored, Choosable
    <3>. QED  BY <2>1, <3>3 DEF CanBuildOn, IInv, StorageSound, EveryStateIsKnown
  <2>5. CASE node.rule = "Ghost"
    <3>1. best = GhostBest(fork_choice)
      BY <2>5 DEF BestBlock
    <3>2. fork_choice # EmptyMap /\ best = Last(AtGreatestKey(fork_choice))
      BY <2>1, <3>1 DEF GhostBest
    <3>3. AtGreatestKey(fork_choice) \in Seq(DOMAIN blocks) \ {<<>>}
      BY <2>5, <3>2, GreatestKey DEF ChoosesStored, Choosable
    <3>4. \A s \in Seq(DOMAIN blocks) \ {<<>>} : Last(s) \in DOMAIN blocks
      BY DEF Last
    <3>5. best \in DOMAIN blocks
      BY <3>2, <3>3, <3>4
    <3>. QED  BY <2>1, <3>5 DEF CanBuildOn, IInv, StorageSound, EveryStateIsKnown
  <2>. QED  BY <2>2, <2>3, <2>4, <2>5 DEF Rules
<1>. QED  BY <1>1, <1>2, <1>3, PTL DEF Spec
=============================================================================
