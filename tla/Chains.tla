------------------------------- MODULE Chains -------------------------------
(***************************************************************************)
(* A chain that somebody builds with `child` and others hand on, not       *)
(* always faithfully: fields are changed, blocks left out, repeated or     *)
(* swapped.  Whoever gets it knows the first block and its state, and      *)
(* calls `verify_sub_chain`.                                               *)
(***************************************************************************)
EXTENDS Lessons

CONSTANTS Extrinsics, Nonces,   \* small numbers
          Bodies,               \* the batches of them that blocks may have
          StartStates(_),       \* the states a lesson may start from
          BuiltLengths,         \* lengths asked of the functions that build chains
          SideLength,           \* of the heavier side, 10; the longer has two more
          MaxLength, MaxChanges \* bounds of the exploration

ASSUME LessonAssumption ==
    /\ Word \in Nat \ {0} /\ Word % 2 = 0 /\ ForkHeight \in Nat \ {0}
    /\ Extrinsics \subseteq 0..Word - 1 /\ Bodies \subseteq Seq(Extrinsics)
    /\ Nonces \subseteq Nat
    /\ StartStates("header_chain") = {Unit}
    /\ \A l \in LessonNames : SumInHeader(l) => StartStates(l) \subseteq 0..Word - 1
    /\ BuiltLengths \subseteq Nat
    /\ SideLength \in Nat \ {0} /\ HardWork \in Nat
    /\ MaxLength \in Nat /\ MaxChanges \in Nat

VARIABLES lesson, start, chain, changes

chainsVars == <<lesson, start, chain, changes>>

\* What the functions that build chains return.
BuiltChains(l, s) ==
    CASE l = "header_chain"    -> {ValidHeaderChain, InvalidHeaderChain}
      [] l = "extrinsic_state" -> {InvalidAdderChain} \cup {ValidAdderChain(n) : n \in BuiltLengths}
      [] l = "consensus"       -> UNION {ValidWorkChains(n, Extrinsics, Nonces) : n \in BuiltLengths}
      [] l = "client"          -> {CreateEmptyChain(n, s) : n \in BuiltLengths}
      [] l \in {"batched_extrinsics", "rich_state"} -> {}

ChainsInit ==
    /\ lesson \in LessonNames
    /\ start \in StartStates(lesson)
    /\ chain \in {<<GenesisOf(lesson, start)>>} \cup BuiltChains(lesson, start)
    /\ changes = 0

\* The extrinsics that fit in a block.
Batches == IF HeadersOnly(lesson) THEN {<<x>> : x \in Extrinsics} ELSE Bodies

\* The state after the first i blocks of the chain, as its bodies have it.
StateAt(i) == StateUpTo(lesson, start, Tail(chain), i - 1)

Grow(xs, nonce) ==
    LET b == ChildOf(lesson, Last(chain), StateAt(Len(chain)), xs, nonce)
    IN /\ Len(chain) < MaxLength
       /\ Sealed(lesson, b)
       /\ chain' = Append(chain, b)
       /\ UNCHANGED <<lesson, start, changes>>

\* What a block may be replaced by: the same in all but one field.
Altered(b) ==
    LET h == b.header
        others == {chain[i].header : i \in DOMAIN chain}
    IN UNION {
        {[b EXCEPT !.header.parent = HashHeader(o)] : o \in others},
        {[b EXCEPT !.header.height = n] : n \in {h.height - 1, h.height + 1} \cap Nat},
        {[b EXCEPT !.header.state_root = o.state_root] : o \in others},
        {[b EXCEPT !.header.extrinsics_root = ExtrinsicsField(lesson, xs)] : xs \in Batches},
        IF ProofOfWork(lesson) \/ lesson = "client"
        THEN {[b EXCEPT !.header.consensus_digest = n] : n \in Nonces} ELSE {},
        IF HeadersOnly(lesson) THEN {} ELSE {[b EXCEPT !.body = xs] : xs \in Batches}}

Change ==
    /\ changes < MaxChanges
    /\ changes' = changes + 1
    /\ \E i \in 2..Len(chain) :
          \/ \E b \in Altered(chain[i]) : chain' = [chain EXCEPT ![i] = b]
          \/ chain' = RemoveAt(chain, i)
          \/ Len(chain) < MaxLength /\ chain' = InsertAt(chain, i, chain[i])
          \/ i < Len(chain) /\ chain' = [chain EXCEPT ![i] = chain[i + 1], ![i + 1] = chain[i]]
    /\ UNCHANGED <<lesson, start>>

ChainsNext == (\E xs \in Batches, n \in Nonces : Grow(xs, n)) \/ Change

ChainsSpec == ChainsInit /\ [][ChainsNext]_chainsVars

-----------------------------------------------------------------------------
(* What verification promises *)

Whole == Verifies(lesson, chain[1], start, Tail(chain))

\* The extrinsics that a block says it has.
ExtrinsicsOf(b) == IF lesson = "header_chain" THEN <<>>
                   ELSE IF HeadersOnly(lesson) THEN <<b.header.extrinsics_root>>
                   ELSE b.body

\* What `child` makes of what block i carries, on the one before it.
Rebuilt(i) == ChildOf(lesson, chain[i - 1], StateAt(i - 1), ExtrinsicsOf(chain[i]),
                      chain[i].header.consensus_digest)

\* The block is that, but for the digest: only proof of work has one, and there it is
\* the nonce.
Built(i) ==
    /\ Sealed(lesson, chain[i])
    /\ chain[i] = [Rebuilt(i) EXCEPT
                     !.header.consensus_digest = chain[i].header.consensus_digest]

\* And but for the state.
BuiltUpToState(i) ==
    /\ Sealed(lesson, chain[i])
    /\ chain[i] = [Rebuilt(i) EXCEPT
                     !.header.consensus_digest = chain[i].header.consensus_digest,
                     !.header.state_root = chain[i].header.state_root]

\* What `child` built verifies, and what verifies is a chain that `child` could have
\* built on its first block: whatever was changed, left out, repeated, swapped or built
\* on top of it afterwards.  Lesson 4 promises as much (p4:138-140) but for the state
\* it does not keep it: VerifiedIsExecuted.
VerifiesIffBuilt ==
    /\ (\A i \in 2..Len(chain) : Built(i)) => Whole
    /\ Whole => \A i \in 2..Len(chain) :
                   IF lesson = "batched_extrinsics" THEN BuiltUpToState(i) ELSE Built(i)

\* "We need to verify the headers as well as execute all transactions and check the final
\* state" (p4:138-140): a chain of lesson 4 that verifies has the states that its
\* transactions lead to.  It need not: verify_sub_chain executes none of them.
VerifiedIsExecuted ==
    lesson = "batched_extrinsics" /\ Whole => \A i \in 2..Len(chain) : Built(i)

\* Verification composes: a chain verifies as a whole exactly if it does up to any
\* block and from there, with the state that the first part leaves.
VerifiesPiecewise ==
    \A k \in 1..Len(chain) :
        Whole <=> /\ Verifies(lesson, chain[1], start, SubSeq(chain, 2, k))
                  /\ Verifies(lesson, chain[k], StateAt(k), SubSeq(chain, k + 1, Len(chain)))

\* On every valid chain the two sides of the contentious fork can go on, each with a
\* chain valid "only according to" its own rules (p3:180-184), and each accepts every part
\* of its own suffix, those shorter than FORK_HEIGHT too.
SidesDisagree ==
    lesson = "consensus" => \A parity \in {0, 1} :
        LET suffix == SideOn(Last(chain), parity, Nonces)
            side == Tail(chain) \o suffix
        IN /\ VerifiesSide(parity, chain[1], side)
           /\ ~ VerifiesSide(1 - parity, chain[1], side)
           /\ \A i, k \in DOMAIN suffix :
                 VerifiesSide(parity, Before(Last(chain), suffix, i), SubSeq(suffix, i, k))

\* "Both chains should individually be valid.  They should have the same genesis
\* header.  They should not be the exact same chain" (p2:124-127).
ForksAreChains ==
    lesson = "extrinsic_state" =>
        LET forks == ForkedChains(chain)
        IN /\ \A f \in {1, 2} : /\ forks[f][1] = chain[1]
                                /\ Verifies(lesson, chain[1], start, Tail(forks[f]))
           /\ forks[1] # forks[2]

Headed(headers) == [i \in DOMAIN headers |-> [header |-> headers[i], body |-> <<>>]]

LinksUp(h, headers) ==
    Linked([header |-> h, body |-> <<>>], Headed(headers)) /\ Mined(Headed(headers))

\* Of the fork with a longer and a heavier side, the longer one is a chain, and every
\* block of the heavier one has the work asked for.
OneSideLongerOneHeavier ==
    lesson = "batched_extrinsics" =>
        LET tip == Last(chain).header
        IN /\ \A longer \in HeadersOn(tip, SideLength + 2, Nonces) : LinksUp(tip, longer)
           /\ \A plain \in HeadersOn(tip, SideLength, Nonces) :
                \A heavier \in HeavierSides(plain, Nonces) :
                    \A i \in DOMAIN heavier : Work(heavier[i]) >= HardWork

\* "Both chains should be valid" (p5:175): the heavier side is one as well.  It is not
\* once a block but the last had to be mined again, after its child was built on it.
HeavierSideLinks ==
    lesson = "batched_extrinsics" /\ Whole =>
        LET tip == Last(chain).header
        IN \A plain \in HeadersOn(tip, SideLength, Nonces) :
              \A heavier \in HeavierSides(plain, Nonces) : LinksUp(tip, heavier)

\* "Although the child block is invalid, the header should be valid" (p4:156-157,
\* p6:178-179).
InvalidChildren ==
    LET tip == Last(chain).header
        children == CASE lesson = "batched_extrinsics" ->
                           InvalidBatchChildren(tip, <<1, 2>>, <<2, 1>>, Nonces)
                      [] lesson = "rich_state" ->
                           InvalidRichChildren(tip, StateAt(Len(chain)), Nonces)
                      [] OTHER -> {}
    IN \A b \in {c \in children : LowHash(c.header)} :
          /\ VerifyChild(tip, b.header)
          /\ ~ Verifies(lesson, Last(chain), StateAt(Len(chain)), <<b>>)

\* What the functions of the lessons build on a chain that verifies is as valid, and as
\* invalid, as their comments say, whatever the chain; but for the heavier side of lesson
\* 5, which need not be a chain: HeavierSideLinks.
BuildersKeepTheirWord ==
    Whole => SidesDisagree /\ ForksAreChains /\ OneSideLongerOneHeavier /\ InvalidChildren

Headers == [i \in DOMAIN chain |-> chain[i].header]
Candidates == {SubSeq(Headers, 1, i) : i \in DOMAIN chain}
                \cup {SubSeq(Headers, i, Len(chain)) : i \in DOMAIN chain}

\* What the rules say they count: blocks, "the most accumulated work" (p5:61), or
\* "blocks that have even hashes" (p5:107).
TrueScore(rule, headers) ==
    CASE rule = "LongestChainRule"   -> Len(headers)
      [] rule = "HeaviestChainRule"  ->
           SumFunction([i \in DOMAIN headers |->
               IF headers[i].consensus_digest = 0 THEN 0 ELSE Work(headers[i])])
      [] rule = "MostBlocksWithEvenHash" ->
           Cardinality({i \in DOMAIN headers : EvenHash(headers[i])})

\* best_chain finds a chain with the highest score, whatever the order of the
\* candidates: of several such the last, or for even hashes the first (p5:34-140).
\* The work must fit a word: that of a hundred blocks does, a longer chain's may wrap.
BestScores ==
    lesson = "batched_extrinsics" /\ Whole =>
        \A rule \in ChainRules :
        \A c, d, e \in {x \in Candidates : TrueScore(rule, x) < Word} :
            LET score(x) == TrueScore(rule, x)
                top == Max({score(x) : x \in {c, d, e}})
            IN BestChain(rule, <<c, d, e>>) =
                 IF rule = "MostBlocksWithEvenHash"
                 THEN CASE score(c) = top -> c
                        [] score(c) # top /\ score(d) = top -> d
                        [] OTHER -> e
                 ELSE CASE score(e) = top -> e
                        [] score(e) # top /\ score(d) = top -> d
                        [] OTHER -> c
=============================================================================
