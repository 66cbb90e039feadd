------------------------------ MODULE Lessons ------------------------------
(***************************************************************************)
(* The chains of blocks of src/c2_blockchain, lesson by lesson, as pure    *)
(* operators: what `child` builds on a block, what `verify_sub_chain`      *)
(* accepts after one, and which of several chains is best.  A lesson       *)
(* whose headers stand alone has blocks with an empty body.  The chains of *)
(* chapter 4 (module Block) are the last lesson.                           *)
(*                                                                         *)
(* Numbers are words of Word values (u64) and wrap, as in a build without  *)
(* overflow checks.  Whether a header hashes below THRESHOLD, to an even   *)
(* number, and how far below, is anybody's guess: LowHash, EvenHash, Work. *)
(***************************************************************************)
EXTENDS Block

CONSTANTS Word, ForkHeight,                \* FORK_HEIGHT
          LowHash(_), EvenHash(_), Work(_),\* of headers
          HardWork                         \* that of a hash below THRESHOLD / 10000

LessonNames == {"header_chain", "extrinsic_state", "consensus", "batched_extrinsics",
                "rich_state", "client"}

Unit == <<"unit">>

HeadersOnly(l) == l \in {"header_chain", "extrinsic_state", "consensus"}
SumInHeader(l) == l \in {"extrinsic_state", "consensus", "batched_extrinsics"}
ProofOfWork(l) == l \in {"consensus", "batched_extrinsics", "rich_state"}

-----------------------------------------------------------------------------
(* State *)

Add(s, x) == (s + x) % Word

AddAndMultiply(s, x) == [sum |-> Add(s.sum, x), product |-> (s.product * x) % Word]

Executed(l, s, xs) ==
    CASE SumInHeader(l)      -> FoldLeft(Add, s, xs)
      [] l = "rich_state"    -> FoldLeft(AddAndMultiply, s, xs)
      [] l = "client"        -> Execute(s, xs)
      [] l = "header_chain"  -> Unit

\* The state as headers carry it: not, as it is, or as a root.
StateField(l, s) == IF l \in {"rich_state", "client"} THEN HashState(s) ELSE s

\* The extrinsics as headers carry them: not, the only one, or as a root.
ExtrinsicsField(l, xs) ==
    CASE l = "header_chain" -> Unit
      [] l \in {"extrinsic_state", "consensus"} -> xs[1]
      [] ~ HeadersOnly(l) -> HashBody(xs)

-----------------------------------------------------------------------------
(* Building *)

GenesisOf(l, s) ==
    [header |-> Header(ZeroHash, 0, StateField(l, s),
                       IF l \in {"extrinsic_state", "consensus"} THEN 0
                       ELSE ExtrinsicsField(l, <<>>),
                       IF ProofOfWork(l) THEN 0 ELSE DefaultDigest),
     body |-> <<>>]

\* The state a child is built on: that of the parent's header, if it is there, or
\* what the caller passes.
PreState(l, b, given) == IF SumInHeader(l) THEN b.header.state_root ELSE given

\* Header::child: where there is proof of work, its nonce is drawn until the hash is
\* low.
HeaderChild(h, state, extrinsics, nonce) ==
    Header(HashHeader(h), h.height + 1, state, extrinsics, nonce)

\* child.
ChildOf(l, b, given, xs, nonce) ==
    IF l = "client" THEN Child(b, given, xs) ELSE
    [header |-> HeaderChild(b.header, StateField(l, Executed(l, PreState(l, b, given), xs)),
                            ExtrinsicsField(l, xs),
                            IF ProofOfWork(l) THEN nonce ELSE DefaultDigest),
     body |-> IF HeadersOnly(l) THEN <<>> ELSE xs]

Sealed(l, b) == ProofOfWork(l) => LowHash(b.header)

\* What n rounds of a loop make that goes from each parent on to its child, the i-th
\* time with next(parent, i).
Descendants(next(_, _), first, n) ==
    LET at[i \in 0..n] == IF i = 0 THEN first ELSE next(at[i - 1], i)
    IN [i \in 1..n |-> at[i]]

-----------------------------------------------------------------------------
(* Verifying *)

Before(b, blocks, i) == IF i = 1 THEN b ELSE blocks[i - 1]

\* Mutant of Linked: heights are not compared.
MutParentsOnly(b, blocks) ==
    \A i \in DOMAIN blocks :
        blocks[i].header.parent = HashHeader(Before(b, blocks, i).header)

\* Header::verify_sub_chain of lesson 1.
Linked(b, blocks) ==
    \A i \in DOMAIN blocks : VerifyChild(Before(b, blocks, i).header, blocks[i].header)

Adds(b, blocks) ==
    \A i \in DOMAIN blocks :
        blocks[i].header.state_root =
            Add(Before(b, blocks, i).header.state_root, blocks[i].header.extrinsics_root)

Mined(blocks) == \A i \in DOMAIN blocks : LowHash(blocks[i].header)

BodiesMatch(blocks) ==
    \A i \in DOMAIN blocks : blocks[i].header.extrinsics_root = HashBody(blocks[i].body)

\* The state after the first i blocks.
StateUpTo(l, s, blocks, i) ==
    LET after[k \in 0..i] ==
            IF k = 0 THEN s ELSE Executed(l, after[k - 1], blocks[k].body)
    IN after[i]

\* Mutant of RootsMatch: every body is executed on the state at the start.
MutRootsFromStart(s, blocks) ==
    \A i \in DOMAIN blocks :
        blocks[i].header.state_root = HashState(Executed("rich_state", s, blocks[i].body))

RootsMatch(s, blocks) ==
    \A i \in DOMAIN blocks :
        blocks[i].header.state_root = HashState(StateUpTo("rich_state", s, blocks, i))

\* verify_sub_chain; `s` is the state that the last two lessons pass to it.
Verifies(l, b, s, blocks) ==
    CASE l = "header_chain"       -> Linked(b, blocks)
      [] l = "extrinsic_state"    -> Linked(b, blocks) /\ Adds(b, blocks)
      [] l = "consensus"          -> Linked(b, blocks) /\ Adds(b, blocks) /\ Mined(blocks)
      [] l = "batched_extrinsics" -> Linked(b, blocks) /\ BodiesMatch(blocks) /\ Mined(blocks)
      [] l = "rich_state"         -> /\ Linked(b, blocks) /\ BodiesMatch(blocks)
                                     /\ RootsMatch(s, blocks) /\ Mined(blocks)
      [] l = "client"             -> VerifySubChain(b, s, blocks)

-----------------------------------------------------------------------------
(* The contentious fork of lesson 3 *)

\* Mutant of Contested: the first blocks of the slice are.
MutContestedFirst(blocks, i) == i <= ForkHeight

\* Whose state a side has an opinion on: `len - FORK_HEIGHT <= i`, on words.
Contested(blocks, i) ==
    Len(blocks) >= ForkHeight /\ Len(blocks) - ForkHeight <= i - 1

\* verify_sub_chain_even (parity 0) and verify_sub_chain_odd (1).
VerifiesSide(parity, b, blocks) ==
    /\ Verifies("consensus", b, 0, blocks)
    /\ \A i \in DOMAIN blocks :
          Contested(blocks, i) => blocks[i].header.state_root % 2 = parity

\* What build_contentious_forked_chain puts after a block for a side.
SideChild(b, parity, nonces) ==
    LET extrinsic == IF b.header.state_root % 2 = parity THEN 2 ELSE 1
        child(n) == ChildOf("consensus", b, 0, <<extrinsic>>, n)
    IN child(CHOOSE n \in nonces : LowHash(child(n).header))

\* The suffix that it builds for that side.
SideOn(tip, parity, nonces) ==
    Descendants(LAMBDA b, i : SideChild(b, parity, nonces), tip, ForkHeight)

-----------------------------------------------------------------------------
(* The chains that the lessons ask to be built.  Where a nonce is drawn, or an
   extrinsic at random, the operator is the set of what may come out. *)

\* Lesson 1: five blocks; and the same with every height wrong.
ValidHeaderChain ==
    LET g == GenesisOf("header_chain", Unit)
        next(b, i) == ChildOf("header_chain", b, Unit, <<>>, 0)
    IN <<g>> \o Descendants(next, g, 4)

InvalidHeaderChain ==
    LET g == GenesisOf("header_chain", Unit)
        wrong(b, i) == [ChildOf("header_chain", b, Unit, <<>>, 0) EXCEPT !.header.height = @ + 700]
    IN <<g>> \o Descendants(wrong, g, 4)

\* Lesson 2: n blocks on b that all add x.
AddersOn(b, n, x) ==
    Descendants(LAMBDA c, i : ChildOf("extrinsic_state", c, 0, <<x % Word>>, 0), b, n)

ValidAdderChain(n) ==
    LET g == GenesisOf("extrinsic_state", 0) IN <<g>> \o AddersOn(g, n, 3)

InvalidAdderChain ==
    LET g == GenesisOf("extrinsic_state", 0)
        wrong(b, i) == [ChildOf("extrinsic_state", b, 0, <<3 % Word>>, 0)
                          EXCEPT !.header.state_root = Add(@, 14)]
    IN <<g>> \o Descendants(wrong, g, 4)

\* Mutant of ForkedChains: the second side goes on where the first ended.
MutOneAfterTheOther(chain) ==
    LET fork_1 == chain \o AddersOn(Last(chain), 4, 14)
    IN <<fork_1, chain \o AddersOn(Last(fork_1), 7, 25)>>

\* build_forked_chain, on the chain it forks from.
ForkedChains(chain) ==
    <<chain \o AddersOn(Last(chain), 4, 14), chain \o AddersOn(Last(chain), 7, 25)>>

\* Lesson 3: chains of n blocks on genesis, with extrinsics drawn at random.
ValidWorkChains(n, extrinsics, nonces) ==
    LET g == GenesisOf("consensus", 0)
        on(drawn) == Descendants(LAMBDA b, i : ChildOf("consensus", b, 0, <<drawn[i][1]>>, drawn[i][2]),
                                 g, n)
    IN {<<g>> \o c : c \in {d \in {on(drawn) : drawn \in [1..n -> extrinsics \X nonces]} : Mined(d)}}

\* Lesson 5: the headers that `child(hash(&i), i)` for each i below n puts after h.
HeadersOn(h, n, nonces) ==
    LET on(drawn) == Descendants(LAMBDA g, i : HeaderChild(g, i - 1, HashNumber(i - 1), drawn[i]), h, n)
    IN {hs \in {on(drawn) : drawn \in [1..n -> nonces]} : \A i \in 1..n : LowHash(hs[i])}

IsHard(h) == LowHash(h) /\ Work(h) >= HardWork

\* mine_extra_hard.
MinedExtraHard(h, nonces) ==
    IF IsHard(h) THEN {h}
    ELSE {g \in {[h EXCEPT !.consensus_digest = nonce] : nonce \in nonces} : IsHard(g)}

\* Mutant of HeavierSides: every block is mined as hard as the first.
MutMineOnce(plain, nonces) ==
    {<<g>> \o Tail(plain) : g \in MinedExtraHard(Head(plain), nonces)}

\* The heavier side of create_fork_one_side_longer_other_side_heavier: every header is
\* mined again, after its child was built on what it was before.
HeavierSides(plain, nonces) ==
    LET mined == [i \in DOMAIN plain |-> MinedExtraHard(plain[i], nonces)]
    IN {hs \in [DOMAIN plain -> UNION Range(mined)] : \A i \in DOMAIN plain : hs[i] \in mined[i]}

\* Lessons 4 and 6: a block whose header is a child of h, and whose body is another.
InvalidBatchChildren(h, given, body, nonces) ==
    {[header |-> HeaderChild(h, FoldLeft(Add, h.state_root, given), HashBytes(given), nonce),
      body |-> body] : nonce \in nonces}

InvalidRichChildren(h, preState, nonces) ==
    {[ChildOf("rich_state", [header |-> h, body |-> <<1, 2, 3>>], preState, <<1, 2, 3>>, nonce)
        EXCEPT !.body = <<4, 5, 6, 7>>] : nonce \in nonces}

-----------------------------------------------------------------------------
(* The best chain, lesson 5 *)

ChainRules == {"LongestChainRule", "HeaviestChainRule", "MostBlocksWithEvenHash"}

\* What a header adds to the score of its chain, where that is not just the length.
Worth(rule, h) ==
    CASE rule = "HeaviestChainRule"      -> IF h.consensus_digest = 0 THEN 0 ELSE Work(h)
      [] rule = "MostBlocksWithEvenHash" -> IF EvenHash(h) THEN 1 ELSE 0

Score(rule, headers) ==
    LET score[i \in 0..Len(headers)] ==
            IF i = 0 THEN 0 ELSE Add(score[i - 1], Worth(rule, headers[i]))
    IN IF rule = "LongestChainRule" THEN Len(headers) ELSE score[Len(headers)]

FirstChainIsBetter(rule, chain1, chain2) ==
    IF rule = "MostBlocksWithEvenHash" THEN Score(rule, chain1) > Score(rule, chain2)
                                       ELSE Score(rule, chain1) >= Score(rule, chain2)

\* Mutant of BestChain: each is compared with the first.
MutCompareWithFirst(rule, candidates) ==
    FoldLeft(LAMBDA best, c : IF FirstChainIsBetter(rule, c, candidates[1]) THEN c ELSE best,
             candidates[1], candidates)

BestChain(rule, candidates) ==
    LET best[i \in 0..Len(candidates)] ==
            IF i = 0 THEN candidates[1]
            ELSE IF FirstChainIsBetter(rule, candidates[i], best[i - 1]) THEN candidates[i]
            ELSE best[i - 1]
    IN best[Len(candidates)]
=============================================================================
