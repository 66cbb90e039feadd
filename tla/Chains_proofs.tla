---------------------------- MODULE Chains_proofs ----------------------------
(***************************************************************************)
(* For any hash, word, nonces and number of blocks, and any altering, cut- *)
(* ting and reordering: a chain of a lesson verifies if and only if child  *)
(* could have built it, verification composes, what the lessons build is   *)
(* as valid as they claim, and best_chain finds a best one.                *)
(*                                                                         *)
(* The first two and the building follow from one inductive invariant,     *)
(* Shaped: the chain is a list of one block or more of the shape of its    *)
(* lesson.  The rest is about the loops of the code, running states and    *)
(* folds over candidates, which the model writes as recursive functions:   *)
(* each is shown to exist and to be the only one.                          *)
(***************************************************************************)
EXTENDS Chains, Collections_proofs

-----------------------------------------------------------------------------
(* Loops and running states: the functions that the model picks exist *)

\* h goes on from what g has up to k with the value v.
GoesOn(h, g, k, v) ==
    /\ h = [i \in 0..k + 1 |-> h[i]]
    /\ \A i \in 0..k : h[i] = g[i]
    /\ h[k + 1] = v

LEMMA GoOn == ASSUME NEW k \in Nat, NEW g, NEW v PROVE \E h : GoesOn(h, g, k, v)
<1>. DEFINE h == [i \in 0..k + 1 |-> IF i = k + 1 THEN v ELSE g[i]]
<1>1. GoesOn(h, g, k, v)
  BY DEF GoesOn
<1>. QED
  BY <1>1

\* The states that the bodies of the first n blocks lead through from s.
RunsThrough(g, l, s, blocks, n) ==
    g = [k \in 0..n |-> IF k = 0 THEN s ELSE Executed(l, g[k - 1], blocks[k].body)]

LEMMA RunExists ==
    ASSUME NEW l, NEW s, NEW blocks, NEW n \in Nat
    PROVE  \E g : RunsThrough(g, l, s, blocks, n)
<1>. DEFINE built == {k \in Nat : \E g : RunsThrough(g, l, s, blocks, k)}
<1>1. 0 \in built
  <2>1. RunsThrough([k \in 0..0 |-> s], l, s, blocks, 0)
    BY DEF RunsThrough
  <2>. QED
    BY <2>1
<1>2. ASSUME NEW k \in Nat, k \in built PROVE k + 1 \in built
  <2>1. PICK g : RunsThrough(g, l, s, blocks, k)
    BY <1>2
  <2>5. PICK h : GoesOn(h, g, k, Executed(l, g[k], blocks[k + 1].body))
    BY GoOn
  <2>2. /\ h = [i \in 0..k + 1 |-> h[i]]
        /\ \A i \in 0..k : h[i] = g[i]
        /\ h[k + 1] = Executed(l, g[k], blocks[k + 1].body)
    BY <2>5 DEF GoesOn
  <2>3. ASSUME NEW i \in 0..k + 1
        PROVE  h[i] = IF i = 0 THEN s ELSE Executed(l, h[i - 1], blocks[i].body)
    <3>1. CASE i \in 0..k
      <4>1. h[i] = IF i = 0 THEN s ELSE Executed(l, g[i - 1], blocks[i].body)
        BY <2>1, <2>2, <3>1 DEF RunsThrough
      <4>2. i # 0 => i - 1 \in 0..k
        BY <3>1
      <4>. QED
        BY <2>2, <4>1, <4>2
    <3>2. CASE i = k + 1
      <4>1. i # 0 /\ i - 1 = k /\ h[k] = g[k]
        BY <2>2, <3>2
      <4>. QED
        BY <2>2, <3>2, <4>1
    <3>. QED
      BY <3>1, <3>2
  <2>4. RunsThrough(h, l, s, blocks, k + 1)
    BY <2>2, <2>3 DEF RunsThrough
  <2>. QED
    BY <2>4
<1>. HIDE DEF built
<1>3. n \in built
  BY <1>1, <1>2, CountingUp
<1>. QED
  BY <1>3 DEF built

\* Any two runs agree as far as both go.
LEMMA RunsAgree ==
    ASSUME NEW l, NEW s, NEW blocks, NEW m \in Nat, NEW n \in Nat, NEW g, NEW h,
           RunsThrough(g, l, s, blocks, m), RunsThrough(h, l, s, blocks, n),
           NEW k \in Nat, k <= m, k <= n
    PROVE  g[k] = h[k]
<1>. DEFINE same == {i \in Nat : i <= m /\ i <= n => g[i] = h[i]}
<1>1. 0 \in same
  BY DEF RunsThrough
<1>2. ASSUME NEW i \in Nat, i \in same PROVE i + 1 \in same
  <2>. SUFFICES ASSUME i + 1 <= m, i + 1 <= n PROVE g[i + 1] = h[i + 1]
    OBVIOUS
  <2>1. g[i] = h[i]
    BY <1>2
  <2>2. i + 1 \in 0..m /\ i + 1 \in 0..n /\ i + 1 # 0 /\ (i + 1) - 1 = i
    OBVIOUS
  <2>3. g[i + 1] = Executed(l, g[i], blocks[i + 1].body)
    BY <2>2 DEF RunsThrough
  <2>4. h[i + 1] = Executed(l, h[i], blocks[i + 1].body)
    BY <2>2 DEF RunsThrough
  <2>. QED
    BY <2>1, <2>3, <2>4
<1>. HIDE DEF same
<1>3. k \in same
  BY <1>1, <1>2, CountingUp
<1>. QED
  BY <1>3 DEF same

\* StateUpTo is the state that such a run has reached.
LEMMA StateOfRun ==
    ASSUME NEW l, NEW s, NEW blocks, NEW n \in Nat, NEW g, RunsThrough(g, l, s, blocks, n),
           NEW k \in Nat, k <= n
    PROVE  StateUpTo(l, s, blocks, k) = g[k]
<1>1. PICK h : RunsThrough(h, l, s, blocks, k)
  BY RunExists
<1>2. PICK h2 : h2 = (CHOOSE x : RunsThrough(x, l, s, blocks, k)) /\ RunsThrough(h2, l, s, blocks, k)
  BY <1>1
<1>3. StateUpTo(l, s, blocks, k) = h2[k]
  BY <1>2 DEF StateUpTo, RunsThrough
<1>. QED
  BY <1>2, <1>3, RunsAgree

LEMMA StateUpToNone ==
    ASSUME NEW l, NEW s, NEW blocks
    PROVE  StateUpTo(l, s, blocks, 0) = s
<1>1. PICK g : RunsThrough(g, l, s, blocks, 0)
  BY RunExists
<1>2. g[0] = s
  BY <1>1 DEF RunsThrough
<1>. QED
  BY <1>1, <1>2, StateOfRun

LEMMA StateUpToNext ==
    ASSUME NEW l, NEW s, NEW blocks, NEW k \in Nat
    PROVE  StateUpTo(l, s, blocks, k + 1)
             = Executed(l, StateUpTo(l, s, blocks, k), blocks[k + 1].body)
<1>1. PICK g : RunsThrough(g, l, s, blocks, k + 1)
  BY RunExists
<1>2. k + 1 \in 0..k + 1 /\ k + 1 # 0 /\ (k + 1) - 1 = k
  OBVIOUS
<1>3. g[k + 1] = Executed(l, g[k], blocks[k + 1].body)
  BY <1>1, <1>2 DEF RunsThrough
<1>4. StateUpTo(l, s, blocks, k) = g[k] /\ StateUpTo(l, s, blocks, k + 1) = g[k + 1]
  BY <1>1, StateOfRun
<1>. QED
  BY <1>3, <1>4

\* The first n of ys are those of xs after the first m.
GoesOnAfter(xs, m, ys, n) == \A j \in 1..n : ys[j] = xs[m + j]

\* A run may stop and go on with the rest of the blocks.
LEMMA RunGoesOn ==
    ASSUME NEW l, NEW s, NEW xs, NEW ys, NEW m \in Nat, NEW n \in Nat,
           GoesOnAfter(xs, m, ys, n),
           NEW i \in Nat, i <= n
    PROVE  StateUpTo(l, StateUpTo(l, s, xs, m), ys, i) = StateUpTo(l, s, xs, m + i)
<1>. DEFINE t == StateUpTo(l, s, xs, m)
            P == {j \in Nat : j <= n => StateUpTo(l, t, ys, j) = StateUpTo(l, s, xs, m + j)}
<1>. HIDE DEF t
<1>1. 0 \in P
  <2>1. StateUpTo(l, t, ys, 0) = t
    BY StateUpToNone
  <2>2. m + 0 = m
    OBVIOUS
  <2>. QED
    BY <2>1, <2>2 DEF t
<1>2. ASSUME NEW j \in Nat, j \in P PROVE j + 1 \in P
  <2>. SUFFICES ASSUME j + 1 <= n
                PROVE  StateUpTo(l, t, ys, j + 1) = StateUpTo(l, s, xs, m + (j + 1))
    OBVIOUS
  <2>1. StateUpTo(l, t, ys, j) = StateUpTo(l, s, xs, m + j)
    BY <1>2
  <2>2. m + j \in Nat /\ m + (j + 1) = (m + j) + 1 /\ j + 1 \in 1..n
    OBVIOUS
  <2>3. StateUpTo(l, t, ys, j + 1) = Executed(l, StateUpTo(l, t, ys, j), ys[j + 1].body)
    BY StateUpToNext
  <2>4. StateUpTo(l, s, xs, (m + j) + 1)
          = Executed(l, StateUpTo(l, s, xs, m + j), xs[(m + j) + 1].body)
    BY <2>2, StateUpToNext
  <2>5. ys[j + 1] = xs[(m + j) + 1]
    BY <2>2 DEF GoesOnAfter
  <2>. QED
    BY <2>1, <2>2, <2>3, <2>4, <2>5
<1>. HIDE DEF P
<1>3. i \in P
  BY <1>1, <1>2, CountingUp
<1>. QED
  BY <1>3 DEF P, t

\* The state of the client's blocks is that of the last lesson.
LEMMA StateOfClient ==
    ASSUME NEW s, NEW blocks, NEW k \in Nat
    PROVE  StateAfter(s, blocks, k) = StateUpTo("client", s, blocks, k)
<1>1. PICK g : RunsThrough(g, "client", s, blocks, k)
  BY RunExists
<1>. DEFINE Runs(x) == x = [i \in 0..k |-> IF i = 0 THEN s ELSE Execute(x[i - 1], blocks[i].body)]
<1>2. \A t, xs : Executed("client", t, xs) = Execute(t, xs)
  BY DEF Executed, SumInHeader
<1>3. \A x : RunsThrough(x, "client", s, blocks, k) <=> Runs(x)
  BY <1>2 DEF RunsThrough
<1>4. Runs(g)
  BY <1>1, <1>3
<1>5. PICK h : h = (CHOOSE x : Runs(x)) /\ Runs(h)
  BY <1>4
<1>6. StateAfter(s, blocks, k) = h[k]
  BY <1>5 DEF StateAfter
<1>. HIDE DEF Runs
<1>7. RunsThrough(h, "client", s, blocks, k)
  BY <1>3, <1>5
<1>. QED
  BY <1>6, <1>7, StateOfRun

-----------------------------------------------------------------------------
(* Verification, block by block *)

\* verify_sub_chain accepts b after p and the state t.
Accepts(l, p, t, b) ==
    /\ VerifyChild(p.header, b.header)
    /\ l \in {"extrinsic_state", "consensus"} =>
          b.header.state_root = Add(p.header.state_root, b.header.extrinsics_root)
    /\ ~ HeadersOnly(l) => b.header.extrinsics_root = HashBody(b.body)
    /\ l \in {"rich_state", "client"} => b.header.state_root = HashState(Executed(l, t, b.body))
    /\ Sealed(l, b)

LEMMA VerifiesEach ==
    ASSUME NEW l \in LessonNames, NEW b, NEW s, NEW S, NEW blocks \in Seq(S)
    PROVE  Verifies(l, b, s, blocks) <=>
             \A i \in 1..Len(blocks) :
                Accepts(l, Before(b, blocks, i), StateUpTo(l, s, blocks, i - 1), blocks[i])
<1>0. DOMAIN blocks = 1..Len(blocks) /\ Len(blocks) \in Nat
  OBVIOUS
<1>1. ASSUME NEW i \in 1..Len(blocks)
      PROVE  StateUpTo(l, s, blocks, i) = Executed(l, StateUpTo(l, s, blocks, i - 1), blocks[i].body)
  <2>1. i - 1 \in Nat /\ (i - 1) + 1 = i
    OBVIOUS
  <2>. QED
    BY <2>1, StateUpToNext
<1>2. CASE l = "header_chain"
  BY <1>0, <1>2 DEF Verifies, Linked, Accepts, HeadersOnly, Sealed, ProofOfWork
<1>3. CASE l = "extrinsic_state"
  BY <1>0, <1>3 DEF Verifies, Linked, Adds, Accepts, HeadersOnly, Sealed, ProofOfWork
<1>4. CASE l = "consensus"
  BY <1>0, <1>4 DEF Verifies, Linked, Adds, Mined, Accepts, HeadersOnly, Sealed, ProofOfWork
<1>5. CASE l = "batched_extrinsics"
  BY <1>0, <1>5 DEF Verifies, Linked, BodiesMatch, Mined, Accepts, HeadersOnly, Sealed, ProofOfWork
<1>6. CASE l = "rich_state"
  BY <1>0, <1>1, <1>6
     DEF Verifies, Linked, BodiesMatch, RootsMatch, Mined, Accepts, HeadersOnly, Sealed, ProofOfWork
<1>7. CASE l = "client"
  <2>1. \A i \in 1..Len(blocks) : StateAfter(s, blocks, i) = StateUpTo("client", s, blocks, i)
    BY StateOfClient
  <2>2. \A i \in 1..Len(blocks) :
          Before(b, blocks, i).header = IF i = 1 THEN b.header ELSE blocks[i - 1].header
    BY DEF Before
  <2>. QED
    BY <1>0, <1>1, <1>7, <2>1, <2>2
       DEF Verifies, VerifySubChain, VerifyHeaders, Accepts, HeadersOnly, Sealed, ProofOfWork
<1>. QED
  BY <1>2, <1>3, <1>4, <1>5, <1>6, <1>7 DEF LessonNames

\* Verification of c from its k-th block on is that of each block after the one before,
\* with the state that the blocks up to then lead to.
LEMMA VerifiesFrom ==
    ASSUME NEW l \in LessonNames, NEW S, NEW c \in Seq(S), NEW s,
           NEW k \in 1..Len(c), NEW n \in k..Len(c)
    PROVE  Verifies(l, c[k], StateUpTo(l, s, Tail(c), k - 1), SubSeq(c, k + 1, n)) <=>
             \A i \in k + 1..n : Accepts(l, c[i - 1], StateUpTo(l, s, Tail(c), i - 2), c[i])
<1>. DEFINE rest == SubSeq(c, k + 1, n)
            t == StateUpTo(l, s, Tail(c), k - 1)
<1>0. k \in Nat /\ n \in Nat /\ Len(c) \in Nat /\ k >= 1 /\ n <= Len(c) /\ k <= n
  OBVIOUS
<1>1. /\ rest \in Seq(S) /\ Len(rest) = n - k
      /\ \A i \in 1..n - k : rest[i] = c[k + i]
  BY <1>0, SubSeqProperties
<1>2. Tail(c) \in Seq(S) /\ Len(Tail(c)) = Len(c) - 1 /\ \A i \in 1..Len(c) - 1 : Tail(c)[i] = c[i + 1]
  BY <1>0
<1>. HIDE DEF rest, t
<1>3. ASSUME NEW i \in 1..n - k
      PROVE  /\ Before(c[k], rest, i) = c[k + i - 1]
             /\ StateUpTo(l, t, rest, i - 1) = StateUpTo(l, s, Tail(c), k + i - 2)
             /\ rest[i] = c[k + i]
  <2>1. Before(c[k], rest, i) = c[k + i - 1]
    <3>1. CASE i = 1
      BY <1>0, <3>1 DEF Before
    <3>2. CASE i # 1
      <4>1. i - 1 \in 1..n - k /\ k + (i - 1) = k + i - 1
        BY <1>0, <3>2
      <4>. QED
        BY <1>1, <3>2, <4>1 DEF Before
    <3>. QED
      BY <3>1, <3>2
  <2>2. \A j \in 1..n - k : rest[j] = Tail(c)[(k - 1) + j]
    <3>. SUFFICES ASSUME NEW j \in 1..n - k PROVE rest[j] = Tail(c)[(k - 1) + j]
      OBVIOUS
    <3>1. (k - 1) + j \in 1..Len(c) - 1 /\ ((k - 1) + j) + 1 = k + j
      BY <1>0
    <3>. QED
      BY <1>1, <1>2, <3>1
  <2>3. k - 1 \in Nat /\ n - k \in Nat /\ i - 1 \in Nat /\ i - 1 <= n - k /\ (k - 1) + (i - 1) = k + i - 2
    BY <1>0
  <2>4. PICK m \in Nat, j \in Nat, d \in Nat : m = k - 1 /\ j = i - 1 /\ d = n - k
    BY <2>3
  <2>5. StateUpTo(l, StateUpTo(l, s, Tail(c), m), rest, j) = StateUpTo(l, s, Tail(c), m + j)
    <3>1. PICK xs : xs = Tail(c)
      OBVIOUS
    <3>2. j <= d /\ GoesOnAfter(xs, m, rest, d)
      BY <2>2, <2>3, <2>4, <3>1 DEF GoesOnAfter
    <3>3. StateUpTo(l, StateUpTo(l, s, xs, m), rest, j) = StateUpTo(l, s, xs, m + j)
      BY <3>2, RunGoesOn
    <3>. QED
      BY <3>1, <3>3
  <2>. QED
    BY <1>1, <2>1, <2>3, <2>4, <2>5 DEF t
<1>4. Verifies(l, c[k], t, rest) <=>
        \A i \in 1..n - k : Accepts(l, Before(c[k], rest, i), StateUpTo(l, t, rest, i - 1), rest[i])
  BY <1>1, VerifiesEach
<1>5. Verifies(l, c[k], t, rest) <=>
        \A i \in 1..n - k : Accepts(l, c[k + i - 1], StateUpTo(l, s, Tail(c), k + i - 2), c[k + i])
  BY <1>3, <1>4
<1>. DEFINE Follows(i) == Accepts(l, c[i - 1], StateUpTo(l, s, Tail(c), i - 2), c[i])
<1>6. (\A i \in 1..n - k : Follows(k + i)) <=> \A i \in k + 1..n : Follows(i)
  <2>. HIDE DEF Follows
  <2>1. \A i \in k + 1..n : i - k \in 1..n - k /\ k + (i - k) = i
    BY <1>0
  <2>2. \A i \in 1..n - k : k + i \in k + 1..n
    BY <1>0
  <2>. QED
    BY <2>1, <2>2
<1>7. \A i \in 1..n - k : (k + i) - 1 = k + i - 1 /\ (k + i) - 2 = k + i - 2
  BY <1>0
<1>. QED
  BY <1>5, <1>6, <1>7 DEF t, rest

\* Verification composes, for any chain.
LEMMA VerifiesInParts ==
    ASSUME NEW l \in LessonNames, NEW S, NEW c \in Seq(S), NEW s, NEW k \in 1..Len(c)
    PROVE  Verifies(l, c[1], s, Tail(c)) <=>
             /\ Verifies(l, c[1], s, SubSeq(c, 2, k))
             /\ Verifies(l, c[k], StateUpTo(l, s, Tail(c), k - 1), SubSeq(c, k + 1, Len(c)))
<1>. DEFINE Follows(i) == Accepts(l, c[i - 1], StateUpTo(l, s, Tail(c), i - 2), c[i])
            n == Len(c)
<1>0. n \in Nat /\ k \in Nat /\ 1 <= k /\ k <= n
  OBVIOUS
<1>1. StateUpTo(l, s, Tail(c), 1 - 1) = s
  <2>1. 1 - 1 = 0
    OBVIOUS
  <2>. QED
    BY <2>1, StateUpToNone
<1>2. Tail(c) = SubSeq(c, 2, n)
  BY <1>0
<1>3. Verifies(l, c[1], s, SubSeq(c, 2, n)) <=> \A i \in 2..n : Follows(i)
  <2>1. 1 \in 1..Len(c) /\ n \in 1..Len(c) /\ 1 + 1 = 2
    BY <1>0
  <2>. QED
    BY <1>1, <2>1, VerifiesFrom
<1>4. Verifies(l, c[1], s, SubSeq(c, 2, k)) <=> \A i \in 2..k : Follows(i)
  <2>1. 1 \in 1..Len(c) /\ k \in 1..Len(c) /\ 1 + 1 = 2
    BY <1>0
  <2>. QED
    BY <1>1, <2>1, VerifiesFrom
<1>5. Verifies(l, c[k], StateUpTo(l, s, Tail(c), k - 1), SubSeq(c, k + 1, n))
        <=> \A i \in k + 1..n : Follows(i)
  <2>1. k \in 1..Len(c) /\ n \in k..Len(c)
    BY <1>0
  <2>. QED
    BY <2>1, VerifiesFrom
<1>. HIDE DEF Follows, n
<1>6. \A i : i \in 2..n <=> i \in 2..k \/ i \in k + 1..n
  BY <1>0
<1>. QED
  BY <1>2, <1>3, <1>4, <1>5, <1>6 DEF n

-----------------------------------------------------------------------------
(* What blocks look like *)

\* A block of a lesson: it has the fields of one, and what the lesson's headers do not
\* carry is not there.
Fits(l, b) ==
    /\ b = [header |-> b.header, body |-> b.body]
    /\ b.header = Header(b.header.parent, b.header.height, b.header.state_root,
                         b.header.extrinsics_root, b.header.consensus_digest)
    /\ b.header.height \in Nat
    /\ ProofOfWork(l) => b.header.consensus_digest \in Nat
    /\ HeadersOnly(l) => b.body = <<>>
    /\ l = "header_chain" => b.header.state_root = Unit /\ b.header.extrinsics_root = Unit
    /\ l \in {"extrinsic_state", "consensus"} =>
          b.header.state_root \in Nat /\ b.header.extrinsics_root \in Nat

IsChain(l, c) ==
    /\ \E S : c \in Seq(S)
    /\ Len(c) >= 1
    /\ \A i \in 1..Len(c) : Fits(l, c[i])

\* The extrinsics that a block of the lesson may have.
Fitting(l, xs) == l \in {"extrinsic_state", "consensus"} => \E x \in Nat : xs = <<x>>

\* Adding up one extrinsic is to add it.
AddsFrom(g, s, xs) ==
    g = [T \in SUBSET DOMAIN xs |-> IF T = {} THEN s ELSE Add(g[T \ {Max(T)}], xs[Max(T)])]

LEMMA AddsOne ==
    ASSUME NEW s, NEW x
    PROVE  FoldLeft(Add, s, <<x>>) = Add(s, x)
<1>1. PICK xs : xs = <<x>>
  OBVIOUS
<1>2. DOMAIN xs = {1} /\ xs[1] = x
  BY <1>1
<1>3. FoldLeft(Add, s, xs) = (CHOOSE g : AddsFrom(g, s, xs))[{1}]
  BY <1>2 DEF FoldLeft, MapThenFoldSet, AddsFrom
<1>4. PICK sum : sum = Add(s, x)
  OBVIOUS
<1>5. Max({1}) = 1
  BY DEF Max
<1>. DEFINE g == [T \in SUBSET {1} |-> IF T = {} THEN s ELSE sum]
<1>6. g = [T \in SUBSET {1} |-> g[T]] /\ g[{}] = s /\ g[{1}] = sum
  OBVIOUS
<1>. HIDE DEF g
<1>7. ASSUME NEW T \in SUBSET {1}
      PROVE  g[T] = IF T = {} THEN s ELSE Add(g[T \ {Max(T)}], xs[Max(T)])
  <2>1. CASE T = {}
    BY <1>6, <2>1
  <2>2. CASE T = {1}
    <3>1. T \ {Max(T)} = {} /\ xs[Max(T)] = x /\ T # {}
      BY <1>2, <1>5, <2>2
    <3>. QED
      BY <1>4, <1>6, <2>2, <3>1
  <2>. QED
    BY <2>1, <2>2
<1>8. AddsFrom(g, s, xs)
  BY <1>2, <1>6, <1>7 DEF AddsFrom
<1>9. PICK h : h = (CHOOSE y : AddsFrom(y, s, xs)) /\ AddsFrom(h, s, xs)
  BY <1>8
<1>10. h[{1}] = Add(s, x)
  <2>1. {} \in SUBSET DOMAIN xs /\ {1} \in SUBSET DOMAIN xs /\ {1} \ {Max({1})} = {} /\ {1} # {}
    BY <1>2, <1>5
  <2>2. h[{}] = s
    BY <1>9, <2>1 DEF AddsFrom
  <2>3. h[{1}] = Add(h[{1} \ {Max({1})}], xs[Max({1})])
    BY <1>9, <2>1 DEF AddsFrom
  <2>. QED
    BY <1>2, <1>5, <2>1, <2>2, <2>3
<1>. QED
  BY <1>1, <1>3, <1>9, <1>10

LEMMA AddIsNat == ASSUME NEW s \in Nat, NEW x \in Nat PROVE Add(s, x) \in 0..Word - 1 /\ Add(s, x) \in Nat
BY LessonAssumption, RestOf DEF Add

\* What the client builds is what every lesson builds.
LEMMA ChildHas ==
    ASSUME NEW l \in LessonNames, NEW b, NEW given, NEW xs, NEW nonce
    PROVE  LET c == ChildOf(l, b, given, xs, nonce)
           IN /\ c = [header |-> c.header, body |-> c.body]
              /\ c.header = Header(HashHeader(b.header), b.header.height + 1,
                                   StateField(l, Executed(l, PreState(l, b, given), xs)),
                                   ExtrinsicsField(l, xs),
                                   IF ProofOfWork(l) THEN nonce ELSE DefaultDigest)
              /\ c.body = IF HeadersOnly(l) THEN <<>> ELSE xs
BY DEF ChildOf, Child, HeaderChild, Header, StateField, ExtrinsicsField, PreState, Executed,
       SumInHeader, HeadersOnly, ProofOfWork, LessonNames

LEMMA ChildFits ==
    ASSUME NEW l \in LessonNames, NEW b, Fits(l, b), NEW given, NEW xs, Fitting(l, xs),
           NEW nonce \in Nat
    PROVE  Fits(l, ChildOf(l, b, given, xs, nonce))
<1>. DEFINE c == ChildOf(l, b, given, xs, nonce)
            state == Executed(l, PreState(l, b, given), xs)
<1>1. /\ c = [header |-> c.header, body |-> c.body]
      /\ c.header = Header(HashHeader(b.header), b.header.height + 1, StateField(l, state),
                           ExtrinsicsField(l, xs), IF ProofOfWork(l) THEN nonce ELSE DefaultDigest)
      /\ c.body = IF HeadersOnly(l) THEN <<>> ELSE xs
  BY ChildHas
<1>. HIDE DEF c, state
<1>2. /\ c.header.height = b.header.height + 1
      /\ c.header.state_root = StateField(l, state)
      /\ c.header.extrinsics_root = ExtrinsicsField(l, xs)
      /\ ProofOfWork(l) => c.header.consensus_digest = nonce
      /\ c.header = Header(c.header.parent, c.header.height, c.header.state_root,
                           c.header.extrinsics_root, c.header.consensus_digest)
  BY <1>1 DEF Header
<1>3. b.header.height + 1 \in Nat
  BY DEF Fits
<1>4. l = "header_chain" => StateField(l, state) = Unit /\ ExtrinsicsField(l, xs) = Unit
  BY DEF state, StateField, ExtrinsicsField, Executed, SumInHeader, HeadersOnly
<1>5. ASSUME l \in {"extrinsic_state", "consensus"}
      PROVE  StateField(l, state) \in Nat /\ ExtrinsicsField(l, xs) \in Nat
  <2>1. PICK x \in Nat : xs = <<x>>
    BY <1>5 DEF Fitting
  <2>2. state = Add(b.header.state_root, x)
    BY <1>5, <2>1, AddsOne DEF state, Executed, PreState, SumInHeader
  <2>3. b.header.state_root \in Nat
    BY <1>5 DEF Fits
  <2>4. StateField(l, state) = state /\ ExtrinsicsField(l, xs) = x
    BY <1>5, <2>1 DEF StateField, ExtrinsicsField, HeadersOnly
  <2>. QED
    BY <2>2, <2>3, <2>4, AddIsNat
<1>. QED
  BY <1>1, <1>2, <1>3, <1>4, <1>5 DEF c, Fits

LEMMA GenesisFits ==
    ASSUME NEW l \in LessonNames, NEW s,
           l = "header_chain" => s = Unit,
           l \in {"extrinsic_state", "consensus"} => s \in Nat
    PROVE  Fits(l, GenesisOf(l, s))
<1>. DEFINE g == GenesisOf(l, s)
<1>1. /\ g = [header |-> g.header, body |-> <<>>] /\ g.body = <<>>
      /\ g.header.height = 0
      /\ g.header.state_root = StateField(l, s)
      /\ g.header.extrinsics_root = IF l \in {"extrinsic_state", "consensus"} THEN 0
                                    ELSE ExtrinsicsField(l, <<>>)
      /\ g.header.consensus_digest = IF ProofOfWork(l) THEN 0 ELSE DefaultDigest
      /\ g.header = Header(g.header.parent, g.header.height, g.header.state_root,
                           g.header.extrinsics_root, g.header.consensus_digest)
  BY DEF GenesisOf, Header
<1>2. l = "header_chain" => StateField(l, s) = s /\ ExtrinsicsField(l, <<>>) = Unit
  BY DEF StateField, ExtrinsicsField, HeadersOnly
<1>3. l \in {"extrinsic_state", "consensus"} => StateField(l, s) = s
  BY DEF StateField
<1>. HIDE DEF g
<1>. QED
  BY <1>1, <1>2, <1>3 DEF Fits, g

-----------------------------------------------------------------------------
(* Chains that loops build *)

\* What the loops of the lessons make of a parent: a child, maybe with a field wrong;
\* x is what they were given or drew.
Offspring(kind, x, b, i) ==
    CASE kind = "header"       -> ChildOf("header_chain", b, Unit, <<>>, 0)
      [] kind = "wrong header" ->
           [ChildOf("header_chain", b, Unit, <<>>, 0) EXCEPT !.header.height = @ + 700]
      [] kind = "adder"        -> ChildOf("extrinsic_state", b, 0, <<x % Word>>, 0)
      [] kind = "wrong adder"  ->
           [ChildOf("extrinsic_state", b, 0, <<3 % Word>>, 0)
              EXCEPT !.header.state_root = Add(@, 14)]
      [] kind = "worker"       -> ChildOf("consensus", b, 0, <<x[i][1]>>, x[i][2])
      [] kind = "side"         -> SideChild(b, x[1], x[2])
      [] kind = "plain header" -> HeaderChild(b, i - 1, HashNumber(i - 1), x[i])

Line(g, kind, x, first, n) ==
    g = [i \in 0..n |-> IF i = 0 THEN first ELSE Offspring(kind, x, g[i - 1], i)]

LEMMA LineExists ==
    ASSUME NEW kind, NEW x, NEW first, NEW n \in Nat
    PROVE  \E g : Line(g, kind, x, first, n)
<1>. DEFINE built == {k \in Nat : \E g : Line(g, kind, x, first, k)}
<1>1. 0 \in built
  <2>1. Line([k \in 0..0 |-> first], kind, x, first, 0)
    BY DEF Line
  <2>. QED
    BY <2>1
<1>2. ASSUME NEW k \in Nat, k \in built PROVE k + 1 \in built
  <2>1. PICK g : Line(g, kind, x, first, k)
    BY <1>2
  <2>2. PICK h : GoesOn(h, g, k, Offspring(kind, x, g[k], k + 1))
    BY GoOn
  <2>3. /\ h = [i \in 0..k + 1 |-> h[i]]
        /\ \A i \in 0..k : h[i] = g[i]
        /\ h[k + 1] = Offspring(kind, x, g[k], k + 1)
    BY <2>2 DEF GoesOn
  <2>4. ASSUME NEW i \in 0..k + 1
        PROVE  h[i] = IF i = 0 THEN first ELSE Offspring(kind, x, h[i - 1], i)
    <3>1. CASE i \in 0..k
      <4>1. h[i] = IF i = 0 THEN first ELSE Offspring(kind, x, g[i - 1], i)
        BY <2>1, <2>3, <3>1 DEF Line
      <4>2. i # 0 => i - 1 \in 0..k
        BY <3>1
      <4>. QED
        BY <2>3, <4>1, <4>2
    <3>2. CASE i = k + 1
      <4>1. i # 0 /\ i - 1 = k /\ k \in 0..k
        BY <3>2
      <4>2. h[i - 1] = g[k]
        BY <2>3, <4>1
      <4>. QED
        BY <2>3, <3>2, <4>1, <4>2
    <3>. QED
      BY <3>1, <3>2
  <2>5. Line(h, kind, x, first, k + 1)
    BY <2>3, <2>4 DEF Line
  <2>. QED
    BY <2>5
<1>. HIDE DEF built
<1>3. n \in built
  BY <1>1, <1>2, CountingUp
<1>. QED
  BY <1>3 DEF built

\* Each element of c was made from the one before it, the first one from first.
Grows(c, kind, x, first, n) ==
    /\ c = [i \in 1..n |-> c[i]]
    /\ \A i \in 1..n : c[i] = Offspring(kind, x, IF i = 1 THEN first ELSE c[i - 1], i)

LEMMA LineGrows ==
    ASSUME NEW kind, NEW x, NEW first, NEW n \in Nat, NEW g, Line(g, kind, x, first, n)
    PROVE  Grows([i \in 1..n |-> g[i]], kind, x, first, n)
<1>. DEFINE c == [i \in 1..n |-> g[i]]
<1>1. ASSUME NEW i \in 1..n
      PROVE  c[i] = Offspring(kind, x, IF i = 1 THEN first ELSE c[i - 1], i)
  <2>1. i \in 0..n /\ i # 0 /\ i - 1 \in 0..n /\ (i # 1 => i - 1 \in 1..n)
    OBVIOUS
  <2>2. g[i] = Offspring(kind, x, g[i - 1], i) /\ g[0] = first
    BY <2>1 DEF Line
  <2>3. g[i - 1] = IF i = 1 THEN first ELSE c[i - 1]
    BY <2>1, <2>2
  <2>. QED
    BY <2>2, <2>3
<1>2. c = [i \in 1..n |-> c[i]]
  OBVIOUS
<1>. HIDE DEF c
<1>3. Grows(c, kind, x, first, n)
  BY <1>1, <1>2 DEF Grows
<1>. QED
  BY <1>3 DEF c

LEMMA HeadersGrow ==
    /\ \E c : Grows(c, "header", 0, GenesisOf("header_chain", Unit), 4)
              /\ ValidHeaderChain = <<GenesisOf("header_chain", Unit)>> \o c
    /\ \E c : Grows(c, "wrong header", 0, GenesisOf("header_chain", Unit), 4)
              /\ InvalidHeaderChain = <<GenesisOf("header_chain", Unit)>> \o c
<1>. DEFINE g == GenesisOf("header_chain", Unit)
            Right(y) == y = [i \in 0..4 |-> IF i = 0 THEN g
                                            ELSE ChildOf("header_chain", y[i - 1], Unit, <<>>, 0)]
            Wrong(y) == y = [i \in 0..4 |-> IF i = 0 THEN g
                                            ELSE [ChildOf("header_chain", y[i - 1], Unit, <<>>, 0)
                                                    EXCEPT !.header.height = @ + 700]]
<1>1. \A y : Right(y) <=> Line(y, "header", 0, g, 4)
  BY DEF Line, Offspring
<1>2. \A y : Wrong(y) <=> Line(y, "wrong header", 0, g, 4)
  BY DEF Line, Offspring
<1>3. PICK y0, z0 : Line(y0, "header", 0, g, 4) /\ Line(z0, "wrong header", 0, g, 4)
  <2>. HIDE DEF g
  <2>. QED
    BY LineExists
<1>4. PICK y : y = (CHOOSE a : Right(a)) /\ Right(y)
  <2>. HIDE DEF Right
  <2>1. Right(y0)
    BY <1>1, <1>3
  <2>. QED
    BY <2>1
<1>5. PICK z : z = (CHOOSE a : Wrong(a)) /\ Wrong(z)
  <2>. HIDE DEF Wrong
  <2>1. Wrong(z0)
    BY <1>2, <1>3
  <2>. QED
    BY <2>1
<1>6. /\ ValidHeaderChain = <<g>> \o [i \in 1..4 |-> y[i]]
      /\ InvalidHeaderChain = <<g>> \o [i \in 1..4 |-> z[i]]
  BY <1>4, <1>5 DEF ValidHeaderChain, InvalidHeaderChain, Descendants
<1>. HIDE DEF Right, Wrong, g
<1>7. /\ Grows([i \in 1..4 |-> y[i]], "header", 0, g, 4)
      /\ Grows([i \in 1..4 |-> z[i]], "wrong header", 0, g, 4)
  BY <1>1, <1>2, <1>4, <1>5, LineGrows
<1>. QED
  BY <1>6, <1>7 DEF g
LEMMA AddersGrow ==
    ASSUME NEW b, NEW n \in Nat, NEW x
    PROVE  Grows(AddersOn(b, n, x), "adder", x, b, n)
<1>. DEFINE Loop(y) == y = [i \in 0..n |-> IF i = 0 THEN b ELSE ChildOf("extrinsic_state", y[i - 1], 0, <<x % Word>>, 0)]
<1>1. \A y : Loop(y) <=> Line(y, "adder", x, b, n)
  BY DEF Line, Offspring
<1>2. PICK y : y = (CHOOSE a : Loop(a)) /\ Loop(y)
  <2>. HIDE DEF Loop
  <2>. QED
    BY <1>1, LineExists
<1>3. AddersOn(b, n, x) = [i \in 1..n |-> y[i]]
  BY <1>2 DEF AddersOn, Descendants
<1>. HIDE DEF Loop
<1>. QED
  BY <1>1, <1>2, <1>3, LineGrows

LEMMA SideGrows ==
    ASSUME NEW tip, NEW parity, NEW nonces
    PROVE  Grows(SideOn(tip, parity, nonces), "side", <<parity, nonces>>, tip, ForkHeight)
<1>0. ForkHeight \in Nat
  BY LessonAssumption
<1>. DEFINE Loop(y) == y = [i \in 0..ForkHeight |-> IF i = 0 THEN tip ELSE SideChild(y[i - 1], parity, nonces)]
<1>1. \A y : Loop(y) <=> Line(y, "side", <<parity, nonces>>, tip, ForkHeight)
  BY DEF Line, Offspring
<1>2. PICK y : y = (CHOOSE a : Loop(a)) /\ Loop(y)
  <2>. HIDE DEF Loop
  <2>. QED
    BY <1>1, <1>0, LineExists
<1>3. SideOn(tip, parity, nonces) = [i \in 1..ForkHeight |-> y[i]]
  BY <1>2 DEF SideOn, Descendants
<1>. HIDE DEF Loop
<1>. QED
  BY <1>1, <1>2, <1>3, <1>0, LineGrows

\* The adder chain in which every sum is wrong.
LEMMA WrongAddersGrow ==
    \E c : Grows(c, "wrong adder", 0, GenesisOf("extrinsic_state", 0), 4)
           /\ InvalidAdderChain = <<GenesisOf("extrinsic_state", 0)>> \o c
<1>. DEFINE g == GenesisOf("extrinsic_state", 0)
            Loop(y) == y = [i \in 0..4 |-> IF i = 0 THEN g
                                           ELSE [ChildOf("extrinsic_state", y[i - 1], 0, <<3 % Word>>, 0)
                                                   EXCEPT !.header.state_root = Add(@, 14)]]
<1>1. \A y : Loop(y) <=> Line(y, "wrong adder", 0, g, 4)
  BY DEF Line, Offspring
<1>2. PICK y : y = (CHOOSE a : Loop(a)) /\ Loop(y)
  <2>. HIDE DEF Loop, g
  <2>. QED
    BY <1>1, LineExists
<1>3. InvalidAdderChain = <<g>> \o [i \in 1..4 |-> y[i]]
  BY <1>2 DEF InvalidAdderChain, Descendants
<1>. HIDE DEF Loop, g
<1>4. Grows([i \in 1..4 |-> y[i]], "wrong adder", 0, g, 4)
  BY <1>1, <1>2, LineGrows
<1>. QED
  BY <1>3, <1>4 DEF g

LEMMA WorkersGrow ==
    ASSUME NEW n \in Nat, NEW extrinsics, NEW nonces,
           NEW w \in ValidWorkChains(n, extrinsics, nonces)
    PROVE  \E c : \E drawn \in [1..n -> extrinsics \X nonces] :
              /\ Grows(c, "worker", drawn, GenesisOf("consensus", 0), n)
              /\ w = <<GenesisOf("consensus", 0)>> \o c
<1>. DEFINE g == GenesisOf("consensus", 0)
<1>1. PICK drawn \in [1..n -> extrinsics \X nonces] :
        w = <<g>> \o Descendants(LAMBDA b, i : ChildOf("consensus", b, 0, <<drawn[i][1]>>, drawn[i][2]),
                                 g, n)
  BY DEF ValidWorkChains
<1>. DEFINE Loop(y) == y = [i \in 0..n |-> IF i = 0 THEN g
                              ELSE ChildOf("consensus", y[i - 1], 0, <<drawn[i][1]>>, drawn[i][2])]
<1>2. \A y : Loop(y) <=> Line(y, "worker", drawn, g, n)
  BY DEF Line, Offspring
<1>3. PICK y : y = (CHOOSE a : Loop(a)) /\ Loop(y)
  <2>. HIDE DEF Loop, g
  <2>. QED
    BY <1>2, LineExists
<1>4. w = <<g>> \o [i \in 1..n |-> y[i]]
  BY <1>1, <1>3 DEF Descendants
<1>. HIDE DEF Loop, g
<1>5. Grows([i \in 1..n |-> y[i]], "worker", drawn, g, n)
  BY <1>2, <1>3, LineGrows
<1>. QED
  BY <1>4, <1>5 DEF g

LEMMA PlainHeadersGrow ==
    ASSUME NEW h, NEW n \in Nat, NEW nonces, NEW hs \in HeadersOn(h, n, nonces)
    PROVE  /\ \E drawn \in [1..n -> nonces] : Grows(hs, "plain header", drawn, h, n)
           /\ \A i \in 1..n : LowHash(hs[i])
<1>1. /\ \A i \in 1..n : LowHash(hs[i])
      /\ \E drawn \in [1..n -> nonces] :
            hs = Descendants(LAMBDA g, i : HeaderChild(g, i - 1, HashNumber(i - 1), drawn[i]), h, n)
  BY DEF HeadersOn
<1>2. PICK drawn \in [1..n -> nonces] :
        hs = Descendants(LAMBDA g, i : HeaderChild(g, i - 1, HashNumber(i - 1), drawn[i]), h, n)
  BY <1>1
<1>. DEFINE Loop(y) == y = [i \in 0..n |-> IF i = 0 THEN h
                              ELSE HeaderChild(y[i - 1], i - 1, HashNumber(i - 1), drawn[i])]
<1>3. \A y : Loop(y) <=> Line(y, "plain header", drawn, h, n)
  BY DEF Line, Offspring
<1>4. PICK y : y = (CHOOSE a : Loop(a)) /\ Loop(y)
  <2>. HIDE DEF Loop
  <2>. QED
    BY <1>3, LineExists
<1>5. hs = [i \in 1..n |-> y[i]]
  BY <1>2, <1>4 DEF Descendants
<1>. HIDE DEF Loop
<1>6. Grows([i \in 1..n |-> y[i]], "plain header", drawn, h, n)
  BY <1>3, <1>4, LineGrows
<1>. QED
  BY <1>1, <1>5, <1>6

-----------------------------------------------------------------------------
(* Every chain that is built, handed on or changed is one *)

\* Values that the headers of a lesson may have for the state and for the extrinsics.
MayBeRoot(l, v) == /\ l = "header_chain" => v = Unit
                   /\ l \in {"extrinsic_state", "consensus"} => v \in Nat

\* A block in which one field was changed for one of its kind is a block.
LEMMA AlteredFits ==
    ASSUME NEW l \in LessonNames, NEW b, Fits(l, b)
    PROVE  /\ \A v : Fits(l, [b EXCEPT !.header.parent = v])
           /\ \A v \in Nat : Fits(l, [b EXCEPT !.header.height = v])
           /\ \A v : MayBeRoot(l, v) => /\ Fits(l, [b EXCEPT !.header.state_root = v])
                                        /\ Fits(l, [b EXCEPT !.header.extrinsics_root = v])
           /\ \A v \in Nat : Fits(l, [b EXCEPT !.header.consensus_digest = v])
           /\ \A v : ~ HeadersOnly(l) => Fits(l, [b EXCEPT !.body = v])
<1>1. PICK parent, height, state, extrinsics, digest, body :
         b = [header |-> Header(parent, height, state, extrinsics, digest), body |-> body]
  BY DEF Fits
<1>2. /\ height \in Nat /\ MayBeRoot(l, state) /\ MayBeRoot(l, extrinsics)
      /\ ProofOfWork(l) => digest \in Nat
      /\ HeadersOnly(l) => body = <<>>
  BY <1>1 DEF Fits, Header, MayBeRoot
<1>3. ASSUME NEW p, NEW h \in Nat, NEW s, NEW e, NEW d, NEW y,
             MayBeRoot(l, s), MayBeRoot(l, e), ProofOfWork(l) => d \in Nat,
             HeadersOnly(l) => y = <<>>
      PROVE  Fits(l, [header |-> Header(p, h, s, e, d), body |-> y])
  BY <1>3 DEF Fits, Header, MayBeRoot
<1>4. ASSUME NEW v PROVE Fits(l, [b EXCEPT !.header.parent = v])
  <2>1. [b EXCEPT !.header.parent = v] = [header |-> Header(v, height, state, extrinsics, digest), body |-> body]
    BY <1>1 DEF Header
  <2>. QED
    BY <1>2, <1>3, <1>4, <2>1
<1>5. ASSUME NEW v \in Nat PROVE Fits(l, [b EXCEPT !.header.height = v])
  <2>1. [b EXCEPT !.header.height = v] = [header |-> Header(parent, v, state, extrinsics, digest), body |-> body]
    BY <1>1 DEF Header
  <2>. QED
    BY <1>2, <1>3, <1>5, <2>1
<1>6. ASSUME NEW v, MayBeRoot(l, v) PROVE Fits(l, [b EXCEPT !.header.state_root = v])
  <2>1. [b EXCEPT !.header.state_root = v] = [header |-> Header(parent, height, v, extrinsics, digest), body |-> body]
    BY <1>1 DEF Header
  <2>. QED
    BY <1>2, <1>3, <1>6, <2>1
<1>7. ASSUME NEW v, MayBeRoot(l, v) PROVE Fits(l, [b EXCEPT !.header.extrinsics_root = v])
  <2>1. [b EXCEPT !.header.extrinsics_root = v] = [header |-> Header(parent, height, state, v, digest), body |-> body]
    BY <1>1 DEF Header
  <2>. QED
    BY <1>2, <1>3, <1>7, <2>1
<1>8. ASSUME NEW v \in Nat PROVE Fits(l, [b EXCEPT !.header.consensus_digest = v])
  <2>1. [b EXCEPT !.header.consensus_digest = v] = [header |-> Header(parent, height, state, extrinsics, v), body |-> body]
    BY <1>1 DEF Header
  <2>. QED
    BY <1>2, <1>3, <1>8, <2>1
<1>9. ASSUME NEW v, ~ HeadersOnly(l) PROVE Fits(l, [b EXCEPT !.body = v])
  <2>1. [b EXCEPT !.body = v] = [header |-> Header(parent, height, state, extrinsics, digest), body |-> v]
    BY <1>1 DEF Header
  <2>. QED
    BY <1>2, <1>3, <1>9, <2>1
<1>. QED
  BY <1>4, <1>5, <1>6, <1>7, <1>8, <1>9

\* The loop makes blocks of the lesson from blocks of the lesson.
KeepsFitting(l, kind, x, n) ==
    \A b : Fits(l, b) => \A i \in 1..n : Fits(l, Offspring(kind, x, b, i))

LEMMA GrownIsChain ==
    ASSUME NEW l, NEW kind, NEW x, NEW first, Fits(l, first), NEW n \in Nat, NEW c,
           Grows(c, kind, x, first, n), KeepsFitting(l, kind, x, n)
    PROVE  IsChain(l, <<first>> \o c)
<1>. DEFINE fit == {k \in Nat : k \in 1..n => Fits(l, c[k])}
<1>1. 0 \in fit
  OBVIOUS
<1>2. ASSUME NEW k \in Nat, k \in fit PROVE k + 1 \in fit
  <2>. SUFFICES ASSUME k + 1 \in 1..n PROVE Fits(l, c[k + 1])
    OBVIOUS
  <2>1. PICK b : b = IF k + 1 = 1 THEN first ELSE c[(k + 1) - 1]
    OBVIOUS
  <2>2. c[k + 1] = Offspring(kind, x, b, k + 1)
    BY <2>1 DEF Grows
  <2>3. Fits(l, b)
    <3>1. CASE k = 0
      BY <2>1, <3>1
    <3>2. CASE k # 0
      <4>1. k \in 1..n /\ (k + 1) - 1 = k /\ k + 1 # 1
        BY <3>2
      <4>. QED
        BY <1>2, <2>1, <4>1
    <3>. QED
      BY <3>1, <3>2
  <2>. QED
    BY <2>2, <2>3 DEF KeepsFitting
<1>. HIDE DEF fit
<1>3. \A k \in Nat : k \in fit
  BY <1>1, <1>2, CountingUp
<1>4. \A k \in 1..n : Fits(l, c[k])
  BY <1>3 DEF fit
<1>5. PICK S : S = {first} \cup {c[k] : k \in 1..n}
  OBVIOUS
<1>6. c \in Seq(S) /\ Len(c) = n
  <2>1. c = [k \in 1..n |-> c[k]] /\ \A k \in 1..n : c[k] \in S
    BY <1>5 DEF Grows
  <2>. QED
    BY <2>1
<1>7. first \in S
  BY <1>5
<1>8. /\ <<first>> \o c \in Seq(S) /\ Len(<<first>> \o c) = n + 1
      /\ \A k \in 1..n + 1 : (<<first>> \o c)[k] = IF k = 1 THEN first ELSE c[k - 1]
  BY <1>6, <1>7
<1>9. \A k \in 1..n + 1 : k # 1 => k - 1 \in 1..n
  OBVIOUS
<1>. QED
  BY <1>4, <1>8, <1>9 DEF IsChain

LEMMA HeadersKeepFitting ==
    /\ KeepsFitting("header_chain", "header", 0, 4)
    /\ KeepsFitting("header_chain", "wrong header", 0, 4)
<1>. SUFFICES ASSUME NEW b, Fits("header_chain", b), NEW i \in 1..4
              PROVE  /\ Fits("header_chain", Offspring("header", 0, b, i))
                     /\ Fits("header_chain", Offspring("wrong header", 0, b, i))
  BY DEF KeepsFitting
<1>1. PICK c : c = ChildOf("header_chain", b, Unit, <<>>, 0)
  OBVIOUS
<1>2. "header_chain" \in LessonNames /\ Fitting("header_chain", <<>>)
  BY DEF LessonNames, Fitting
<1>3. Fits("header_chain", c)
  BY <1>1, <1>2, ChildFits
<1>4. c.header.height + 700 \in Nat
  BY <1>3 DEF Fits
<1>5. Fits("header_chain", [c EXCEPT !.header.height = c.header.height + 700])
  BY <1>2, <1>3, <1>4, AlteredFits
<1>. QED
  BY <1>1, <1>3, <1>5 DEF Offspring

LEMMA AddersKeepFitting ==
    ASSUME NEW x \in Nat, NEW n \in Nat
    PROVE  /\ KeepsFitting("extrinsic_state", "adder", x, n)
           /\ KeepsFitting("extrinsic_state", "wrong adder", 0, n)
<1>. SUFFICES ASSUME NEW b, Fits("extrinsic_state", b), NEW i \in 1..n
              PROVE  /\ Fits("extrinsic_state", Offspring("adder", x, b, i))
                     /\ Fits("extrinsic_state", Offspring("wrong adder", 0, b, i))
  BY DEF KeepsFitting
<1>1. x % Word \in Nat /\ 3 % Word \in Nat
  BY LessonAssumption, RestOf
<1>2. /\ "extrinsic_state" \in LessonNames
      /\ Fitting("extrinsic_state", <<x % Word>>) /\ Fitting("extrinsic_state", <<3 % Word>>)
  BY <1>1 DEF LessonNames, Fitting
<1>3. PICK c : c = ChildOf("extrinsic_state", b, 0, <<3 % Word>>, 0)
  OBVIOUS
<1>4. Fits("extrinsic_state", ChildOf("extrinsic_state", b, 0, <<x % Word>>, 0)) /\ Fits("extrinsic_state", c)
  BY <1>2, <1>3, ChildFits
<1>5. MayBeRoot("extrinsic_state", Add(c.header.state_root, 14))
  <2>1. c.header.state_root \in Nat
    BY <1>4 DEF Fits
  <2>. QED
    BY <2>1, AddIsNat DEF MayBeRoot
<1>6. Fits("extrinsic_state", [c EXCEPT !.header.state_root = Add(c.header.state_root, 14)])
  BY <1>2, <1>4, <1>5, AlteredFits
<1>. QED
  BY <1>3, <1>4, <1>6 DEF Offspring

LEMMA WorkersKeepFitting ==
    ASSUME NEW n \in Nat, NEW drawn \in [1..n -> Extrinsics \X Nonces]
    PROVE  KeepsFitting("consensus", "worker", drawn, n)
<1>. SUFFICES ASSUME NEW b, Fits("consensus", b), NEW i \in 1..n
              PROVE  Fits("consensus", Offspring("worker", drawn, b, i))
  BY DEF KeepsFitting
<1>1. drawn[i][1] \in Nat /\ drawn[i][2] \in Nat
  <2>1. drawn[i] \in Extrinsics \X Nonces
    OBVIOUS
  <2>2. Extrinsics \subseteq Nat /\ Nonces \subseteq Nat
    BY LessonAssumption
  <2>. QED
    BY <2>1, <2>2
<1>2. "consensus" \in LessonNames /\ Fitting("consensus", <<drawn[i][1]>>)
  BY <1>1 DEF LessonNames, Fitting
<1>3. Fits("consensus", ChildOf("consensus", b, 0, <<drawn[i][1]>>, drawn[i][2]))
  BY <1>1, <1>2, ChildFits
<1>. QED
  BY <1>3 DEF Offspring

\* A list of fitting blocks, at least one.
LEMMA BlocksAreChain ==
    ASSUME NEW l, NEW n \in Nat, n >= 1, NEW c, c = [i \in 1..n |-> c[i]],
           \A i \in 1..n : Fits(l, c[i])
    PROVE  IsChain(l, c)
<1>1. PICK S : S = {c[i] : i \in 1..n}
  OBVIOUS
<1>2. c \in Seq(S) /\ Len(c) = n
  <2>1. \A i \in 1..n : c[i] \in S
    BY <1>1
  <2>. QED
    BY <2>1
<1>. QED
  BY <1>2 DEF IsChain

LEMMA BuiltIsChain ==
    ASSUME NEW l \in LessonNames, NEW s \in StartStates(l), NEW c,
           c \in {<<GenesisOf(l, s)>>} \cup BuiltChains(l, s)
    PROVE  IsChain(l, c)
<1>1. /\ l = "header_chain" => s = Unit
      /\ l \in {"extrinsic_state", "consensus"} => s \in Nat
  BY LessonAssumption DEF SumInHeader
<1>2. Fits(l, GenesisOf(l, s))
  BY <1>1, GenesisFits
<1>3. CASE c = <<GenesisOf(l, s)>>
  <2>1. PICK g : g = GenesisOf(l, s)
    OBVIOUS
  <2>2. c \in Seq({g}) /\ Len(c) = 1 /\ c[1] = g
    BY <1>3, <2>1
  <2>. QED
    BY <1>2, <2>1, <2>2 DEF IsChain
<1>4. CASE l = "header_chain" /\ c \in BuiltChains(l, s)
  <2>1. c \in {ValidHeaderChain, InvalidHeaderChain}
    BY <1>4 DEF BuiltChains
  <2>. QED
    BY <1>1, <1>2, <1>4, <2>1, HeadersGrow, HeadersKeepFitting, GrownIsChain
<1>. DEFINE zero == GenesisOf("extrinsic_state", 0)
            coin == GenesisOf("consensus", 0)
<1>5. Fits("extrinsic_state", zero) /\ Fits("consensus", coin)
  BY GenesisFits DEF LessonNames
<1>. HIDE DEF zero, coin
<1>6. CASE l = "extrinsic_state" /\ c \in BuiltChains(l, s)
  <2>1. c = InvalidAdderChain \/ \E n \in BuiltLengths : c = ValidAdderChain(n)
    BY <1>6 DEF BuiltChains
  <2>2. CASE c = InvalidAdderChain
    <3>1. PICK d : Grows(d, "wrong adder", 0, zero, 4) /\ c = <<zero>> \o d
      BY <2>2, WrongAddersGrow DEF zero
    <3>. QED
      BY <1>5, <1>6, <3>1, AddersKeepFitting, GrownIsChain
  <2>3. ASSUME NEW n \in BuiltLengths, c = ValidAdderChain(n) PROVE IsChain(l, c)
    <3>1. n \in Nat
      BY LessonAssumption
    <3>2. c = <<zero>> \o AddersOn(zero, n, 3)
      BY <2>3 DEF ValidAdderChain, zero
    <3>3. Grows(AddersOn(zero, n, 3), "adder", 3, zero, n)
      BY <3>1, AddersGrow
    <3>4. KeepsFitting("extrinsic_state", "adder", 3, n)
      BY <3>1, AddersKeepFitting
    <3>. QED
      BY <1>5, <1>6, <3>1, <3>2, <3>3, <3>4, GrownIsChain
  <2>. QED
    BY <2>1, <2>2, <2>3
<1>7. CASE l = "consensus" /\ c \in BuiltChains(l, s)
  <2>1. PICK n \in BuiltLengths : c \in ValidWorkChains(n, Extrinsics, Nonces)
    BY <1>7 DEF BuiltChains
  <2>2. n \in Nat
    BY LessonAssumption
  <2>3. PICK d, drawn : /\ drawn \in [1..n -> Extrinsics \X Nonces]
                        /\ Grows(d, "worker", drawn, coin, n)
                        /\ c = <<coin>> \o d
    BY <2>1, <2>2, WorkersGrow DEF coin
  <2>. QED
    BY <1>5, <1>7, <2>2, <2>3, WorkersKeepFitting, GrownIsChain
<1>8. CASE l = "client" /\ c \in BuiltChains(l, s)
  <2>1. PICK n \in BuiltLengths : c = CreateEmptyChain(n, s)
    BY <1>8 DEF BuiltChains
  <2>2. PICK m \in Nat : m = (IF n > 1 THEN n ELSE 1) /\ m >= 1
    BY LessonAssumption
  <2>3. Genesis(s) = GenesisOf("client", s) /\ Child(Genesis(s), s, <<>>) = ChildOf("client", Genesis(s), s, <<>>, 0)
    BY DEF Genesis, GenesisOf, ChildOf, StateField, ExtrinsicsField, HeadersOnly, ProofOfWork
  <2>4. Fitting("client", <<>>) /\ "client" \in LessonNames
    BY DEF Fitting, LessonNames
  <2>5. Fits("client", Genesis(s)) /\ Fits("client", Child(Genesis(s), s, <<>>))
    BY <1>2, <1>8, <2>3, <2>4, ChildFits
  <2>6. c = [i \in 1..m |-> IF i = 1 THEN Genesis(s) ELSE Child(Genesis(s), s, <<>>)]
    BY <2>1, <2>2 DEF CreateEmptyChain
  <2>7. c = [i \in 1..m |-> c[i]] /\ \A i \in 1..m : c[i] \in {Genesis(s), Child(Genesis(s), s, <<>>)}
    BY <2>6
  <2>8. \A i \in 1..m : Fits("client", c[i])
    BY <2>5, <2>7
  <2>. QED
    BY <1>8, <2>2, <2>7, <2>8, BlocksAreChain
<1>. QED
  BY <1>3, <1>4, <1>6, <1>7, <1>8 DEF BuiltChains, LessonNames

LEMMA ChainOver ==
    ASSUME NEW l, NEW c, IsChain(l, c)
    PROVE  \E S : c \in Seq(S) /\ \A v \in S : Fits(l, v)
<1>1. PICK T : c \in Seq(T)
  BY DEF IsChain
<1>2. PICK S : S = {c[i] : i \in 1..Len(c)}
  OBVIOUS
<1>3. c \in Seq(S)
  <2>1. c = [i \in 1..Len(c) |-> c[i]] /\ Len(c) \in Nat
    BY <1>1
  <2>2. \A i \in 1..Len(c) : c[i] \in S
    BY <1>2
  <2>. QED
    BY <2>1, <2>2
<1>. QED
  BY <1>2, <1>3 DEF IsChain

LEMMA OverIsChain ==
    ASSUME NEW l, NEW S, \A v \in S : Fits(l, v), NEW c \in Seq(S), Len(c) >= 1
    PROVE  IsChain(l, c)
<1>1. \A i \in 1..Len(c) : c[i] \in S
  OBVIOUS
<1>. QED
  BY <1>1 DEF IsChain

LEMMA ChangedIsChain ==
    ASSUME NEW l, NEW c, IsChain(l, c), NEW b, Fits(l, b)
    PROVE  /\ IsChain(l, Append(c, b))
           /\ \A i \in 2..Len(c) : /\ IsChain(l, [c EXCEPT ![i] = b])
                                   /\ IsChain(l, RemoveAt(c, i))
                                   /\ IsChain(l, InsertAt(c, i, c[i]))
           /\ \A i \in 2..Len(c) :
                 i < Len(c) => IsChain(l, [c EXCEPT ![i] = c[i + 1], ![i + 1] = c[i]])
<1>1. PICK T : c \in Seq(T) /\ \A v \in T : Fits(l, v)
  BY ChainOver
<1>2. PICK S : S = T \cup {b}
  OBVIOUS
<1>3. /\ c \in Seq(S) /\ b \in S /\ \A v \in S : Fits(l, v)
      /\ Len(c) \in Nat /\ Len(c) >= 1
  <2>1. c = [i \in 1..Len(c) |-> c[i]] /\ Len(c) \in Nat /\ \A i \in 1..Len(c) : c[i] \in S
    BY <1>1, <1>2
  <2>. QED
    BY <1>1, <1>2, <2>1 DEF IsChain
<1>4. IsChain(l, Append(c, b))
  <2>1. PICK d : d = Append(c, b)
    OBVIOUS
  <2>2. d \in Seq(S) /\ Len(d) >= 1
    BY <1>3, <2>1
  <2>. QED
    BY <1>3, <2>1, <2>2, OverIsChain
<1>5. ASSUME NEW i \in 2..Len(c) PROVE IsChain(l, [c EXCEPT ![i] = b])
  <2>1. [c EXCEPT ![i] = b] \in Seq(S) /\ Len([c EXCEPT ![i] = b]) = Len(c)
    BY <1>3
  <2>. QED
    BY <1>3, <2>1, OverIsChain
<1>6. ASSUME NEW i \in 2..Len(c), i < Len(c)
      PROVE  IsChain(l, [c EXCEPT ![i] = c[i + 1], ![i + 1] = c[i]])
  <2>. DEFINE d == [c EXCEPT ![i] = c[i + 1], ![i + 1] = c[i]]
  <2>1. d \in Seq(S) /\ Len(d) = Len(c)
    BY <1>3, <1>6
  <2>. QED
    BY <1>3, <2>1, OverIsChain
<1>7. ASSUME NEW i \in 2..Len(c)
      PROVE  IsChain(l, RemoveAt(c, i)) /\ IsChain(l, InsertAt(c, i, c[i]))
  <2>1. /\ SubSeq(c, 1, i - 1) \in Seq(S) /\ Len(SubSeq(c, 1, i - 1)) = i - 1
        /\ SubSeq(c, i + 1, Len(c)) \in Seq(S)
        /\ SubSeq(c, i, Len(c)) \in Seq(S)
        /\ <<c[i]>> \in Seq(S)
    <3>1. c[i] \in S
      BY <1>3
    <3>. QED
      BY <1>3, <3>1, SubSeqProperties
  <2>2. /\ RemoveAt(c, i) \in Seq(S) /\ Len(RemoveAt(c, i)) >= 1
        /\ InsertAt(c, i, c[i]) \in Seq(S) /\ Len(InsertAt(c, i, c[i])) >= 1
    BY <1>3, <2>1 DEF RemoveAt, InsertAt
  <2>. QED
    BY <1>3, <2>2, OverIsChain
<1>. QED
  BY <1>4, <1>5, <1>6, <1>7

-----------------------------------------------------------------------------
(* The invariant *)

\* Whatever happened to it, the chain is one of its lesson's.
Shaped == lesson \in LessonNames /\ IsChain(lesson, chain)

LEMMA InitShaped == ChainsInit => Shaped
BY BuiltIsChain DEF ChainsInit, Shaped

\* Batches may be put in a block, and their field in its header.
LEMMA BatchesFit ==
    ASSUME NEW xs \in Batches
    PROVE  Fitting(lesson, xs) /\ MayBeRoot(lesson, ExtrinsicsField(lesson, xs))
<1>1. CASE lesson \in {"extrinsic_state", "consensus"}
  <2>1. PICK x \in Extrinsics : xs = <<x>>
    BY <1>1 DEF Batches, HeadersOnly
  <2>2. x \in Nat
    BY LessonAssumption
  <2>3. Fitting(lesson, xs)
    BY <2>1, <2>2 DEF Fitting
  <2>4. ExtrinsicsField(lesson, xs) = x /\ lesson # "header_chain"
    BY <1>1, <2>1 DEF ExtrinsicsField, HeadersOnly
  <2>. QED
    BY <2>2, <2>3, <2>4 DEF MayBeRoot
<1>2. CASE lesson \notin {"extrinsic_state", "consensus"}
  BY <1>2 DEF Fitting, MayBeRoot, ExtrinsicsField, HeadersOnly
<1>. QED
  BY <1>1, <1>2

LEMMA AlteredStaysFit ==
    ASSUME Shaped, NEW i \in 2..Len(chain), NEW b \in Altered(chain[i])
    PROVE  Fits(lesson, b)
<1>1. PICK c : c = chain[i]
  OBVIOUS
<1>2. Fits(lesson, c) /\ lesson \in LessonNames
  BY <1>1 DEF Shaped, IsChain
<1>3. ASSUME NEW o \in {chain[j].header : j \in DOMAIN chain} PROVE MayBeRoot(lesson, o.state_root)
  <2>1. PICK j \in DOMAIN chain : o = chain[j].header
    OBVIOUS
  <2>2. Fits(lesson, chain[j])
    <3>1. j \in 1..Len(chain)
      BY DEF Shaped, IsChain
    <3>. QED
      BY <3>1 DEF Shaped, IsChain
  <2>. QED
    BY <2>1, <2>2 DEF Fits, MayBeRoot
<1>. DEFINE others == {chain[j].header : j \in DOMAIN chain}
<1>4. \/ \E o \in others : b = [c EXCEPT !.header.parent = HashHeader(o)]
      \/ \E n \in Nat : b = [c EXCEPT !.header.height = n]
      \/ \E o \in others : b = [c EXCEPT !.header.state_root = o.state_root]
      \/ \E xs \in Batches : b = [c EXCEPT !.header.extrinsics_root = ExtrinsicsField(lesson, xs)]
      \/ \E n \in Nonces : b = [c EXCEPT !.header.consensus_digest = n]
      \/ ~ HeadersOnly(lesson) /\ \E xs \in Batches : b = [c EXCEPT !.body = xs]
  BY <1>1 DEF Altered
<1>5. Nonces \subseteq Nat
  BY LessonAssumption
<1>6. ASSUME NEW o \in others, b = [c EXCEPT !.header.state_root = o.state_root]
      PROVE  Fits(lesson, b)
  BY <1>2, <1>3, <1>6, AlteredFits
<1>7. ASSUME NEW xs \in Batches, b = [c EXCEPT !.header.extrinsics_root = ExtrinsicsField(lesson, xs)]
      PROVE  Fits(lesson, b)
  <2>1. MayBeRoot(lesson, ExtrinsicsField(lesson, xs))
    BY BatchesFit
  <2>. QED
    BY <1>2, <1>7, <2>1, AlteredFits
<1>8. ASSUME NEW o \in others, b = [c EXCEPT !.header.parent = HashHeader(o)]
      PROVE  Fits(lesson, b)
  BY <1>2, <1>8, AlteredFits
<1>9. ASSUME NEW n \in Nat, \/ b = [c EXCEPT !.header.height = n]
                           \/ b = [c EXCEPT !.header.consensus_digest = n]
      PROVE  Fits(lesson, b)
  BY <1>2, <1>9, AlteredFits
<1>10. ASSUME ~ HeadersOnly(lesson), NEW xs \in Batches, b = [c EXCEPT !.body = xs]
       PROVE  Fits(lesson, b)
  BY <1>2, <1>10, AlteredFits
<1>. HIDE DEF others
<1>. QED
  BY <1>4, <1>5, <1>6, <1>7, <1>8, <1>9, <1>10

LEMMA NextShaped == Shaped /\ [ChainsNext]_chainsVars => Shaped'
<1>. SUFFICES ASSUME Shaped, [ChainsNext]_chainsVars PROVE Shaped'
  OBVIOUS
<1>0. lesson \in LessonNames /\ IsChain(lesson, chain)
  BY DEF Shaped
<1>1. ASSUME NEW xs \in Batches, NEW n \in Nonces, Grow(xs, n) PROVE Shaped'
  <2>1. Last(chain) = chain[Len(chain)] /\ Len(chain) \in 1..Len(chain)
    BY <1>0 DEF Last, IsChain
  <2>2. Fits(lesson, Last(chain))
    BY <1>0, <2>1 DEF IsChain
  <2>3. n \in Nat /\ Fitting(lesson, xs)
    BY LessonAssumption, BatchesFit
  <2>4. PICK b : b = ChildOf(lesson, Last(chain), StateAt(Len(chain)), xs, n)
    OBVIOUS
  <2>5. Fits(lesson, b)
    BY <1>0, <2>2, <2>3, <2>4, ChildFits
  <2>6. chain' = Append(chain, b) /\ lesson' = lesson
    BY <1>1, <2>4 DEF Grow
  <2>. QED
    BY <1>0, <2>5, <2>6, ChangedIsChain DEF Shaped
<1>2. CASE Change
  <2>1. lesson' = lesson
    BY <1>2 DEF Change
  <2>2. PICK i \in 2..Len(chain) :
          \/ \E b \in Altered(chain[i]) : chain' = [chain EXCEPT ![i] = b]
          \/ chain' = RemoveAt(chain, i)
          \/ chain' = InsertAt(chain, i, chain[i])
          \/ i < Len(chain) /\ chain' = [chain EXCEPT ![i] = chain[i + 1], ![i + 1] = chain[i]]
    BY <1>2 DEF Change
  <2>3. Fits(lesson, chain[i])
    BY <1>0 DEF IsChain
  <2>4. ASSUME NEW b \in Altered(chain[i]), chain' = [chain EXCEPT ![i] = b]
        PROVE  IsChain(lesson, chain')
    <3>1. Fits(lesson, b)
      BY AlteredStaysFit
    <3>. QED
      BY <1>0, <2>4, <3>1, ChangedIsChain
  <2>5. ASSUME chain' = RemoveAt(chain, i) \/ chain' = InsertAt(chain, i, chain[i])
        PROVE  IsChain(lesson, chain')
    <3>1. PICK l, c, b : l = lesson /\ c = chain /\ b = chain[i]
      OBVIOUS
    <3>2. IsChain(l, RemoveAt(c, i)) /\ IsChain(l, InsertAt(c, i, b))
      BY <1>0, <2>3, <3>1, ChangedIsChain
    <3>. QED
      BY <2>5, <3>1, <3>2
  <2>6. ASSUME i < Len(chain), chain' = [chain EXCEPT ![i] = chain[i + 1], ![i + 1] = chain[i]]
        PROVE  IsChain(lesson, chain')
    BY <1>0, <2>3, <2>6, ChangedIsChain
  <2>7. IsChain(lesson, chain')
    BY <2>2, <2>4, <2>5, <2>6
  <2>. QED
    BY <1>0, <2>1, <2>7 DEF Shaped
<1>3. CASE UNCHANGED chainsVars
  BY <1>3 DEF chainsVars, Shaped
<1>. QED
  BY <1>1, <1>2, <1>3 DEF ChainsNext

\* Whatever is built, grown and changed, the chain is one or more blocks of the shape of
\* its lesson (Header, Block and child of every lesson).
THEOREM AlwaysShaped == ChainsSpec => []Shaped
BY InitShaped, NextShaped, PTL DEF ChainsSpec

-----------------------------------------------------------------------------
(* What verification promises *)

\* Verification composes (verify_sub_chain of every lesson): a chain verifies as a whole
\* exactly if it does up to any block and from there, with the state that the first part
\* leaves.
THEOREM VerificationComposes == ChainsSpec => []VerifiesPiecewise
<1>1. Shaped => VerifiesPiecewise
  <2>. SUFFICES ASSUME Shaped, NEW k \in 1..Len(chain)
                PROVE  Whole <=> /\ Verifies(lesson, chain[1], start, SubSeq(chain, 2, k))
                                 /\ Verifies(lesson, chain[k], StateAt(k), SubSeq(chain, k + 1, Len(chain)))
    BY DEF VerifiesPiecewise
  <2>1. lesson \in LessonNames /\ \E S : chain \in Seq(S)
    BY DEF Shaped, IsChain
  <2>. QED
    BY <2>1, VerifiesInParts DEF Whole, StateAt
<1>. QED
  BY <1>1, AlwaysShaped, PTL

\* The extrinsics of a block, as ExtrinsicsOf has them for the lesson at hand.
Carried(l, b) == IF l = "header_chain" THEN <<>>
                 ELSE IF HeadersOnly(l) THEN <<b.header.extrinsics_root>>
                 ELSE b.body

\* c is what child makes of b and the state t, as Built has it,
IsChildOf(l, b, t, c) ==
    LET d == ChildOf(l, b, t, Carried(l, c), c.header.consensus_digest)
    IN /\ Sealed(l, c)
       /\ c = [d EXCEPT !.header.consensus_digest = c.header.consensus_digest]

\* and as BuiltUpToState has it.
IsChildUpToState(l, b, t, c) ==
    LET d == ChildOf(l, b, t, Carried(l, c), c.header.consensus_digest)
    IN /\ Sealed(l, c)
       /\ c = [d EXCEPT !.header.consensus_digest = c.header.consensus_digest,
                        !.header.state_root = c.header.state_root]

\* verify_sub_chain accepts a block after another exactly if child could have built it,
\* in lesson 4 but for the state.
LEMMA AcceptsChildren ==
    ASSUME NEW l \in LessonNames, NEW b, NEW t, NEW c, Fits(l, c)
    PROVE  /\ IsChildOf(l, b, t, c) => Accepts(l, b, t, c)
           /\ Accepts(l, b, t, c) => IF l = "batched_extrinsics"
                                     THEN IsChildUpToState(l, b, t, c)
                                     ELSE IsChildOf(l, b, t, c)
<1>. DEFINE xs == Carried(l, c)
            state == Executed(l, PreState(l, b, t), xs)
            digest == IF ProofOfWork(l) THEN c.header.consensus_digest ELSE DefaultDigest
<1>1. PICK parent, height, root, extrinsics, seal, body :
         c = [header |-> Header(parent, height, root, extrinsics, seal), body |-> body]
  BY DEF Fits
<1>2. PICK d : d = ChildOf(l, b, t, Carried(l, c), c.header.consensus_digest)
  OBVIOUS
<1>3. d = [header |-> Header(HashHeader(b.header), b.header.height + 1, StateField(l, state),
                             ExtrinsicsField(l, xs), digest),
           body |-> IF HeadersOnly(l) THEN <<>> ELSE xs]
  BY <1>2, ChildHas
<1>. HIDE DEF xs, state, digest
<1>4. [d EXCEPT !.header.consensus_digest = seal]
        = [header |-> Header(HashHeader(b.header), b.header.height + 1, StateField(l, state),
                             ExtrinsicsField(l, xs), seal),
           body |-> IF HeadersOnly(l) THEN <<>> ELSE xs]
  BY <1>3 DEF Header
<1>9. [d EXCEPT !.header.consensus_digest = seal, !.header.state_root = root]
        = [header |-> Header(HashHeader(b.header), b.header.height + 1, root,
                             ExtrinsicsField(l, xs), seal),
           body |-> IF HeadersOnly(l) THEN <<>> ELSE xs]
  <2>1. PICK e : e = [d EXCEPT !.header.consensus_digest = seal]
    OBVIOUS
  <2>2. [d EXCEPT !.header.consensus_digest = seal, !.header.state_root = root]
          = [e EXCEPT !.header.state_root = root]
    BY <2>1
  <2>3. [e EXCEPT !.header.state_root = root]
        = [header |-> Header(HashHeader(b.header), b.header.height + 1, root,
                             ExtrinsicsField(l, xs), seal),
           body |-> IF HeadersOnly(l) THEN <<>> ELSE xs]
    <3>1. e = [header |-> Header(HashHeader(b.header), b.header.height + 1, StateField(l, state),
                                 ExtrinsicsField(l, xs), seal),
               body |-> IF HeadersOnly(l) THEN <<>> ELSE xs]
      BY <1>4, <2>1
    <3>. QED
      BY <3>1 DEF Header
  <2>. QED
    BY <2>2, <2>3
<1>5. /\ c.header.parent = parent /\ c.header.height = height /\ c.header.state_root = root
      /\ c.header.extrinsics_root = extrinsics /\ c.header.consensus_digest = seal
      /\ c.body = body
  BY <1>1 DEF Header
<1>. DEFINE Stands == root = StateField(l, state)
            Same == /\ parent = HashHeader(b.header) /\ height = b.header.height + 1
                    /\ extrinsics = ExtrinsicsField(l, xs)
                    /\ body = IF HeadersOnly(l) THEN <<>> ELSE xs
<1>6. IsChildOf(l, b, t, c) <=> Sealed(l, c) /\ Same /\ Stands
  BY <1>1, <1>2, <1>4, <1>5 DEF IsChildOf, Header
<1>7. IsChildUpToState(l, b, t, c) <=> Sealed(l, c) /\ Same
  <2>1. IsChildUpToState(l, b, t, c)
          <=> Sealed(l, c) /\ c = [d EXCEPT !.header.consensus_digest = seal, !.header.state_root = root]
    <3>1. IsChildUpToState(l, b, t, c)
            <=> Sealed(l, c) /\ c = [d EXCEPT !.header.consensus_digest = c.header.consensus_digest,
                                              !.header.state_root = c.header.state_root]
      BY <1>2 DEF IsChildUpToState
    <3>. QED
      BY <1>5, <3>1, Zenon
  <2>2. PICK h, bs : /\ h = Header(HashHeader(b.header), b.header.height + 1, root,
                                   ExtrinsicsField(l, xs), seal)
                     /\ bs = IF HeadersOnly(l) THEN <<>> ELSE xs
    OBVIOUS
  <2>3. c = [header |-> h, body |-> bs] <=> Header(parent, height, root, extrinsics, seal) = h /\ body = bs
    BY <1>1
  <2>4. Header(parent, height, root, extrinsics, seal) = h
          <=> /\ parent = HashHeader(b.header) /\ height = b.header.height + 1
              /\ extrinsics = ExtrinsicsField(l, xs)
    BY <2>2 DEF Header
  <2>. QED
    BY <1>9, <2>1, <2>2, <2>3, <2>4
<1>8. Accepts(l, b, t, c) <=> Sealed(l, c) /\ Same /\ (l = "batched_extrinsics" \/ Stands)
  <2>1. CASE l = "header_chain"
    <3>1. root = Unit /\ extrinsics = Unit /\ body = <<>>
      BY <1>5, <2>1 DEF Fits, HeadersOnly
    <3>2. StateField(l, state) = Unit /\ ExtrinsicsField(l, xs) = Unit
      BY <2>1 DEF StateField, ExtrinsicsField, state, Executed, SumInHeader, HeadersOnly
    <3>. QED
      BY <1>5, <2>1, <3>1, <3>2 DEF Accepts, VerifyChild, HeadersOnly
  <2>2. CASE l \in {"extrinsic_state", "consensus"}
    <3>1. body = <<>> /\ HeadersOnly(l)
      BY <1>5, <2>2 DEF Fits, HeadersOnly
    <3>2. xs = <<extrinsics>> /\ PreState(l, b, t) = b.header.state_root
      BY <1>5, <2>2 DEF xs, Carried, HeadersOnly, PreState, SumInHeader
    <3>3. state = Add(b.header.state_root, extrinsics)
      BY <2>2, <3>2, AddsOne DEF state, Executed, SumInHeader
    <3>4. StateField(l, state) = state /\ ExtrinsicsField(l, xs) = extrinsics
      BY <2>2, <3>2 DEF StateField, ExtrinsicsField, HeadersOnly
    <3>. QED
      BY <1>5, <2>2, <3>1, <3>3, <3>4 DEF Accepts, VerifyChild, HeadersOnly
  <2>3. CASE l \in {"batched_extrinsics", "rich_state", "client"}
    <3>1. xs = body /\ ~ HeadersOnly(l)
      BY <1>5, <2>3 DEF xs, Carried, HeadersOnly
    <3>2. ExtrinsicsField(l, xs) = HashBody(body)
      BY <2>3, <3>1 DEF ExtrinsicsField, HeadersOnly
    <3>3. l # "batched_extrinsics" => StateField(l, state) = HashState(Executed(l, t, body))
      BY <2>3, <3>1 DEF StateField, state, PreState, SumInHeader
    <3>. QED
      BY <1>5, <2>3, <3>1, <3>2, <3>3 DEF Accepts, VerifyChild
  <2>. QED
    BY <2>1, <2>2, <2>3 DEF LessonNames
<1>. HIDE DEF Same, Stands
<1>. QED
  BY <1>6, <1>7, <1>8

\* Only what could have been built verifies (child and verify_sub_chain of every
\* lesson): what child built verifies, and a chain that verifies is one that child could
\* have built on its first block, in lesson 4 but for the states in the headers, whatever
\* was changed, left out, repeated, swapped or built on top of it.
THEOREM OnlyBuiltVerifies == ChainsSpec => []VerifiesIffBuilt
<1>1. Shaped => VerifiesIffBuilt
  <2>. SUFFICES ASSUME Shaped PROVE VerifiesIffBuilt
    OBVIOUS
  <2>1. lesson \in LessonNames /\ IsChain(lesson, chain)
    BY DEF Shaped
  <2>2. PICK S : chain \in Seq(S)
    BY <2>1 DEF IsChain
  <2>3. Len(chain) \in Nat /\ Len(chain) >= 1 /\ 1 \in 1..Len(chain) /\ Len(chain) \in 1..Len(chain)
    BY <2>1, <2>2 DEF IsChain
  <2>4. Verifies(lesson, chain[1], StateUpTo(lesson, start, Tail(chain), 1 - 1), SubSeq(chain, 1 + 1, Len(chain)))
          <=> \A i \in 1 + 1..Len(chain) :
                 Accepts(lesson, chain[i - 1], StateUpTo(lesson, start, Tail(chain), i - 2), chain[i])
    BY <2>1, <2>2, <2>3, VerifiesFrom
  <2>5. StateUpTo(lesson, start, Tail(chain), 1 - 1) = start /\ 1 + 1 = 2
    <3>1. 1 - 1 = 0
      OBVIOUS
    <3>. QED
      BY <3>1, StateUpToNone
  <2>6. Tail(chain) = SubSeq(chain, 2, Len(chain))
    BY <2>2, <2>3
  <2>7. ASSUME NEW i \in 2..Len(chain)
        PROVE  LET t == StateUpTo(lesson, start, Tail(chain), i - 2)
               IN /\ Built(i) => Accepts(lesson, chain[i - 1], t, chain[i])
                  /\ Accepts(lesson, chain[i - 1], t, chain[i]) =>
                       IF lesson = "batched_extrinsics" THEN BuiltUpToState(i) ELSE Built(i)
    <3>1. Fits(lesson, chain[i])
      BY <2>1 DEF IsChain
    <3>2. StateAt(i - 1) = StateUpTo(lesson, start, Tail(chain), i - 2)
      <4>1. (i - 1) - 1 = i - 2
        OBVIOUS
      <4>. QED
        BY <4>1 DEF StateAt
    <3>3. /\ Built(i) <=> IsChildOf(lesson, chain[i - 1], StateAt(i - 1), chain[i])
          /\ BuiltUpToState(i) <=> IsChildUpToState(lesson, chain[i - 1], StateAt(i - 1), chain[i])
      BY DEF Built, BuiltUpToState, Rebuilt, IsChildOf, IsChildUpToState, ExtrinsicsOf, Carried
    <3>. QED
      BY <2>1, <3>1, <3>2, <3>3, AcceptsChildren
  <2>. QED
    BY <2>4, <2>5, <2>6, <2>7 DEF VerifiesIffBuilt, Whole
<1>. QED
  BY <1>1, AlwaysShaped, PTL

-----------------------------------------------------------------------------
(* What is built on a chain *)

LEMMA TailFirst ==
    ASSUME NEW S, NEW c \in Seq(S), Len(c) >= 1, NEW d \in Seq(S)
    PROVE  Tail(c \o d) = Tail(c) \o d
<1>0. PICK k \in Nat : k = Len(c) /\ k >= 1
  OBVIOUS
<1>1. PICK e : e = c \o d /\ k = Len(c) /\ k >= 1
  BY <1>0
<1>2. e \in Seq(S) /\ Len(e) = k + Len(d)
  BY <1>1
<1>3. Tail(e) \in Seq(S) /\ Tail(c) \o d \in Seq(S) /\ Len(Tail(c)) = k - 1 /\ Len(d) \in Nat
  BY <1>1, <1>2
<1>4. Len(Tail(e)) = Len(Tail(c) \o d)
  BY <1>1, <1>2, <1>3
<1>5. \A i \in 1..Len(Tail(e)) : Tail(e)[i] = (Tail(c) \o d)[i]
  BY <1>1, <1>2, <1>3
<1>. QED
  BY <1>1, <1>3, <1>4, <1>5, SeqEqual

\* A chain that goes on with d verifies if it did, and d does after its last block.
LEMMA VerifiesOnwards ==
    ASSUME NEW l \in LessonNames, NEW S, NEW c \in Seq(S), Len(c) >= 1, NEW d \in Seq(S), NEW s
    PROVE  Verifies(l, c[1], s, Tail(c) \o d) <=>
             /\ Verifies(l, c[1], s, Tail(c))
             /\ Verifies(l, Last(c), StateUpTo(l, s, Tail(c) \o d, Len(c) - 1), d)
<1>1. PICK e : e = c \o d
  OBVIOUS
<1>2. PICK k \in Nat : k = Len(c) /\ k >= 1
  OBVIOUS
<1>3. /\ e \in Seq(S) /\ Len(e) = k + Len(d) /\ k \in 1..Len(e)
      /\ e[1] = c[1] /\ e[k] = Last(c)
  BY <1>1, <1>2 DEF Last
<1>4. Tail(e) = Tail(c) \o d
  BY <1>1, TailFirst
<1>5. SubSeq(e, 2, k) = Tail(c)
  <2>1. /\ SubSeq(e, 2, k) \in Seq(S) /\ Len(SubSeq(e, 2, k)) = k - 1
        /\ \A i \in 1..k - 1 : SubSeq(e, 2, k)[i] = e[i + 1]
    BY <1>2, <1>3
  <2>2. Tail(c) \in Seq(S) /\ Len(Tail(c)) = k - 1 /\ \A i \in 1..k - 1 : Tail(c)[i] = c[i + 1]
    BY <1>2
  <2>3. \A i \in 1..k - 1 : e[i + 1] = c[i + 1]
    BY <1>1, <1>2
  <2>. QED
    BY <2>1, <2>2, <2>3, SeqEqual
<1>6. SubSeq(e, k + 1, Len(e)) = d
  <2>1. Len(d) \in Nat
    OBVIOUS
  <2>2. /\ SubSeq(e, k + 1, Len(e)) \in Seq(S) /\ Len(SubSeq(e, k + 1, Len(e))) = Len(d)
        /\ \A i \in 1..Len(d) : SubSeq(e, k + 1, Len(e))[i] = e[k + i]
    BY <1>2, <1>3, <2>1, SubSeqProperties
  <2>3. \A i \in 1..Len(d) : e[k + i] = d[i]
    BY <1>1, <1>2, <2>1
  <2>. QED
    BY <2>2, <2>3, SeqEqual
<1>7. Verifies(l, e[1], s, Tail(e)) <=>
             /\ Verifies(l, e[1], s, SubSeq(e, 2, k))
             /\ Verifies(l, e[k], StateUpTo(l, s, Tail(e), k - 1), SubSeq(e, k + 1, Len(e)))
  BY <1>3, VerifiesInParts
<1>. QED
  BY <1>2, <1>3, <1>4, <1>5, <1>6, <1>7

\* What a loop makes is a list, and verifies if each block does after the one before.
EachAccepted(l, kind, x, n) ==
    \A b : \A i \in 1..n : \A t : Fits(l, b) => Accepts(l, b, t, Offspring(kind, x, b, i))

LEMMA GrownFrom ==
    ASSUME NEW l, NEW kind, NEW x, NEW first, Fits(l, first), NEW n \in Nat, NEW c,
           Grows(c, kind, x, first, n), KeepsFitting(l, kind, x, n), NEW i \in 1..n
    PROVE  LET b == Before(first, c, i)
           IN Fits(l, b) /\ c[i] = Offspring(kind, x, b, i)
<1>1. PICK b : b = Before(first, c, i)
  OBVIOUS
<1>2. b = IF i = 1 THEN first ELSE c[i - 1]
  BY <1>1 DEF Before
<1>3. c[i] = Offspring(kind, x, b, i)
  BY <1>2 DEF Grows
<1>4. Fits(l, b)
  <2>1. CASE i = 1
    BY <1>2, <2>1
  <2>2. CASE i # 1
    <3>1. IsChain(l, <<first>> \o c)
      BY GrownIsChain
    <3>2. PICK S : S = {first} \cup {c[k] : k \in 1..n}
      OBVIOUS
    <3>3. c \in Seq(S) /\ Len(c) = n /\ first \in S
      <4>1. c = [k \in 1..n |-> c[k]] /\ \A k \in 1..n : c[k] \in S
        BY <3>2 DEF Grows
      <4>. QED
        BY <3>2, <4>1
    <3>4. /\ i \in 1..Len(<<first>> \o c) /\ i - 1 \in 1..n
          /\ (<<first>> \o c)[i] = c[i - 1]
      BY <2>2, <3>3
    <3>. QED
      BY <1>2, <2>2, <3>1, <3>4 DEF IsChain
  <2>. QED
    BY <2>1, <2>2
<1>. QED
  BY <1>1, <1>3, <1>4

LEMMA GrownVerifies ==
    ASSUME NEW l \in LessonNames, NEW kind, NEW x, NEW first, Fits(l, first), NEW n \in Nat, NEW c,
           Grows(c, kind, x, first, n), KeepsFitting(l, kind, x, n), EachAccepted(l, kind, x, n), NEW t
    PROVE  Verifies(l, first, t, c)
<1>1. PICK S : S = {c[i] : i \in 1..n}
  OBVIOUS
<1>2. c \in Seq(S) /\ Len(c) = n
  <2>1. c = [k \in 1..n |-> c[k]] /\ \A k \in 1..n : c[k] \in S
    BY <1>1 DEF Grows
  <2>. QED
    BY <1>1, <2>1
<1>3. ASSUME NEW i \in 1..n PROVE Accepts(l, Before(first, c, i), StateUpTo(l, t, c, i - 1), c[i])
  BY GrownFrom DEF EachAccepted
<1>. QED
  BY <1>2, <1>3, VerifiesEach

\* Every block of the adder chains is accepted.
LEMMA AddersAccepted ==
    ASSUME NEW x \in Nat, NEW n \in Nat
    PROVE  EachAccepted("extrinsic_state", "adder", x, n)
<1>. SUFFICES ASSUME NEW b, NEW t
              PROVE  Accepts("extrinsic_state", b, t,
                             ChildOf("extrinsic_state", b, 0, <<x % Word>>, 0))
  BY DEF EachAccepted, Offspring
<1>1. PICK y, c : y = x % Word /\ c = ChildOf("extrinsic_state", b, 0, <<y>>, 0)
  OBVIOUS
<1>2. "extrinsic_state" \in LessonNames
  BY DEF LessonNames
<1>3. c.header = Header(HashHeader(b.header), b.header.height + 1,
                        StateField("extrinsic_state",
                          Executed("extrinsic_state", PreState("extrinsic_state", b, 0), <<y>>)),
                        ExtrinsicsField("extrinsic_state", <<y>>), DefaultDigest)
  BY <1>1, <1>2, ChildHas DEF ProofOfWork
<1>4. Executed("extrinsic_state", PreState("extrinsic_state", b, 0), <<y>>) = Add(b.header.state_root, y)
  BY AddsOne DEF Executed, PreState, SumInHeader
<1>5. c.header = Header(HashHeader(b.header), b.header.height + 1, Add(b.header.state_root, y), y, DefaultDigest)
  BY <1>3, <1>4 DEF StateField, ExtrinsicsField, HeadersOnly
<1>6. /\ c.header.parent = HashHeader(b.header) /\ c.header.height = b.header.height + 1
      /\ c.header.state_root = Add(b.header.state_root, y) /\ c.header.extrinsics_root = y
  BY <1>5 DEF Header
<1>7. Accepts("extrinsic_state", b, t, c)
  BY <1>6 DEF Accepts, VerifyChild, HeadersOnly, Sealed, ProofOfWork
<1>. QED
  BY <1>1, <1>7

\* What is known of the chain in the proofs that follow: it is a list, and its last block
\* is one of the lesson.
LEMMA ChainSeq ==
    ASSUME Shaped
    PROVE  /\ lesson \in LessonNames
           /\ Len(chain) \in Nat /\ Len(chain) >= 1 /\ DOMAIN chain = 1..Len(chain)
           /\ \E S : chain \in Seq(S) /\ \A v \in S : Fits(lesson, v)
           /\ Last(chain) = chain[Len(chain)]
           /\ \A i \in 1..Len(chain) : Fits(lesson, chain[i])
           /\ Fits(lesson, Last(chain))
<1>1. lesson \in LessonNames /\ IsChain(lesson, chain)
  BY DEF Shaped
<1>2. \E S : chain \in Seq(S) /\ \A v \in S : Fits(lesson, v)
  BY <1>1, ChainOver
<1>3. Len(chain) \in Nat /\ Len(chain) >= 1 /\ DOMAIN chain = 1..Len(chain)
  BY <1>1, <1>2 DEF IsChain
<1>4. Last(chain) = chain[Len(chain)] /\ Len(chain) \in 1..Len(chain)
  BY <1>3 DEF Last
<1>. QED
  BY <1>1, <1>2, <1>3, <1>4 DEF IsChain

\* A verified chain verifies with what a loop that is accepted puts after it.
LEMMA GrownOnChain ==
    ASSUME Shaped, Whole, NEW kind, NEW x, NEW n \in Nat, NEW c,
           Grows(c, kind, x, Last(chain), n), KeepsFitting(lesson, kind, x, n),
           EachAccepted(lesson, kind, x, n)
    PROVE  /\ Verifies(lesson, chain[1], start, Tail(chain) \o c)
           /\ Len(c) = n
           /\ (chain \o c)[1] = chain[1]
           /\ Tail(chain \o c) = Tail(chain) \o c
           /\ Len(chain \o c) = Len(chain) + n
           /\ \E S : Tail(chain) \in Seq(S) /\ c \in Seq(S)
<1>1. PICK T : chain \in Seq(T)
  BY ChainSeq
<1>2. PICK S : S = T \cup {c[i] : i \in 1..n}
  OBVIOUS
<1>3. /\ chain \in Seq(S) /\ Len(chain) >= 1 /\ c \in Seq(S) /\ Len(c) = n
  <2>1. c = [k \in 1..n |-> c[k]] /\ \A k \in 1..n : c[k] \in S
    BY <1>2 DEF Grows
  <2>2. chain = [k \in 1..Len(chain) |-> chain[k]] /\ \A k \in 1..Len(chain) : chain[k] \in S
    BY <1>1, <1>2
  <2>. QED
    BY <2>1, <2>2, ChainSeq
<1>4. \A t : Verifies(lesson, Last(chain), t, c)
  BY ChainSeq, GrownVerifies
<1>5. Verifies(lesson, chain[1], start, Tail(chain) \o c)
  BY <1>3, <1>4, ChainSeq, VerifiesOnwards DEF Whole
<1>6. Tail(chain) \in Seq(S) /\ (chain \o c)[1] = chain[1] /\ Len(chain \o c) = Len(chain) + n
  BY <1>3
<1>. QED
  BY <1>3, <1>5, <1>6, TailFirst

\* Both chains of a fork are valid, begin like the one they fork from, and differ.
LEMMA BothForksVerify == Shaped /\ Whole => ForksAreChains
<1>. SUFFICES ASSUME Shaped, Whole, lesson = "extrinsic_state"
              PROVE  LET forks == ForkedChains(chain)
                     IN /\ \A f \in {1, 2} : /\ forks[f][1] = chain[1]
                                             /\ Verifies(lesson, chain[1], start, Tail(forks[f]))
                        /\ forks[1] # forks[2]
  BY DEF ForksAreChains
<1>1. ASSUME NEW n \in Nat, NEW x \in Nat
      PROVE  LET fork == chain \o AddersOn(Last(chain), n, x)
             IN /\ fork[1] = chain[1]
                /\ Verifies(lesson, chain[1], start, Tail(fork))
                /\ Len(fork) = Len(chain) + n
  <2>1. PICK c : c = AddersOn(Last(chain), n, x)
    OBVIOUS
  <2>2. Grows(c, "adder", x, Last(chain), n)
    BY <2>1, AddersGrow
  <2>3. KeepsFitting(lesson, "adder", x, n) /\ EachAccepted(lesson, "adder", x, n)
    BY AddersKeepFitting, AddersAccepted
  <2>4. /\ Verifies(lesson, chain[1], start, Tail(chain) \o c)
        /\ (chain \o c)[1] = chain[1]
        /\ Tail(chain \o c) = Tail(chain) \o c
        /\ Len(chain \o c) = Len(chain) + n
    BY <2>2, <2>3, GrownOnChain
  <2>. QED
    BY <2>1, <2>4
<1>2. PICK f, g : f = chain \o AddersOn(Last(chain), 4, 14) /\ g = chain \o AddersOn(Last(chain), 7, 25)
  OBVIOUS
<1>3. /\ f[1] = chain[1] /\ Verifies(lesson, chain[1], start, Tail(f)) /\ Len(f) = Len(chain) + 4
      /\ g[1] = chain[1] /\ Verifies(lesson, chain[1], start, Tail(g)) /\ Len(g) = Len(chain) + 7
  BY <1>1, <1>2
<1>4. f # g
  BY <1>3, ChainSeq
<1>5. ForkedChains(chain) = <<f, g>>
  BY <1>2 DEF ForkedChains
<1>. QED
  BY <1>3, <1>4, <1>5

\* Mining ends: whatever else a header says, some nonce makes it hash low.
MiningEnds ==
    \A parent, state, extrinsics : \A height \in Nat : \E n \in Nonces :
        LowHash(Header(parent, height, state, extrinsics, n))

\* On words, whose number is even, adding keeps or changes the parity as on numbers.
LEMMA AddParity ==
    ASSUME NEW a \in Nat, NEW x \in Nat
    PROVE  Add(a, x) % 2 = (a + x) % 2
<1>1. PICK k \in Nat : Word = 2 * k /\ Word # 0
  BY LessonAssumption
<1>2. a + x \in Nat
  OBVIOUS
<1>3. PICK m \in Nat : m = a + x
  BY <1>2
<1>4. PICK q, r : q \in Int /\ r \in Nat /\ m = Word * q + r /\ r = m % Word
  <2>1. m = Word * (m \div Word) + (m % Word) /\ m % Word \in 0..Word - 1 /\ m \div Word \in Int
    BY LessonAssumption, RestOf
  <2>2. m % Word \in Nat
    BY LessonAssumption, <2>1
  <2>. QED
    BY <2>1, <2>2, Zenon
<1>5. PICK p \in Int : p = k * q
  BY <1>4
<1>6. Word * q = 2 * p
  BY <1>1, <1>4, <1>5
<1>7. m = 2 * p + r
  BY <1>4, <1>6
<1>8. m % 2 = r % 2
  BY <1>4, <1>7
<1>. QED
  BY <1>3, <1>4, <1>8 DEF Add

\* A side goes on from any block with one of its parity, that is accepted after it.
LEMMA SideAccepted ==
    ASSUME MiningEnds, NEW parity \in {0, 1}, NEW b, Fits("consensus", b)
    PROVE  LET c == SideChild(b, parity, Nonces)
           IN /\ Fits("consensus", c)
              /\ \A t : Accepts("consensus", b, t, c)
              /\ c.header.state_root % 2 = parity
<1>0. "consensus" \in LessonNames /\ b.header.state_root \in Nat /\ b.header.height + 1 \in Nat
  BY DEF LessonNames, Fits
<1>1. PICK x \in Nat : x = (IF b.header.state_root % 2 = parity THEN 2 ELSE 1)
  OBVIOUS
<1>2. PICK root : root = Add(b.header.state_root, x)
  OBVIOUS
<1>3. ASSUME NEW n
      PROVE  /\ ChildOf("consensus", b, 0, <<x>>, n).header
                  = Header(HashHeader(b.header), b.header.height + 1, root, x, n)
             /\ ChildOf("consensus", b, 0, <<x>>, n).body = <<>>
  <2>1. Executed("consensus", PreState("consensus", b, 0), <<x>>) = root
    BY <1>2, AddsOne DEF Executed, PreState, SumInHeader
  <2>. QED
    BY <1>0, <2>1, ChildHas DEF ProofOfWork, HeadersOnly, StateField, ExtrinsicsField
<1>. DEFINE Low(n) == LowHash(ChildOf("consensus", b, 0, <<x>>, n).header)
<1>4. \E n \in Nonces : Low(n)
  <2>1. \E n \in Nonces : LowHash(Header(HashHeader(b.header), b.header.height + 1, root, x, n))
    BY <1>0 DEF MiningEnds
  <2>. QED
    BY <1>3, <2>1
<1>5. PICK n : n = (CHOOSE m \in Nonces : Low(m)) /\ n \in Nonces /\ Low(n)
  <2>. HIDE DEF Low
  <2>. QED
    BY <1>4
<1>6. PICK c : c = ChildOf("consensus", b, 0, <<x>>, n)
  OBVIOUS
<1>7. SideChild(b, parity, Nonces) = c
  BY <1>1, <1>5, <1>6 DEF SideChild
<1>8. LowHash(c.header)
  BY <1>5, <1>6
<1>. HIDE DEF Low
<1>9. /\ c.header.parent = HashHeader(b.header) /\ c.header.height = b.header.height + 1
      /\ c.header.state_root = root /\ c.header.extrinsics_root = x
  <2>1. c.header = Header(HashHeader(b.header), b.header.height + 1, root, x, n)
    BY <1>3, <1>6
  <2>. QED
    BY <2>1 DEF Header
<1>10. Fits("consensus", c)
  <2>1. n \in Nat
    BY <1>5, LessonAssumption
  <2>2. Fitting("consensus", <<x>>)
    BY DEF Fitting
  <2>. QED
    BY <1>0, <1>6, <2>1, <2>2, ChildFits
<1>11. ASSUME NEW t PROVE Accepts("consensus", b, t, c)
  BY <1>2, <1>8, <1>9 DEF Accepts, VerifyChild, HeadersOnly, Sealed, ProofOfWork
<1>12. root % 2 = parity
  <2>1. root % 2 = (b.header.state_root + x) % 2
    BY <1>0, <1>2, AddParity
  <2>2. PICK r \in Nat : r = b.header.state_root
    BY <1>0
  <2>3. (r + x) % 2 = parity
    BY <1>1, <2>2
  <2>. QED
    BY <2>1, <2>2, <2>3
<1>. QED
  BY <1>7, <1>9, <1>10, <1>11, <1>12

LEMMA SecondPart ==
    ASSUME NEW S, NEW s \in Seq(S), NEW t \in Seq(S), NEW k, NEW n, k = Len(s), n = Len(t)
    PROVE  \A i \in k + 1..k + n : (s \o t)[i] = t[i - k]
<1>. SUFFICES ASSUME NEW i \in k + 1..k + n PROVE (s \o t)[i] = t[i - k]
  OBVIOUS
<1>1. k \in Nat /\ n \in Nat /\ i \in 1..k + n /\ ~ (i <= k)
  OBVIOUS
<1>. QED
  BY <1>1

\* Each side goes on with a chain that verifies, under its own rules and not the other's.
LEMMA SidesGoOn == MiningEnds /\ Shaped /\ Whole => SidesDisagree
<1>. SUFFICES ASSUME MiningEnds, Shaped, Whole, lesson = "consensus", NEW parity \in {0, 1}
              PROVE  LET suffix == SideOn(Last(chain), parity, Nonces)
                         side == Tail(chain) \o suffix
                     IN /\ VerifiesSide(parity, chain[1], side)
                        /\ ~ VerifiesSide(1 - parity, chain[1], side)
                        /\ \A i, k \in DOMAIN suffix :
                              VerifiesSide(parity, Before(Last(chain), suffix, i), SubSeq(suffix, i, k))
  BY DEF SidesDisagree
<1>1. PICK n \in Nat : n = ForkHeight /\ n >= 1
  BY LessonAssumption
<1>2. PICK c, x : c = SideOn(Last(chain), parity, Nonces) /\ x = <<parity, Nonces>>
  OBVIOUS
<1>3. Grows(c, "side", x, Last(chain), n)
  BY <1>1, <1>2, SideGrows
<1>4. \A b : \A i \in 1..n : Offspring("side", x, b, i) = SideChild(b, parity, Nonces)
  BY <1>2 DEF Offspring
<1>5. KeepsFitting("consensus", "side", x, n) /\ EachAccepted("consensus", "side", x, n)
  BY <1>4, SideAccepted DEF KeepsFitting, EachAccepted
<1>6. Fits("consensus", Last(chain))
  BY ChainSeq
<1>7. ASSUME NEW i \in 1..n PROVE c[i].header.state_root % 2 = parity
  <2>1. PICK b : Fits("consensus", b) /\ c[i] = Offspring("side", x, b, i)
    BY <1>3, <1>5, <1>6, GrownFrom
  <2>. QED
    BY <1>4, <2>1, SideAccepted
<1>8. /\ Verifies("consensus", chain[1], start, Tail(chain) \o c)
      /\ Len(c) = n /\ \E S : Tail(chain) \in Seq(S) /\ c \in Seq(S)
  BY <1>3, <1>5, GrownOnChain
<1>9. PICK side : side = Tail(chain) \o c
  OBVIOUS
<1>10. Verifies("consensus", chain[1], 0, side)
  BY <1>8, <1>9 DEF Verifies
<1>11. PICK k \in Nat : k = Len(chain) - 1
  <2>1. Len(chain) \in Nat /\ Len(chain) >= 1
    BY ChainSeq
  <2>. QED
    BY <2>1
<1>12. /\ Len(side) = k + n /\ DOMAIN side = 1..k + n
       /\ \A i \in k + 1..k + n : side[i] = c[i - k]
  <2>1. PICK S : Tail(chain) \in Seq(S) /\ c \in Seq(S)
    BY <1>8
  <2>2. Len(Tail(chain)) = k
    BY <1>11, ChainSeq
  <2>3. side \in Seq(S) /\ Len(side) = k + n
    BY <1>8, <1>9, <2>1, <2>2
  <2>4. \A i \in k + 1..k + n : side[i] = c[i - k]
    <3>1. PICK old \in Seq(S) : old = Tail(chain) /\ Len(old) = k
      BY <2>1, <2>2
    <3>2. side = old \o c /\ Len(c) = n
      BY <1>8, <1>9, <3>1
    <3>3. c \in Seq(S) /\ k = Len(old) /\ n = Len(c)
      BY <2>1, <3>1, <3>2
    <3>4. \A i \in k + 1..k + n : (old \o c)[i] = c[i - k]
      BY <3>3, SecondPart
    <3>. QED
      BY <3>2, <3>4
  <2>. QED
    BY <2>3, <2>4
<1>13. ASSUME NEW i \in 1..k + n
       PROVE  Contested(side, i) <=> i \in k + 1..k + n
  BY <1>1, <1>12 DEF Contested
<1>14. ASSUME NEW i \in k + 1..k + n PROVE side[i].header.state_root % 2 = parity
  <2>1. i - k \in 1..n
    OBVIOUS
  <2>. QED
    BY <1>7, <1>12, <2>1
<1>15. VerifiesSide(parity, chain[1], side)
  BY <1>10, <1>12, <1>13, <1>14 DEF VerifiesSide
<1>16. ~ VerifiesSide(1 - parity, chain[1], side)
  <2>1. k + n \in k + 1..k + n /\ k + n \in 1..k + n
    BY <1>1
  <2>2. Contested(side, k + n) /\ side[k + n].header.state_root % 2 # 1 - parity
    BY <1>13, <1>14, <2>1
  <2>. QED
    BY <1>12, <2>1, <2>2 DEF VerifiesSide
<1>17. ASSUME NEW i \in 1..n, NEW j \in 1..n
       PROVE  VerifiesSide(parity, Before(Last(chain), c, i), SubSeq(c, i, j))
  <2>1. PICK S : c \in Seq(S) /\ Len(c) = n
    BY <1>8
  <2>2. PICK part, b : part = SubSeq(c, i, j) /\ b = Before(Last(chain), c, i)
    OBVIOUS
  <2>3. /\ part \in Seq(S) /\ DOMAIN part = 1..Len(part) /\ Len(part) \in Nat
        /\ \A m \in 1..Len(part) : i + m - 1 \in 1..n /\ part[m] = c[i + m - 1]
    BY <2>1, <2>2
  <2>4. ASSUME NEW m \in 1..Len(part), NEW t
        PROVE  /\ Accepts("consensus", Before(b, part, m), t, part[m])
               /\ part[m].header.state_root % 2 = parity
    <3>1. PICK at \in 1..n : at = i + m - 1 /\ part[m] = c[at]
      BY <2>3
    <3>2. Before(b, part, m) = Before(Last(chain), c, at)
      <4>1. CASE m = 1
        <5>1. at = i
          BY <3>1, <4>1
        <5>. QED
          BY <2>2, <4>1, <5>1 DEF Before
      <4>2. CASE m # 1
        <5>1. m - 1 \in 1..Len(part) /\ i + (m - 1) - 1 = at - 1 /\ at # 1
          BY <3>1, <4>2
        <5>2. part[m - 1] = c[at - 1]
          BY <2>3, <5>1
        <5>. QED
          BY <4>2, <5>1, <5>2 DEF Before
      <4>. QED
        BY <4>1, <4>2
    <3>3. /\ Fits("consensus", Before(Last(chain), c, at))
          /\ c[at] = Offspring("side", x, Before(Last(chain), c, at), at)
      BY <1>3, <1>5, <1>6, GrownFrom
    <3>4. Accepts("consensus", Before(Last(chain), c, at), t, c[at])
      BY <1>5, <3>3 DEF EachAccepted
    <3>. QED
      BY <1>7, <3>1, <3>2, <3>4
  <2>5. Verifies("consensus", b, 0, part)
    <3>1. "consensus" \in LessonNames
      BY DEF LessonNames
    <3>. QED
      BY <2>3, <2>4, <3>1, VerifiesEach
  <2>6. VerifiesSide(parity, b, part)
    BY <2>3, <2>4, <2>5 DEF VerifiesSide
  <2>. QED
    BY <2>2, <2>6
<1>18. DOMAIN c = 1..n
  BY <1>3 DEF Grows
<1>. QED
  BY <1>2, <1>9, <1>15, <1>16, <1>17, <1>18

\* hs are headers: each a child of the one before it, and the first of h, all mined.
Descend(h, hs, n) ==
    \A i \in 1..n : LET g == IF i = 1 THEN h ELSE hs[i - 1]
                    IN VerifyChild(g, hs[i]) /\ LowHash(hs[i])

LEMMA LinksUpEach ==
    ASSUME NEW h, NEW hs, NEW n \in Nat, DOMAIN hs = 1..n
    PROVE  LinksUp(h, hs) <=> Descend(h, hs, n)
<1>1. PICK bs : bs = Headed(hs)
  OBVIOUS
<1>2. DOMAIN bs = 1..n /\ \A i \in 1..n : bs[i].header = hs[i]
  BY <1>1 DEF Headed
<1>3. PICK b : b = [header |-> h, body |-> <<>>]
  OBVIOUS
<1>4. \A i \in 1..n : Before(b, bs, i).header = IF i = 1 THEN h ELSE hs[i - 1]
  <2>1. \A i \in 1..n : i # 1 => i - 1 \in 1..n
    OBVIOUS
  <2>. QED
    BY <1>2, <1>3, <2>1 DEF Before
<1>5. Linked(b, bs) <=> \A i \in 1..n : VerifyChild(IF i = 1 THEN h ELSE hs[i - 1], hs[i])
  BY <1>2, <1>4 DEF Linked
<1>6. Mined(bs) <=> \A i \in 1..n : LowHash(hs[i])
  BY <1>2 DEF Mined
<1>7. LinksUp(h, hs) <=> Linked(b, bs) /\ Mined(bs)
  BY <1>1, <1>3 DEF LinksUp
<1>. QED
  BY <1>5, <1>6, <1>7 DEF Descend

LEMMA PlainHeadersDescend ==
    ASSUME NEW h, NEW n \in Nat, NEW hs \in HeadersOn(h, n, Nonces)
    PROVE  /\ hs = [i \in 1..n |-> hs[i]]
           /\ Descend(h, hs, n)
           /\ \A i \in 1..n : hs[i] = Header(hs[i].parent, hs[i].height, hs[i].state_root,
                                             hs[i].extrinsics_root, hs[i].consensus_digest)
<1>1. PICK drawn : Grows(hs, "plain header", drawn, h, n)
  BY PlainHeadersGrow
<1>2. hs = [i \in 1..n |-> hs[i]]
  BY <1>1 DEF Grows
<1>3. ASSUME NEW i \in 1..n
      PROVE  /\ VerifyChild(IF i = 1 THEN h ELSE hs[i - 1], hs[i])
             /\ hs[i] = Header(hs[i].parent, hs[i].height, hs[i].state_root,
                               hs[i].extrinsics_root, hs[i].consensus_digest)
  <2>1. PICK g : g = IF i = 1 THEN h ELSE hs[i - 1]
    OBVIOUS
  <2>2. hs[i] = HeaderChild(g, i - 1, HashNumber(i - 1), drawn[i])
    BY <1>1, <2>1 DEF Grows, Offspring
  <2>3. /\ VerifyChild(g, hs[i])
        /\ hs[i] = Header(hs[i].parent, hs[i].height, hs[i].state_root,
                          hs[i].extrinsics_root, hs[i].consensus_digest)
    BY <2>2 DEF HeaderChild, Header, VerifyChild
  <2>. QED
    BY <2>1, <2>3
<1>4. \A i \in 1..n : LowHash(hs[i])
  BY PlainHeadersGrow
<1>. QED
  BY <1>2, <1>3, <1>4 DEF Descend

\* Mining a header again changes at most its nonce, and gives it the work asked for.
LEMMA MinedAgain ==
    ASSUME NEW h, h = Header(h.parent, h.height, h.state_root, h.extrinsics_root, h.consensus_digest),
           NEW g \in MinedExtraHard(h, Nonces)
    PROVE  g.parent = h.parent /\ g.height = h.height /\ LowHash(g) /\ Work(g) >= HardWork
<1>1. IsHard(g) /\ (g = h \/ \E n \in Nonces : g = [h EXCEPT !.consensus_digest = n])
  BY DEF MinedExtraHard
<1>2. g.parent = h.parent /\ g.height = h.height
  BY <1>1 DEF Header
<1>. QED
  BY <1>1, <1>2 DEF IsHard

LEMMA SidesAreBuilt == Shaped => OneSideLongerOneHeavier
<1>. SUFFICES ASSUME Shaped, NEW h, h = Last(chain).header
              PROVE  /\ \A longer \in HeadersOn(h, SideLength + 2, Nonces) : LinksUp(h, longer)
                     /\ \A plain \in HeadersOn(h, SideLength, Nonces) :
                          \A heavier \in HeavierSides(plain, Nonces) :
                              \A i \in DOMAIN heavier : Work(heavier[i]) >= HardWork
  BY DEF OneSideLongerOneHeavier
<1>1. PICK n \in Nat : n = SideLength /\ n >= 1
  BY LessonAssumption
<1>2. ASSUME NEW longer \in HeadersOn(h, n + 2, Nonces) PROVE LinksUp(h, longer)
  <2>1. n + 2 \in Nat
    OBVIOUS
  <2>2. Descend(h, longer, n + 2) /\ longer = [i \in 1..n + 2 |-> longer[i]]
    BY <2>1, PlainHeadersDescend
  <2>3. DOMAIN longer = 1..n + 2
    BY <2>2
  <2>. QED
    BY <2>2, <2>3, LinksUpEach
<1>3. ASSUME NEW plain \in HeadersOn(h, n, Nonces), NEW heavier \in HeavierSides(plain, Nonces)
      PROVE  \A i \in DOMAIN heavier : Work(heavier[i]) >= HardWork
  <2>1. /\ plain = [i \in 1..n |-> plain[i]] /\ Descend(h, plain, n)
        /\ \A i \in 1..n : plain[i] = Header(plain[i].parent, plain[i].height, plain[i].state_root,
                                              plain[i].extrinsics_root, plain[i].consensus_digest)
    BY PlainHeadersDescend
  <2>2. DOMAIN plain = 1..n
    BY <2>1
  <2>3. /\ heavier = [i \in 1..n |-> heavier[i]]
        /\ \A i \in 1..n : heavier[i] \in MinedExtraHard(plain[i], Nonces)
    BY <2>2 DEF HeavierSides
  <2>4. DOMAIN heavier = 1..n
    BY <2>3
  <2>5. ASSUME NEW i \in 1..n
        PROVE  /\ heavier[i].parent = plain[i].parent /\ heavier[i].height = plain[i].height
               /\ LowHash(heavier[i]) /\ Work(heavier[i]) >= HardWork
    BY <2>1, <2>3, MinedAgain
  <2>. QED
    BY <2>4, <2>5
<1>. QED
  BY <1>1, <1>2, <1>3

\* The header of the invalid child is one, but the block does not verify.
LEMMA ChildrenInvalid == InvalidChildren
<1>. SUFFICES ASSUME NEW p, p = Last(chain), NEW t, t = StateAt(Len(chain)), NEW b,
                     \/ /\ lesson = "batched_extrinsics"
                        /\ b \in InvalidBatchChildren(p.header, <<1, 2>>, <<2, 1>>, Nonces)
                     \/ /\ lesson = "rich_state"
                        /\ b \in InvalidRichChildren(p.header, t, Nonces)
              PROVE  VerifyChild(p.header, b.header) /\ ~ Verifies(lesson, p, t, <<b>>)
  BY DEF InvalidChildren
<1>1. lesson \in {"batched_extrinsics", "rich_state"} /\ lesson \in LessonNames
  BY DEF LessonNames
<1>2. ASSUME b.header.extrinsics_root # HashBody(b.body) PROVE ~ Verifies(lesson, p, t, <<b>>)
  <2>1. PICK bs : bs = <<b>>
    OBVIOUS
  <2>2. DOMAIN bs = {1} /\ bs[1] = b
    BY <2>1
  <2>3. ~ BodiesMatch(bs)
    BY <1>2, <2>2 DEF BodiesMatch
  <2>. QED
    BY <1>1, <2>1, <2>3 DEF Verifies
<1>3. CASE /\ lesson = "batched_extrinsics"
           /\ b \in InvalidBatchChildren(p.header, <<1, 2>>, <<2, 1>>, Nonces)
  <2>1. /\ b.header.extrinsics_root = HashBytes(<<1, 2>>) /\ b.body = <<2, 1>>
        /\ VerifyChild(p.header, b.header)
    BY <1>3 DEF InvalidBatchChildren, HeaderChild, Header, VerifyChild
  <2>2. HashBytes(<<1, 2>>) # HashBody(<<2, 1>>)
    BY DEF HashBytes, HashBody
  <2>. QED
    BY <1>2, <2>1, <2>2
<1>4. CASE lesson = "rich_state" /\ b \in InvalidRichChildren(p.header, t, Nonces)
  <2>1. PICK n : b = [ChildOf("rich_state", [header |-> p.header, body |-> <<1, 2, 3>>], t, <<1, 2, 3>>, n)
                        EXCEPT !.body = <<4, 5, 6, 7>>]
    BY <1>4 DEF InvalidRichChildren
  <2>2. PICK q : q = [header |-> p.header, body |-> <<1, 2, 3>>]
    OBVIOUS
  <2>3. PICK c : c = ChildOf("rich_state", q, t, <<1, 2, 3>>, n)
    OBVIOUS
  <2>4. /\ c = [header |-> c.header, body |-> c.body]
        /\ c.header = Header(HashHeader(q.header), q.header.height + 1,
                             StateField("rich_state",
                               Executed("rich_state", PreState("rich_state", q, t), <<1, 2, 3>>)),
                             ExtrinsicsField("rich_state", <<1, 2, 3>>), n)
    BY <1>1, <1>4, <2>3, ChildHas DEF ProofOfWork
  <2>5. b.header = c.header /\ b.body = <<4, 5, 6, 7>>
    BY <2>1, <2>2, <2>3, <2>4
  <2>6. VerifyChild(p.header, b.header) /\ b.header.extrinsics_root = HashBody(<<1, 2, 3>>)
    BY <2>2, <2>4, <2>5 DEF Header, VerifyChild, ExtrinsicsField, HeadersOnly
  <2>7. HashBody(<<1, 2, 3>>) # HashBody(<<4, 5, 6, 7>>)
    BY DEF HashBody
  <2>. QED
    BY <1>2, <2>5, <2>6, <2>7
<1>. QED
  BY <1>3, <1>4

\* What the lessons build on a valid chain is as valid, and as invalid, as they say
\* (build_contentious_forked_chain, build_forked_chain, the longer and the heavier side but
\* for the links of the latter, build_invalid_child_block_with_valid_header), if mining ends.
THEOREM BuildersKeepWord ==
    ASSUME MiningEnds PROVE ChainsSpec => []BuildersKeepTheirWord
<1>1. Shaped => BuildersKeepTheirWord
  BY SidesGoOn, BothForksVerify, SidesAreBuilt, ChildrenInvalid DEF BuildersKeepTheirWord
<1>. QED
  BY <1>1, AlwaysShaped, PTL

-----------------------------------------------------------------------------
(* The best chain *)

\* The work of a header is a number, as its nonce is.
WorkIsNumber == \A h : h.consensus_digest \in Nat => Work(h) \in Nat

\* What each header adds to the score.
Worths(rule, hs, n) == [i \in 1..n |-> Worth(rule, hs[i])]

LEMMA WorthIsNat ==
    ASSUME WorkIsNumber, NEW rule \in ChainRules, rule # "LongestChainRule", NEW hs, NEW n \in Nat,
           \A i \in 1..n : hs[i].consensus_digest \in Nat
    PROVE  \A i \in 1..n : Worths(rule, hs, n)[i] = Worth(rule, hs[i]) /\ Worths(rule, hs, n)[i] \in Nat
<1>. SUFFICES ASSUME NEW i \in 1..n PROVE Worth(rule, hs[i]) \in Nat
  BY DEF Worths
<1>1. hs[i].consensus_digest \in Nat
  OBVIOUS
<1>2. Work(hs[i]) \in Nat
  BY <1>1 DEF WorkIsNumber
<1>. QED
  BY <1>2 DEF Worth, ChainRules

\* A sum over the numbers up to k + 1 is one over the numbers up to k and the last value.
LEMMA SumUpTo ==
    ASSUME NEW n \in Nat, NEW w, \A i \in 1..n : w[i] \in Nat
    PROVE  /\ SumFunctionOnSet(w, 1..0) = 0
           /\ \A k \in 0..n : /\ SumFunctionOnSet(w, 1..k) \in Nat
                              /\ SumFunctionOnSet(w, 1..k) <= SumFunctionOnSet(w, 1..n)
           /\ \A k \in 0..n - 1 :
                 SumFunctionOnSet(w, 1..k + 1) = w[k + 1] + SumFunctionOnSet(w, 1..k)
<1>1. SumFunctionOnSet(w, 1..0) = 0
  <2>1. SumFunctionOnSet(w, {}) = 0
    BY SumByChoice, FS_EmptySet
  <2>2. 1..0 = {}
    OBVIOUS
  <2>. QED
    BY <2>1, <2>2
<1>2. ASSUME NEW k \in 0..n
      PROVE  /\ SumFunctionOnSet(w, 1..k) \in Nat
             /\ SumFunctionOnSet(w, 1..k) <= SumFunctionOnSet(w, 1..n)
  <2>1. PICK A, B : A = 1..k /\ B = k + 1..n
    OBVIOUS
  <2>2. IsFiniteSet(A) /\ IsFiniteSet(B)
    BY <2>1, FS_Interval
  <2>3. /\ 1..n = A \cup B /\ A \cap B = {}
        /\ \A i \in A \cup B : w[i] \in Nat /\ w[i] \in Int
    BY <2>1
  <2>4. SumFunctionOnSet(w, A) \in Nat /\ SumFunctionOnSet(w, B) \in Nat
    BY <2>2, <2>3, SumIsNat
  <2>5. SumFunctionOnSet(w, A \cup B) = SumFunctionOnSet(w, A) + SumFunctionOnSet(w, B)
    BY <2>2, <2>3, SumOfUnion
  <2>6. SumFunctionOnSet(w, A) <= SumFunctionOnSet(w, A \cup B)
    BY <2>4, <2>5
  <2>. QED
    BY <2>1, <2>3, <2>4, <2>6
<1>3. ASSUME NEW k \in 0..n - 1
      PROVE  SumFunctionOnSet(w, 1..k + 1) = w[k + 1] + SumFunctionOnSet(w, 1..k)
  <2>1. IsFiniteSet(1..k)
    BY FS_Interval
  <2>2. /\ 1..k + 1 = (1..k) \cup {k + 1} /\ k + 1 \notin 1..k
        /\ w[k + 1] \in Int /\ \A i \in 1..k : w[i] \in Int
    OBVIOUS
  <2>. QED
    BY <2>1, <2>2, SumOfOneMore
<1>. QED
  BY <1>1, <1>2, <1>3

\* The running scores of a chain of n headers.
Tallies(g, rule, hs, n) ==
    g = [i \in 0..n |-> IF i = 0 THEN 0 ELSE Add(g[i - 1], Worth(rule, hs[i]))]

\* If the sum of what the headers are worth fits a word, no running score wraps.
LEMMA TallySum ==
    ASSUME WorkIsNumber, NEW rule \in ChainRules, rule # "LongestChainRule", NEW hs, NEW n \in Nat,
           \A i \in 1..n : hs[i].consensus_digest \in Nat,
           SumFunctionOnSet(Worths(rule, hs, n), 1..n) < Word
    PROVE  /\ \E g : Tallies(g, rule, hs, n)
           /\ \A g : Tallies(g, rule, hs, n) => g[n] = SumFunctionOnSet(Worths(rule, hs, n), 1..n)
<1>. DEFINE w == Worths(rule, hs, n)
            sum == [k \in 0..n |-> SumFunctionOnSet(w, 1..k)]
<1>1. \A i \in 1..n : w[i] = Worth(rule, hs[i]) /\ w[i] \in Nat
  BY WorthIsNat
<1>. HIDE DEF w
<1>2. /\ sum[0] = 0
      /\ \A k \in 0..n : sum[k] \in Nat /\ sum[k] <= sum[n]
      /\ \A k \in 0..n - 1 : sum[k + 1] = w[k + 1] + sum[k]
      /\ sum[n] = SumFunctionOnSet(w, 1..n)
      /\ sum = [k \in 0..n |-> sum[k]]
  BY <1>1, SumUpTo
<1>3. sum[n] < Word
  BY <1>2 DEF w
<1>. HIDE DEF sum
<1>4. ASSUME NEW k \in 1..n PROVE sum[k] = Add(sum[k - 1], Worth(rule, hs[k]))
  <2>1. k - 1 \in 0..n - 1 /\ (k - 1) + 1 = k /\ k \in 0..n /\ k - 1 \in 0..n
    OBVIOUS
  <2>2. sum[k] = w[k] + sum[k - 1] /\ sum[k] \in Nat /\ sum[k - 1] \in Nat /\ sum[k] <= sum[n] /\ sum[n] \in Nat
    <3>1. PICK m : m = k - 1
      OBVIOUS
    <3>2. m \in 0..n - 1 /\ m + 1 = k /\ m \in 0..n /\ n \in 0..n
      BY <2>1, <3>1
    <3>3. sum[m + 1] = w[m + 1] + sum[m] /\ sum[m] \in Nat
      BY <1>2, <3>2
    <3>. QED
      BY <1>2, <2>1, <3>1, <3>2, <3>3
  <2>3. sum[k - 1] + Worth(rule, hs[k]) = sum[k]
    BY <1>1, <2>2
  <2>4. sum[k] \in 0..Word - 1
    BY <1>3, <2>2, LessonAssumption
  <2>5. sum[k] % Word = sum[k]
    BY <2>4, LessonAssumption
  <2>. QED
    BY <2>3, <2>5 DEF Add
<1>5. Tallies(sum, rule, hs, n)
  <2>1. ASSUME NEW k \in 0..n
        PROVE  sum[k] = IF k = 0 THEN 0 ELSE Add(sum[k - 1], Worth(rule, hs[k]))
    <3>1. CASE k = 0
      BY <1>2, <3>1
    <3>2. CASE k # 0
      <4>1. k \in 1..n
        BY <3>2
      <4>. QED
        BY <1>4, <3>2, <4>1
    <3>. QED
      BY <3>1, <3>2
  <2>. QED
    BY <1>2, <2>1 DEF Tallies
<1>6. ASSUME NEW g, Tallies(g, rule, hs, n) PROVE g[n] = sum[n]
  <2>. DEFINE same == {k \in Nat : k \in 0..n => g[k] = sum[k]}
  <2>1. 0 \in same
    BY <1>2, <1>6 DEF Tallies
  <2>2. ASSUME NEW k \in Nat, k \in same PROVE k + 1 \in same
    <3>. SUFFICES ASSUME k + 1 \in 0..n PROVE g[k + 1] = sum[k + 1]
      OBVIOUS
    <3>1. k + 1 \in 1..n /\ (k + 1) - 1 = k /\ k \in 0..n /\ k + 1 # 0
      OBVIOUS
    <3>2. g[k + 1] = Add(g[k], Worth(rule, hs[k + 1]))
      BY <1>6, <3>1 DEF Tallies
    <3>3. sum[k + 1] = Add(sum[k], Worth(rule, hs[k + 1]))
      BY <1>4, <3>1
    <3>. QED
      BY <2>2, <3>1, <3>2, <3>3
  <2>. HIDE DEF same
  <2>3. n \in same
    BY <2>1, <2>2, CountingUp
  <2>. QED
    BY <2>3 DEF same
<1>. QED
  BY <1>2, <1>5, <1>6 DEF w

\* Counting is summing ones.
LEMMA CountIsSum ==
    ASSUME NEW hs, NEW n \in Nat
    PROVE  Cardinality({i \in 1..n : EvenHash(hs[i])})
             = SumFunctionOnSet(Worths("MostBlocksWithEvenHash", hs, n), 1..n)
<1>. DEFINE w == Worths("MostBlocksWithEvenHash", hs, n)
            even(k) == {i \in 1..k : EvenHash(hs[i])}
            counted == {k \in Nat : k \in 0..n => Cardinality(even(k)) = SumFunctionOnSet(w, 1..k)}
<1>1. \A i \in 1..n : w[i] = (IF EvenHash(hs[i]) THEN 1 ELSE 0) /\ w[i] \in Nat
  BY DEF Worths, Worth
<1>. HIDE DEF w
<1>2. 0 \in counted
  <2>1. even(0) = {} /\ Cardinality({}) = 0
    BY FS_EmptySet
  <2>. QED
    BY <1>1, <2>1, SumUpTo
<1>3. ASSUME NEW k \in Nat, k \in counted PROVE k + 1 \in counted
  <2>. SUFFICES ASSUME k + 1 \in 0..n
                PROVE  Cardinality(even(k + 1)) = SumFunctionOnSet(w, 1..k + 1)
    OBVIOUS
  <2>1. k \in 0..n - 1 /\ k \in 0..n /\ k + 1 \in 1..n
    OBVIOUS
  <2>2. SumFunctionOnSet(w, 1..k + 1) = w[k + 1] + SumFunctionOnSet(w, 1..k)
    BY <1>1, <2>1, SumUpTo
  <2>3. Cardinality(even(k)) = SumFunctionOnSet(w, 1..k)
    BY <1>3, <2>1
  <2>4. IsFiniteSet(even(k)) /\ Cardinality(even(k)) \in Nat
    <3>1. IsFiniteSet(1..k) /\ even(k) \subseteq 1..k
      BY FS_Interval
    <3>. QED
      BY <3>1, FS_Subset, FS_CardinalityType
  <2>5. CASE EvenHash(hs[k + 1])
    <3>1. even(k + 1) = even(k) \cup {k + 1} /\ k + 1 \notin even(k)
      BY <2>5
    <3>. HIDE DEF even
    <3>2. Cardinality(even(k + 1)) = Cardinality(even(k)) + 1
      BY <2>4, <3>1, FS_AddElement
    <3>3. w[k + 1] = 1
      BY <1>1, <2>1, <2>5
    <3>. QED
      BY <2>2, <2>3, <2>4, <3>2, <3>3
  <2>6. CASE ~ EvenHash(hs[k + 1])
    <3>1. even(k + 1) = even(k)
      BY <2>6
    <3>. HIDE DEF even
    <3>2. w[k + 1] = 0
      BY <1>1, <2>1, <2>6
    <3>. QED
      BY <2>2, <2>3, <2>4, <3>1, <3>2
  <2>. QED
    BY <2>5, <2>6
<1>. HIDE DEF counted
<1>4. n \in counted
  BY <1>2, <1>3, CountingUp
<1>. QED
  BY <1>4 DEF counted, w

\* A rule's score is the true one, as long as that fits a word.
LEMMA ScoreIsTrue ==
    ASSUME WorkIsNumber, NEW rule \in ChainRules, NEW S, NEW hs \in Seq(S),
           \A h \in S : h.consensus_digest \in Nat,
           TrueScore(rule, hs) < Word
    PROVE  Score(rule, hs) = TrueScore(rule, hs) /\ TrueScore(rule, hs) \in Nat
<1>1. PICK n \in Nat : n = Len(hs) /\ DOMAIN hs = 1..n
  OBVIOUS
<1>2. \A i \in 1..n : hs[i].consensus_digest \in Nat
  BY <1>1
<1>3. CASE rule = "LongestChainRule"
  BY <1>1, <1>3 DEF Score, TrueScore
<1>4. CASE rule # "LongestChainRule"
  <2>. DEFINE total == SumFunctionOnSet(Worths(rule, hs, n), 1..n)
  <2>1. TrueScore(rule, hs) = total
    <3>1. CASE rule = "MostBlocksWithEvenHash"
      BY <1>1, <3>1, CountIsSum DEF TrueScore
    <3>2. CASE rule = "HeaviestChainRule"
      <4>1. PICK w : w = [i \in 1..n |-> IF hs[i].consensus_digest = 0 THEN 0 ELSE Work(hs[i])]
        OBVIOUS
      <4>2. DOMAIN w = 1..n
        BY <4>1
      <4>3. TrueScore(rule, hs) = SumFunctionOnSet(w, 1..n)
        BY <1>1, <3>2, <4>1, <4>2 DEF TrueScore, SumFunction
      <4>4. w = Worths(rule, hs, n)
        BY <3>2, <4>1 DEF Worths, Worth
      <4>. QED
        BY <4>3, <4>4
    <3>. QED
      BY <1>4, <3>1, <3>2 DEF ChainRules
  <2>2. total < Word
    BY <2>1
  <2>3. total \in Nat
    <3>1. \A i \in 1..n : Worths(rule, hs, n)[i] \in Nat
      BY <1>2, <1>4, WorthIsNat
    <3>2. IsFiniteSet(1..n)
      BY FS_Interval
    <3>. QED
      BY <3>1, <3>2, SumIsNat
  <2>4. /\ \E g : Tallies(g, rule, hs, n)
        /\ \A g : Tallies(g, rule, hs, n) => g[n] = total
    BY <1>2, <1>4, <2>2, TallySum
  <2>. HIDE DEF total
  <2>5. PICK g : g = (CHOOSE y : Tallies(y, rule, hs, n)) /\ Tallies(g, rule, hs, n)
    BY <2>4
  <2>6. Score(rule, hs) = g[n]
    BY <1>1, <1>4, <2>5 DEF Score, Tallies
  <2>. QED
    BY <2>1, <2>3, <2>4, <2>5, <2>6
<1>. QED
  BY <1>3, <1>4

\* The better of two, the one that comes later first.
Better(rule, x, y) == IF FirstChainIsBetter(rule, x, y) THEN x ELSE y

\* Of three candidates, the second is compared with the first, the third with the
\* better one.
LEMMA BestOfThree ==
    ASSUME NEW rule, NEW c, NEW d, NEW e
    PROVE  BestChain(rule, <<c, d, e>>) = Better(rule, e, Better(rule, d, c))
<1>1. PICK cs : cs = <<c, d, e>>
  OBVIOUS
<1>2. Len(cs) = 3 /\ cs[1] = c /\ cs[2] = d /\ cs[3] = e
  BY <1>1
<1>. DEFINE Picks(g) == g = [i \in 0..3 |->
                               IF i = 0 THEN c
                               ELSE IF FirstChainIsBetter(rule, cs[i], g[i - 1]) THEN cs[i]
                               ELSE g[i - 1]]
<1>3. PICK b, f : b = Better(rule, d, c) /\ f = Better(rule, e, b)
  OBVIOUS
<1>4. \E g : Picks(g)
  <2>1. PICK g : g = [i \in 0..3 |-> IF i <= 1 THEN c ELSE IF i = 2 THEN b ELSE f]
    OBVIOUS
  <2>2. g = [i \in 0..3 |-> g[i]] /\ g[0] = c /\ g[1] = c /\ g[2] = b /\ g[3] = f
    BY <2>1
  <2>3. ASSUME NEW i \in 0..3
        PROVE  g[i] = IF i = 0 THEN c
                      ELSE IF FirstChainIsBetter(rule, cs[i], g[i - 1]) THEN cs[i]
                      ELSE g[i - 1]
    <3>1. i \in {0, 1, 2, 3}
      OBVIOUS
    <3>2. CASE i = 0
      BY <2>2, <3>2
    <3>3. CASE i = 1
      BY <1>2, <2>2, <3>3
    <3>4. CASE i = 2
      BY <1>2, <1>3, <2>2, <3>4 DEF Better
    <3>5. CASE i = 3
      BY <1>2, <1>3, <2>2, <3>5 DEF Better
    <3>. QED
      BY <3>1, <3>2, <3>3, <3>4, <3>5
  <2>4. Picks(g)
    BY <2>2, <2>3
  <2>. QED
    BY <2>4
<1>5. PICK g : g = (CHOOSE y : Picks(y)) /\ Picks(g)
  <2>. HIDE DEF Picks
  <2>. QED
    BY <1>4
<1>6. BestChain(rule, cs) = g[3]
  BY <1>2, <1>5 DEF BestChain
<1>7. g[0] = c /\ g[1] = c
  BY <1>2, <1>5
<1>8. g[2] = b
  BY <1>2, <1>3, <1>5, <1>7 DEF Better
<1>9. g[3] = f
  BY <1>2, <1>3, <1>5, <1>8 DEF Better
<1>. QED
  BY <1>1, <1>3, <1>6, <1>9

\* The first or the last of those with the highest of three scores.
LEMMA HighestOfThree ==
    ASSUME NEW p \in Nat, NEW q \in Nat, NEW r \in Nat
    PROVE  Max({p, q, r}) = IF p >= q /\ p >= r THEN p ELSE IF q >= r THEN q ELSE r
<1>1. PICK n \in Nat : p <= n /\ q <= n /\ r <= n
  <2>1. p + q + r \in Nat /\ p <= p + q + r /\ q <= p + q + r /\ r <= p + q + r
    OBVIOUS
  <2>. QED
    BY <2>1
<1>2. {p, q, r} \in SUBSET Nat /\ {p, q, r} # {} /\ \A i \in {p, q, r} : i <= n
  BY <1>1
<1>3. Max({p, q, r}) \in {p, q, r} /\ \A i \in {p, q, r} : i <= Max({p, q, r})
  BY <1>2, MaxOfNats
<1>4. PICK top \in Nat : top = Max({p, q, r})
  BY <1>3
<1>5. top \in {p, q, r} /\ p <= top /\ q <= top /\ r <= top
  BY <1>3, <1>4
<1>6. top = IF p >= q /\ p >= r THEN p ELSE IF q >= r THEN q ELSE r
  BY <1>5
<1>. QED
  BY <1>4, <1>6

\* The headers of what best_chain may get, and their nonces.
LEMMA CandidatesAreHeaders ==
    ASSUME Shaped, lesson = "batched_extrinsics"
    PROVE  \E S : /\ \A h \in S : h.consensus_digest \in Nat
                 /\ \A x \in Candidates : x \in Seq(S)
<1>1. PICK S : S = {chain[i].header : i \in 1..Len(chain)}
  OBVIOUS
<1>2. DOMAIN chain = 1..Len(chain) /\ Len(chain) \in Nat
  BY ChainSeq
<1>3. ASSUME NEW h \in S PROVE h.consensus_digest \in Nat
  <2>1. PICK i \in 1..Len(chain) : h = chain[i].header
    BY <1>1
  <2>2. Fits(lesson, chain[i])
    BY ChainSeq
  <2>. QED
    BY <2>1, <2>2 DEF Fits, ProofOfWork
<1>4. Headers \in Seq(S) /\ Len(Headers) = Len(chain)
  <2>1. Headers = [i \in 1..Len(chain) |-> chain[i].header]
    BY <1>2 DEF Headers
  <2>2. \A i \in 1..Len(chain) : chain[i].header \in S
    BY <1>1
  <2>. QED
    BY <1>2, <2>1, <2>2
<1>5. ASSUME NEW x \in Candidates PROVE x \in Seq(S)
  <2>1. PICK i \in 1..Len(chain) : x = SubSeq(Headers, 1, i) \/ x = SubSeq(Headers, i, Len(chain))
    BY <1>2 DEF Candidates
  <2>2. i \in Nat /\ 1 <= i /\ i <= Len(chain)
    BY <1>2
  <2>3. SubSeq(Headers, 1, i) \in Seq(S) /\ SubSeq(Headers, i, Len(chain)) \in Seq(S)
    BY <1>2, <1>4, <2>2
  <2>. QED
    BY <2>1, <2>3
<1>. QED
  BY <1>3, <1>5

\* What BestScores says of three candidates.
IsBest(rule, c, d, e) ==
    LET score(x) == TrueScore(rule, x)
        top == Max({score(x) : x \in {c, d, e}})
    IN BestChain(rule, <<c, d, e>>) =
         IF rule = "MostBlocksWithEvenHash"
         THEN CASE score(c) = top -> c
                [] score(c) # top /\ score(d) = top -> d
                [] OTHER -> e
         ELSE CASE score(e) = top -> e
                [] score(e) # top /\ score(d) = top -> d
                [] OTHER -> c

\* best_chain finds a chain with the highest score, whatever the order of the
\* candidates, as long as the scores fit a word: of several such the last, or for even
\* hashes the first (LongestChainRule, HeaviestChainRule, MostBlocksWithEvenHash).
THEOREM BestChainIsBest ==
    ASSUME WorkIsNumber PROVE ChainsSpec => []BestScores
<1>1. Shaped => BestScores
  <2>. SUFFICES ASSUME Shaped, lesson = "batched_extrinsics", NEW rule \in ChainRules,
                       NEW c \in Candidates, NEW d \in Candidates, NEW e \in Candidates,
                       TrueScore(rule, c) < Word, TrueScore(rule, d) < Word, TrueScore(rule, e) < Word
                PROVE  IsBest(rule, c, d, e)
    <3>1. BestScores <=>
            (lesson = "batched_extrinsics" /\ Whole =>
               \A rule \in ChainRules :
               \A c, d, e \in {x \in Candidates : TrueScore(rule, x) < Word} : IsBest(rule, c, d, e))
      BY DEF BestScores, IsBest
    <3>. QED
      BY <3>1
  <2>1. PICK S : (\A h \in S : h.consensus_digest \in Nat) /\ \A x \in Candidates : x \in Seq(S)
    BY CandidatesAreHeaders
  <2>2. PICK p \in Nat, q \in Nat, r \in Nat :
          /\ p = TrueScore(rule, c) /\ p = Score(rule, c)
          /\ q = TrueScore(rule, d) /\ q = Score(rule, d)
          /\ r = TrueScore(rule, e) /\ r = Score(rule, e)
    <3>1. /\ TrueScore(rule, c) = Score(rule, c) /\ TrueScore(rule, c) \in Nat
          /\ TrueScore(rule, d) = Score(rule, d) /\ TrueScore(rule, d) \in Nat
          /\ TrueScore(rule, e) = Score(rule, e) /\ TrueScore(rule, e) \in Nat
      BY <2>1, ScoreIsTrue
    <3>. QED
      BY <3>1
  <2>3. {TrueScore(rule, x) : x \in {c, d, e}} = {p, q, r}
    BY <2>2
  <2>4. PICK top : top = Max({p, q, r})
                   /\ top = IF p >= q /\ p >= r THEN p ELSE IF q >= r THEN q ELSE r
    BY HighestOfThree
  <2>5. BestChain(rule, <<c, d, e>>) = Better(rule, e, Better(rule, d, c))
    BY BestOfThree
  <2>6. CASE rule = "MostBlocksWithEvenHash"
    <3>1. Better(rule, d, c) = IF q > p THEN d ELSE c
      BY <2>2, <2>6 DEF Better, FirstChainIsBetter
    <3>2. Better(rule, e, d) = (IF r > q THEN e ELSE d) /\ Better(rule, e, c) = (IF r > p THEN e ELSE c)
      BY <2>2, <2>6 DEF Better, FirstChainIsBetter
    <3>3. Better(rule, e, Better(rule, d, c))
            = CASE p = top -> c [] p # top /\ q = top -> d [] OTHER -> e
      BY <2>4, <3>1, <3>2
    <3>. QED
      BY <2>2, <2>3, <2>4, <2>5, <2>6, <3>3 DEF IsBest
  <2>7. CASE rule # "MostBlocksWithEvenHash"
    <3>1. Better(rule, d, c) = IF q >= p THEN d ELSE c
      BY <2>2, <2>7 DEF Better, FirstChainIsBetter
    <3>2. Better(rule, e, d) = (IF r >= q THEN e ELSE d) /\ Better(rule, e, c) = (IF r >= p THEN e ELSE c)
      BY <2>2, <2>7 DEF Better, FirstChainIsBetter
    <3>3. Better(rule, e, Better(rule, d, c))
            = CASE r = top -> e [] r # top /\ q = top -> d [] OTHER -> c
      BY <2>4, <3>1, <3>2
    <3>. QED
      BY <2>2, <2>3, <2>4, <2>5, <2>7, <3>3 DEF IsBest
  <2>. QED
    BY <2>6, <2>7
<1>. QED
  BY <1>1, AlwaysShaped, PTL
=============================================================================
