------------------------- MODULE Collections_proofs -------------------------
(***************************************************************************)
(* Lemmas that the proofs of several components rest on: induction over    *)
(* the naturals and over finite sets, what sums over sets are, and what    *)
(* the operators of TransactionPool make of a queue.                       *)
(*                                                                         *)
(* An induction hypothesis is a set here, of the numbers or of the sets    *)
(* that it holds for: a lemma that takes an operator for it could not be   *)
(* instantiated.                                                           *)
(***************************************************************************)
EXTENDS TransactionPool, SequenceTheorems, FiniteSetTheorems, NaturalsInduction, TLAPS

-----------------------------------------------------------------------------
(* Numbers *)

\* A non-empty set of naturals has a least element, and Min picks it.
LEMMA MinOfNats ==
    ASSUME NEW I \in SUBSET Nat, I # {}
    PROVE  Min(I) \in I /\ \A i \in I : Min(I) <= i
<1>1. PICK x \in I : \A y \in I : ~ (<<y, x>> \in OpToRel(<, Nat))
  BY NatLessThanWellFounded, WFMin, Zenon
<1>2. \A y \in I : ~ (y < x)
  BY <1>1, Zenon DEF OpToRel
<1>3. \A y \in I : x <= y
  BY <1>2
<1>. QED
  BY <1>3 DEF Min

\* A bounded, non-empty set of naturals has a greatest element, and Max picks it.
LEMMA MaxOfNats ==
    ASSUME NEW I \in SUBSET Nat, I # {}, NEW n \in Nat, \A i \in I : i <= n
    PROVE  Max(I) \in I /\ \A i \in I : i <= Max(I)
<1>. DEFINE U == {k \in Nat : \A i \in I : i <= k}
<1>1. U \in SUBSET Nat /\ U # {}
  OBVIOUS
<1>2. PICK m \in U : \A k \in U : ~ (<<k, m>> \in OpToRel(<, Nat))
  BY <1>1, NatLessThanWellFounded, WFMin, Zenon
<1>3. \A k \in U : ~ (k < m)
  BY <1>2, Zenon DEF OpToRel
<1>4. m \in Nat /\ \A i \in I : i <= m
  OBVIOUS
<1>5. m \in I
  <2>. SUFFICES ASSUME m \notin I PROVE FALSE
    OBVIOUS
  <2>1. \A i \in I : i \in Nat /\ i < m
    BY <1>4
  <2>2. PICK j : j \in I
    OBVIOUS
  <2>3. m - 1 \in Nat /\ m - 1 < m
    BY <1>4, <2>1, <2>2
  <2>4. \A i \in I : i <= m - 1
    BY <1>4, <2>1
  <2>5. m - 1 \in U
    BY <2>3, <2>4
  <2>. QED  BY <1>3, <2>3, <2>5
<1>6. m \in I /\ \A i \in I : m >= i
  BY <1>4, <1>5
<1>. HIDE DEF U
<1>. QED  BY <1>6 DEF Max

\* Induction over the naturals, for what a set of naturals can say.
LEMMA CountingUp ==
    ASSUME NEW P, 0 \in P, \A n \in Nat : n \in P => n + 1 \in P
    PROVE  Nat \subseteq P
<1>. DEFINE bad == Nat \ P
<1>1. CASE bad = {}
  BY <1>1
<1>2. CASE bad # {}
  <2>1. Min(bad) \in bad /\ \A i \in bad : Min(bad) <= i
    BY <1>2, MinOfNats
  <2>. DEFINE m == Min(bad)
  <2>2. m \in Nat /\ m \notin P /\ m # 0
    BY <2>1
  <2>. HIDE DEF m
  <2>3. m - 1 \in Nat /\ ~ (m <= m - 1) /\ (m - 1) + 1 = m
    BY <2>2
  <2>4. m - 1 \in P
    BY <2>1, <2>3 DEF m
  <2>. QED
    BY <2>2, <2>3, <2>4
<1>. QED
  BY <1>1, <1>2

\* A value for every number up to n, each made from the one before it: there is a
\* function of them.
Counts(g, n, base, step) ==
    g = [i \in 0..n |-> IF i = 0 THEN base ELSE step[<<i, g[i - 1]>>]]

LEMMA RecursionExists ==
    ASSUME NEW n \in Nat, NEW base, NEW step
    PROVE  \E g : Counts(g, n, base, step)
<1>. USE DEF Counts
<1>. DEFINE Values(g, k) == Counts(g, k, base, step)
            built == {k \in Nat : \E g : Values(g, k)}
<1>1. 0 \in built
  <2>1. Values([i \in 0..0 |-> base], 0)
    OBVIOUS
  <2>. QED
    BY <2>1
<1>2. ASSUME NEW k \in Nat, k \in built PROVE k + 1 \in built
  <2>1. PICK g : Values(g, k)
    BY <1>2
  <2>. DEFINE h == [i \in 0..k + 1 |-> IF i = 0 THEN base ELSE step[<<i, g[i - 1]>>]]
  <2>2. ASSUME NEW i \in 0..k PROVE h[i] = g[i]
    BY <2>1
  <2>3. ASSUME NEW i \in 0..k + 1
        PROVE  h[i] = IF i = 0 THEN base ELSE step[<<i, h[i - 1]>>]
    <3>1. h[i] = IF i = 0 THEN base ELSE step[<<i, g[i - 1]>>]
      OBVIOUS
    <3>2. i # 0 => i - 1 \in 0..k
      OBVIOUS
    <3>. HIDE DEF h
    <3>. QED
      BY <2>2, <3>1, <3>2
  <2>4. h = [i \in 0..k + 1 |-> h[i]]
    OBVIOUS
  <2>. HIDE DEF h
  <2>5. Values(h, k + 1)
    BY <2>3, <2>4
  <2>. QED
    BY <2>5
<1>. HIDE DEF built
<1>3. n \in built
  BY <1>1, <1>2, CountingUp
<1>. QED
  BY <1>3 DEF built

\* Every natural is a multiple of w and a rest below w,
LEMMA RestOf ==
    ASSUME NEW w \in Nat \ {0}, NEW x \in Nat
    PROVE  x = w * (x \div w) + (x % w) /\ x % w \in 0..w - 1 /\ x \div w \in Int
OBVIOUS

\* and of no other.
LEMMA RestIsUnique ==
    ASSUME NEW w \in Nat \ {0}, NEW q \in Int, NEW r \in 0..w - 1
    PROVE  (w * q + r) % w = r
OBVIOUS

\* A number that is read digit by digit may be cut after each digit or at the end.
LEMMA RestOfDigits ==
    ASSUME NEW w \in Nat \ {0}, NEW v \in Nat, NEW d \in Nat
    PROVE  ((v % w) * 10 + d) % w = (10 * v + d) % w
<1>. DEFINE r == v % w
            k == v \div w
            s == (r * 10 + d) % w
            m == (r * 10 + d) \div w
<1>1. v = w * k + r /\ r \in 0..w - 1 /\ k \in Int
  BY RestOf
<1>2. r * 10 + d \in Nat
  BY <1>1
<1>3. r * 10 + d = w * m + s /\ s \in 0..w - 1 /\ m \in Int
  BY <1>2, RestOf
<1>. HIDE DEF r, k, s, m
<1>4. PICK q \in Int : q = 10 * k + m
  BY <1>1, <1>3
<1>5. w * q = 10 * (w * k) + w * m
  BY <1>1, <1>3, <1>4
<1>6. w * k \in Int /\ w * m \in Int
  BY <1>1, <1>3
<1>7. 10 * v + d = w * q + s
  BY <1>1, <1>3, <1>5, <1>6
<1>8. (w * q + s) % w = s
  BY <1>3, RestIsUnique
<1>. QED
  BY <1>7, <1>8 DEF s, r

-----------------------------------------------------------------------------
(* Finite sets *)

\* Induction over the subsets of a finite set: take one element away.
LEMMA TakingAway ==
    ASSUME NEW S, IsFiniteSet(S), NEW P, {} \in P,
           \A T \in SUBSET S : T # {} /\ (\A x \in T : T \ {x} \in P) => T \in P
    PROVE  SUBSET S \subseteq P
<1>. DEFINE small == {n \in Nat : \A T \in SUBSET S : Cardinality(T) = n => T \in P}
<1>0. \A T \in SUBSET S : IsFiniteSet(T) /\ Cardinality(T) \in Nat
  BY FS_Subset, FS_CardinalityType
<1>1. 0 \in small
  BY <1>0, FS_EmptySet
<1>2. ASSUME NEW n \in Nat, n \in small PROVE n + 1 \in small
  <2>1. ASSUME NEW T \in SUBSET S, Cardinality(T) = n + 1 PROVE T \in P
    <3>0. Cardinality({}) = 0
      BY FS_EmptySet
    <3>1. Cardinality(T) # Cardinality({})
      BY <2>1, <3>0
    <3>2. ASSUME NEW x \in T PROVE T \ {x} \in P
      <4>1. Cardinality(T \ {x}) = Cardinality(T) - 1
        BY <1>0, FS_RemoveElement
      <4>2. T \ {x} \in SUBSET S /\ Cardinality(T \ {x}) = n
        BY <2>1, <4>1
      <4>. QED
        BY <1>2, <4>2
    <3>3. T # {}
      BY <3>1
    <3>. QED
      BY <3>2, <3>3
  <2>. QED
    BY <2>1
<1>. HIDE DEF small
<1>3. Nat \subseteq small
  BY <1>1, <1>2, CountingUp
<1>4. ASSUME NEW T \in SUBSET S PROVE T \in P
  BY <1>0, <1>3, <1>4 DEF small
<1>. QED
  BY <1>4

\* The same for the subsets of a finite set, if each value is made from the value of
\* the set without one element, which pick names.
CountsDown(g, sets, base, pick, step) ==
    g = [T \in sets |-> IF T = {} THEN base ELSE step[<<pick[T], g[T \ {pick[T]}]>>]]

LEMMA SetRecursionExists ==
    ASSUME NEW S, IsFiniteSet(S), NEW base, NEW step, NEW pick,
           \A T \in SUBSET S : T # {} => pick[T] \in T
    PROVE  \E g : CountsDown(g, SUBSET S, base, pick, step)
<1>. USE DEF CountsDown
<1>. DEFINE Values(g, sets) == CountsDown(g, sets, base, pick, step)
            UpToSize(n) == {T \in SUBSET S : Cardinality(T) <= n}
            built == {n \in Nat : \E g : Values(g, UpToSize(n))}
<1>0. \A T \in SUBSET S : IsFiniteSet(T) /\ Cardinality(T) \in Nat /\ Cardinality(T) <= Cardinality(S)
  BY FS_Subset, FS_CardinalityType
<1>1. 0 \in built
  <2>1. \A T \in UpToSize(0) : T = {}
    BY <1>0, FS_EmptySet
  <2>2. Values([T \in UpToSize(0) |-> base], UpToSize(0))
    BY <2>1
  <2>. QED
    BY <2>2
<1>2. ASSUME NEW n \in Nat, n \in built PROVE n + 1 \in built
  <2>1. PICK g : Values(g, UpToSize(n))
    BY <1>2
  <2>. DEFINE more == UpToSize(n + 1)
              h == [T \in more |-> IF T = {} THEN base ELSE step[<<pick[T], g[T \ {pick[T]}]>>]]
  <2>2. ASSUME NEW T \in UpToSize(n) PROVE h[T] = g[T]
    <3>1. T \in more
      BY <1>0
    <3>2. h[T] = IF T = {} THEN base ELSE step[<<pick[T], g[T \ {pick[T]}]>>]
      BY <3>1
    <3>. HIDE DEF h, UpToSize
    <3>3. g[T] = IF T = {} THEN base ELSE step[<<pick[T], g[T \ {pick[T]}]>>]
      BY <2>1
    <3>. QED
      BY <3>2, <3>3
  <2>3. ASSUME NEW T \in more, T # {} PROVE T \ {pick[T]} \in UpToSize(n)
    <3>1. pick[T] \in T
      BY <2>3
    <3>2. Cardinality(T \ {pick[T]}) = Cardinality(T) - 1
      BY <1>0, <3>1, FS_RemoveElement
    <3>3. Cardinality(T) \in Nat /\ Cardinality(T) <= n + 1
      BY <1>0, <2>3
    <3>4. Cardinality(T \ {pick[T]}) <= n
      BY <3>2, <3>3
    <3>. QED
      BY <2>3, <3>4
  <2>4. ASSUME NEW T \in more
        PROVE  h[T] = IF T = {} THEN base ELSE step[<<pick[T], h[T \ {pick[T]}]>>]
    <3>1. h[T] = IF T = {} THEN base ELSE step[<<pick[T], g[T \ {pick[T]}]>>]
      OBVIOUS
    <3>. HIDE DEF h, UpToSize
    <3>. QED
      BY <2>2, <2>3, <3>1
  <2>5. h = [T \in more |-> h[T]]
    OBVIOUS
  <2>. HIDE DEF h
  <2>6. Values(h, UpToSize(n + 1))
    <3>. HIDE DEF UpToSize
    <3>. QED
      BY <2>4, <2>5
  <2>7. \E u : Values(u, UpToSize(n + 1))
    BY <2>6
  <2>. HIDE DEF UpToSize, Values
  <2>. QED
    BY <2>7
<1>. DEFINE n == Cardinality(S)
<1>3. n \in Nat
  BY FS_CardinalityType
<1>4. UpToSize(n) = SUBSET S
  BY <1>0
<1>. HIDE DEF built, n, UpToSize
<1>5. n \in built
  BY <1>1, <1>2, <1>3, CountingUp
<1>. QED
  BY <1>4, <1>5 DEF built

-----------------------------------------------------------------------------
(* Sums over a set: SumFunctionOnSet, a fold of the library *)

\* The element that the library takes out of a set first.
ChosenOf(s) == CHOOSE x \in s : TRUE

\* g sums fun up over every set of its domain, taking away one chosen element at a time
SumsUp(g, fun, sets) ==
    g = [s \in sets |-> IF s = {} THEN 0 ELSE fun[ChosenOf(s)] + g[s \ {ChosenOf(s)}]]

LEMMA ChosenIsIn == ASSUME NEW s, s # {} PROVE ChosenOf(s) \in s
BY DEF ChosenOf

LEMMA SumIsChosen == ASSUME NEW fun, NEW S
  PROVE SumFunctionOnSet(fun, S) = (CHOOSE g : SumsUp(g, fun, SUBSET S))[S]
BY DEF SumFunctionOnSet, FoldFunctionOnSet, MapThenFoldSet, SumsUp, ChosenOf

\* There is such a function: it is built for sets of 0, 1, 2 elements, and so on.
LEMMA SumsUpExists ==
    ASSUME NEW fun, NEW S, IsFiniteSet(S)
    PROVE  \E g : SumsUp(g, fun, SUBSET S)
<1>. DEFINE UpToSize(n) == {T \in SUBSET S : Cardinality(T) <= n}
            built == {n \in Nat : \E g : SumsUp(g, fun, UpToSize(n))}
<1>0. \A T \in SUBSET S : IsFiniteSet(T) /\ Cardinality(T) \in Nat /\ Cardinality(T) <= Cardinality(S)
  BY FS_Subset, FS_CardinalityType
<1>1. 0 \in built
  <2>1. \A T \in UpToSize(0) : T = {}
    BY <1>0, FS_EmptySet
  <2>2. SumsUp([T \in UpToSize(0) |-> 0], fun, UpToSize(0))
    BY <2>1 DEF SumsUp
  <2>. QED
    BY <2>2
<1>2. ASSUME NEW n \in Nat, n \in built PROVE n + 1 \in built
  <2>1. PICK g : SumsUp(g, fun, UpToSize(n))
    BY <1>2
  <2>. DEFINE more == UpToSize(n + 1)
              h == [T \in more |->
                      IF T = {} THEN 0 ELSE fun[ChosenOf(T)] + g[T \ {ChosenOf(T)}]]
  <2>2. ASSUME NEW T \in UpToSize(n) PROVE h[T] = g[T]
    <3>1. T \in more
      BY <1>0
    <3>2. h[T] = IF T = {} THEN 0 ELSE fun[ChosenOf(T)] + g[T \ {ChosenOf(T)}]
      BY <3>1
    <3>. HIDE DEF h, UpToSize
    <3>3. g[T] = IF T = {} THEN 0 ELSE fun[ChosenOf(T)] + g[T \ {ChosenOf(T)}]
      BY <2>1 DEF SumsUp
    <3>. QED
      BY <3>2, <3>3
  <2>3. ASSUME NEW T \in more, T # {} PROVE T \ {ChosenOf(T)} \in UpToSize(n)
    <3>1. ChosenOf(T) \in T
      BY <2>3, ChosenIsIn
    <3>2. Cardinality(T \ {ChosenOf(T)}) = Cardinality(T) - 1
      BY <1>0, <3>1, FS_RemoveElement
    <3>3. Cardinality(T) \in Nat /\ Cardinality(T) <= n + 1
      BY <1>0, <2>3
    <3>4. Cardinality(T \ {ChosenOf(T)}) <= n
      BY <3>2, <3>3
    <3>. QED
      BY <2>3, <3>4
  <2>4. h = [T \in more |-> IF T = {} THEN 0 ELSE fun[ChosenOf(T)] + h[T \ {ChosenOf(T)}]]
    <3>1. ASSUME NEW T \in more
          PROVE  h[T] = IF T = {} THEN 0 ELSE fun[ChosenOf(T)] + h[T \ {ChosenOf(T)}]
      <4>1. h[T] = IF T = {} THEN 0 ELSE fun[ChosenOf(T)] + g[T \ {ChosenOf(T)}]
        OBVIOUS
      <4>. HIDE DEF h, UpToSize
      <4>. QED
        BY <2>2, <2>3, <4>1
    <3>. DEFINE k == [T \in more |-> IF T = {} THEN 0 ELSE fun[ChosenOf(T)] + h[T \ {ChosenOf(T)}]]
    <3>2. \A T \in more : h[T] = k[T]
      <4>. HIDE DEF h
      <4>. QED BY <3>1
    <3>3. DOMAIN h = more /\ DOMAIN k = more /\ h = [T \in more |-> h[T]] /\ k = [T \in more |-> k[T]]
      OBVIOUS
    <3>. HIDE DEF h, k, more
    <3>4. h = k
      BY <3>2, <3>3
    <3>. QED
      BY <3>4 DEF k
  <2>5. SumsUp(h, fun, more)
    BY <2>4, Zenon DEF SumsUp
  <2>. HIDE DEF h
  <2>6. \E sum : SumsUp(sum, fun, UpToSize(n + 1))
    BY <2>5
  <2>. HIDE DEF UpToSize
  <2>. QED
    BY <2>6
<1>. DEFINE n == Cardinality(S)
<1>3. n \in Nat
  BY FS_CardinalityType
<1>4. UpToSize(n) = SUBSET S
  BY <1>0
<1>. HIDE DEF built, n, UpToSize
<1>5. n \in built
  BY <1>1, <1>2, <1>3, CountingUp
<1>. QED
  BY <1>4, <1>5 DEF built

\* g and h agree on the empty set, and on a set if they do without one of its elements.
Agreeing(g, h, S) ==
    /\ g[{}] = h[{}]
    /\ \A T \in SUBSET S : T # {} /\ (\A x \in T : g[T \ {x}] = h[T \ {x}]) => g[T] = h[T]

LEMMA SameSums ==
    ASSUME NEW S, IsFiniteSet(S), NEW g, NEW h, Agreeing(g, h, S)
    PROVE  \A T \in SUBSET S : g[T] = h[T]
<1>. DEFINE same == {T \in SUBSET S : g[T] = h[T]}
<1>1. {} \in same
  BY DEF Agreeing
<1>2. ASSUME NEW T \in SUBSET S, T # {}, \A x \in T : T \ {x} \in same PROVE T \in same
  BY <1>2 DEF Agreeing
<1>. HIDE DEF same
<1>3. SUBSET S \subseteq same
  BY <1>1, <1>2, TakingAway
<1>. QED
  BY <1>3 DEF same

\* The sum over a set takes its chosen element and the sum over the others.
LEMMA SumByChoice ==
    ASSUME NEW fun, NEW S, IsFiniteSet(S)
    PROVE  SumFunctionOnSet(fun, S)
             = IF S = {} THEN 0 ELSE fun[ChosenOf(S)] + SumFunctionOnSet(fun, S \ {ChosenOf(S)})
<1>1. ASSUME NEW R, IsFiniteSet(R)
      PROVE  \E g : SumsUp(g, fun, SUBSET R) /\ SumFunctionOnSet(fun, R) = g[R]
  BY <1>1, SumsUpExists, SumIsChosen
<1>2. PICK g : SumsUp(g, fun, SUBSET S) /\ SumFunctionOnSet(fun, S) = g[S]
  BY <1>1
<1>3. g[S] = IF S = {} THEN 0 ELSE fun[ChosenOf(S)] + g[S \ {ChosenOf(S)}]
  BY <1>2 DEF SumsUp
<1>4. CASE S = {}
  BY <1>2, <1>3, <1>4
<1>5. CASE S # {}
  <2>. DEFINE R == S \ {ChosenOf(S)}
  <2>1. R \subseteq S /\ IsFiniteSet(R)
    BY FS_Subset
  <2>. HIDE DEF R
  <2>2. PICK h : SumsUp(h, fun, SUBSET R) /\ SumFunctionOnSet(fun, R) = h[R]
    BY <1>1, <2>1
  <2>3. \A T \in SUBSET R :
           /\ h[T] = IF T = {} THEN 0 ELSE fun[ChosenOf(T)] + h[T \ {ChosenOf(T)}]
           /\ g[T] = IF T = {} THEN 0 ELSE fun[ChosenOf(T)] + g[T \ {ChosenOf(T)}]
    BY <1>2, <2>1, <2>2 DEF SumsUp
  <2>4. g[{}] = h[{}]
    BY <2>3
  <2>5. ASSUME NEW T \in SUBSET R, T # {}, \A x \in T : g[T \ {x}] = h[T \ {x}]
        PROVE  g[T] = h[T]
    <3>1. ChosenOf(T) \in T
      BY <2>5, ChosenIsIn
    <3>. QED
      BY <2>3, <2>5, <3>1
  <2>6. \A T \in SUBSET R : g[T] = h[T]
    <3>1. Agreeing(g, h, R)
      BY <2>4, <2>5 DEF Agreeing
    <3>. QED
      BY <2>1, <3>1, SameSums
  <2>7. g[R] = h[R]
    BY <2>6
  <2>. QED
    BY <1>2, <1>3, <1>5, <2>2, <2>7 DEF R
<1>. QED
  BY <1>4, <1>5

\* Sums of integers are integers.
LEMMA SumIsInt ==
    ASSUME NEW S, IsFiniteSet(S), NEW fun, \A x \in S : fun[x] \in Int
    PROVE  SumFunctionOnSet(fun, S) \in Int
<1>. DEFINE typed == {T \in SUBSET S : SumFunctionOnSet(fun, T) \in Int}
<1>1. {} \in typed
  <2>1. SumFunctionOnSet(fun, {}) = 0
    BY SumByChoice, FS_EmptySet
  <2>. QED
    BY <2>1
<1>2. ASSUME NEW T \in SUBSET S, T # {}, \A x \in T : T \ {x} \in typed PROVE T \in typed
  <2>1. ChosenOf(T) \in T /\ IsFiniteSet(T)
    BY <1>2, ChosenIsIn, FS_Subset
  <2>2. SumFunctionOnSet(fun, T) = fun[ChosenOf(T)] + SumFunctionOnSet(fun, T \ {ChosenOf(T)})
    BY <1>2, <2>1, SumByChoice
  <2>. QED
    BY <1>2, <2>1, <2>2
<1>. HIDE DEF typed
<1>3. SUBSET S \subseteq typed
  BY <1>1, <1>2, TakingAway
<1>. QED
  BY <1>3 DEF typed

\* It does not matter in which order a sum is taken.
LEMMA SumTakesAny ==
    ASSUME NEW S, IsFiniteSet(S), NEW fun, \A x \in S : fun[x] \in Int, NEW y \in S
    PROVE  SumFunctionOnSet(fun, S) = fun[y] + SumFunctionOnSet(fun, S \ {y})
<1>. DEFINE sum(T) == SumFunctionOnSet(fun, T)
            any == {T \in SUBSET S : \A x \in T : sum(T) = fun[x] + sum(T \ {x})}
<1>0. \A T \in SUBSET S : IsFiniteSet(T) /\ sum(T) \in Int
  BY FS_Subset, SumIsInt
<1>1. {} \in any
  OBVIOUS
<1>2. ASSUME NEW T \in SUBSET S, T # {}, \A x \in T : T \ {x} \in any PROVE T \in any
  <2>. DEFINE f == ChosenOf(T)
  <2>1. f \in T
    BY <1>2, ChosenIsIn
  <2>2. sum(T) = fun[f] + sum(T \ {f})
    BY <1>0, <1>2, SumByChoice
  <2>. HIDE DEF f
  <2>3. ASSUME NEW x \in T PROVE sum(T) = fun[x] + sum(T \ {x})
    <3>1. CASE x = f
      BY <2>2, <3>1
    <3>2. CASE x # f
      <4>1. x \in T \ {f} /\ f \in T \ {x} /\ (T \ {f}) \ {x} = (T \ {x}) \ {f}
        BY <2>1, <3>2
      <4>2. sum(T \ {f}) = fun[x] + sum((T \ {f}) \ {x})
        BY <1>2, <2>1, <4>1
      <4>3. sum(T \ {x}) = fun[f] + sum((T \ {x}) \ {f})
        BY <1>2, <2>1, <4>1
      <4>4. sum((T \ {x}) \ {f}) \in Int
        BY <1>0
      <4>5. fun[x] \in Int /\ fun[f] \in Int
        BY <2>1
      <4>6. sum((T \ {f}) \ {x}) = sum((T \ {x}) \ {f})
        BY <4>1
      <4>. HIDE DEF sum
      <4>7. sum(T) = fun[f] + (fun[x] + sum((T \ {x}) \ {f}))
        BY <2>2, <4>2, <4>6
      <4>. QED
        BY <4>3, <4>4, <4>5, <4>7
    <3>. QED
      BY <3>1, <3>2
  <2>. HIDE DEF sum
  <2>. QED
    BY <2>3
<1>. HIDE DEF any
<1>3. SUBSET S \subseteq any
  BY <1>1, <1>2, TakingAway
<1>. QED
  BY <1>3 DEF any

LEMMA SumIsNat ==
    ASSUME NEW S, IsFiniteSet(S), NEW fun, \A x \in S : fun[x] \in Nat
    PROVE  SumFunctionOnSet(fun, S) \in Nat
<1>. DEFINE typed == {T \in SUBSET S : SumFunctionOnSet(fun, T) \in Nat}
<1>1. {} \in typed
  <2>1. SumFunctionOnSet(fun, {}) = 0
    BY SumByChoice, FS_EmptySet
  <2>. QED
    BY <2>1
<1>2. ASSUME NEW T \in SUBSET S, T # {}, \A x \in T : T \ {x} \in typed PROVE T \in typed
  <2>1. ChosenOf(T) \in T /\ IsFiniteSet(T)
    BY <1>2, ChosenIsIn, FS_Subset
  <2>2. SumFunctionOnSet(fun, T) = fun[ChosenOf(T)] + SumFunctionOnSet(fun, T \ {ChosenOf(T)})
    BY <1>2, <2>1, SumByChoice
  <2>. QED
    BY <1>2, <2>1, <2>2
<1>. HIDE DEF typed
<1>3. SUBSET S \subseteq typed
  BY <1>1, <1>2, TakingAway
<1>. QED
  BY <1>3 DEF typed

\* A sum depends on the values in its set only.
LEMMA SumOfSame ==
    ASSUME NEW S, IsFiniteSet(S), NEW f, NEW g, \A x \in S : f[x] = g[x]
    PROVE  SumFunctionOnSet(f, S) = SumFunctionOnSet(g, S)
<1>. DEFINE same == {T \in SUBSET S : SumFunctionOnSet(f, T) = SumFunctionOnSet(g, T)}
<1>1. {} \in same
  <2>1. SumFunctionOnSet(f, {}) = 0 /\ SumFunctionOnSet(g, {}) = 0
    BY SumByChoice, FS_EmptySet
  <2>. QED
    BY <2>1
<1>2. ASSUME NEW T \in SUBSET S, T # {}, \A x \in T : T \ {x} \in same PROVE T \in same
  <2>1. ChosenOf(T) \in T /\ IsFiniteSet(T)
    BY <1>2, ChosenIsIn, FS_Subset
  <2>2. /\ SumFunctionOnSet(f, T) = f[ChosenOf(T)] + SumFunctionOnSet(f, T \ {ChosenOf(T)})
        /\ SumFunctionOnSet(g, T) = g[ChosenOf(T)] + SumFunctionOnSet(g, T \ {ChosenOf(T)})
    BY <1>2, <2>1, SumByChoice
  <2>. QED
    BY <1>2, <2>1, <2>2
<1>. HIDE DEF same
<1>3. SUBSET S \subseteq same
  BY <1>1, <1>2, TakingAway
<1>. QED
  BY <1>3 DEF same

\* What one more element adds.
LEMMA SumOfOneMore ==
    ASSUME NEW S, IsFiniteSet(S), NEW fun, \A x \in S : fun[x] \in Int,
           NEW y, y \notin S, fun[y] \in Int
    PROVE  /\ IsFiniteSet(S \cup {y})
           /\ SumFunctionOnSet(fun, S \cup {y}) = fun[y] + SumFunctionOnSet(fun, S)
<1>. DEFINE T == S \cup {y}
<1>1. IsFiniteSet(T) /\ y \in T /\ T \ {y} = S /\ \A x \in T : fun[x] \in Int
  BY FS_AddElement
<1>. HIDE DEF T
<1>2. SumFunctionOnSet(fun, T) = fun[y] + SumFunctionOnSet(fun, T \ {y})
  BY <1>1, SumTakesAny
<1>. QED
  BY <1>1, <1>2 DEF T

\* What another value of one element changes.
LEMMA SumOfOneChanged ==
    ASSUME NEW S, IsFiniteSet(S), NEW f, NEW g, NEW y \in S,
           \A x \in S : f[x] \in Int /\ g[x] \in Int,
           \A x \in S : x # y => g[x] = f[x]
    PROVE  SumFunctionOnSet(g, S) = SumFunctionOnSet(f, S) - f[y] + g[y]
<1>. DEFINE T == S \ {y}
<1>1. IsFiniteSet(T) /\ \A x \in T : x \in S /\ x # y
  BY FS_Subset
<1>2. SumFunctionOnSet(f, S) = f[y] + SumFunctionOnSet(f, T)
  BY SumTakesAny
<1>3. SumFunctionOnSet(g, S) = g[y] + SumFunctionOnSet(g, T)
  BY SumTakesAny
<1>. HIDE DEF T
<1>4. SumFunctionOnSet(f, T) \in Int
  BY <1>1, SumIsInt
<1>5. SumFunctionOnSet(g, T) = SumFunctionOnSet(f, T)
  BY <1>1, SumOfSame
<1>6. f[y] \in Int /\ g[y] \in Int
  OBVIOUS
<1>. QED
  BY <1>2, <1>3, <1>4, <1>5, <1>6

\* No part of a sum of naturals exceeds it.
LEMMA PartOfSum ==
    ASSUME NEW S, IsFiniteSet(S), NEW fun, \A x \in S : fun[x] \in Nat, NEW y \in S
    PROVE  fun[y] <= SumFunctionOnSet(fun, S)
<1>. DEFINE T == S \ {y}
<1>1. IsFiniteSet(T) /\ \A x \in T : x \in S
  BY FS_Subset
<1>2. SumFunctionOnSet(fun, S) = fun[y] + SumFunctionOnSet(fun, T)
  BY SumTakesAny
<1>. HIDE DEF T
<1>3. SumFunctionOnSet(fun, T) \in Nat
  BY <1>1, SumIsNat
<1>. QED
  BY <1>2, <1>3

\* Sums over two sets that have nothing in common.
LEMMA SumOfUnion ==
    ASSUME NEW S, IsFiniteSet(S), NEW R, IsFiniteSet(R), S \cap R = {},
           NEW fun, \A x \in S \cup R : fun[x] \in Int
    PROVE  /\ IsFiniteSet(S \cup R)
           /\ SumFunctionOnSet(fun, S \cup R)
                = SumFunctionOnSet(fun, S) + SumFunctionOnSet(fun, R)
<1>. DEFINE sum(T) == SumFunctionOnSet(fun, T)
            split == {T \in SUBSET R : IsFiniteSet(S \cup T) /\ sum(S \cup T) = sum(S) + sum(T)}
<1>0. sum(S) \in Int /\ \A T \in SUBSET R : IsFiniteSet(T) /\ sum(T) \in Int
  BY FS_Subset, SumIsInt
<1>1. {} \in split
  <2>1. sum({}) = 0 /\ S \cup {} = S
    BY SumByChoice, FS_EmptySet
  <2>2. sum(S) = sum(S) + 0
    BY <1>0
  <2>. HIDE DEF sum
  <2>. QED
    BY <2>1, <2>2
<1>2. ASSUME NEW T \in SUBSET R, T # {}, \A x \in T : T \ {x} \in split PROVE T \in split
  <2>1. PICK x : x \in T
    BY <1>2
  <2>. DEFINE U == T \ {x}
  <2>2. IsFiniteSet(S \cup U) /\ sum(S \cup U) = sum(S) + sum(U)
    BY <1>2, <2>1
  <2>3. /\ x \notin S \cup U /\ fun[x] \in Int /\ \A y \in S \cup U : fun[y] \in Int
        /\ (S \cup U) \cup {x} = S \cup T
    BY <2>1
  <2>4. sum(T) = fun[x] + sum(U)
    BY <1>0, <2>1, SumTakesAny
  <2>5. sum(U) \in Int
    BY <1>0
  <2>. HIDE DEF U
  <2>6. IsFiniteSet((S \cup U) \cup {x}) /\ sum((S \cup U) \cup {x}) = fun[x] + sum(S \cup U)
    BY <2>2, <2>3, SumOfOneMore
  <2>7. IsFiniteSet(S \cup T) /\ sum(S \cup T) = fun[x] + sum(S \cup U)
    BY <2>3, <2>6
  <2>. HIDE DEF sum
  <2>8. sum(S \cup T) = sum(S) + sum(T)
    BY <1>0, <2>2, <2>3, <2>4, <2>5, <2>7
  <2>. QED
    BY <2>7, <2>8
<1>. HIDE DEF split
<1>3. SUBSET R \subseteq split
  BY <1>1, <1>2, TakingAway
<1>. QED
  BY <1>3 DEF split

\* Whatever takes one element after another out of a set, and adds up, sums.
LEMMA SumsAreUnique ==
    ASSUME NEW S, IsFiniteSet(S), NEW fun, \A x \in S : fun[x] \in Int, NEW g, g[{}] = 0,
           \A T \in SUBSET S : T # {} => \E x \in T : g[T] = fun[x] + g[T \ {x}]
    PROVE  g[S] = SumFunctionOnSet(fun, S)
<1>. DEFINE summed == {T \in SUBSET S : g[T] = SumFunctionOnSet(fun, T)}
<1>1. {} \in summed
  <2>1. SumFunctionOnSet(fun, {}) = 0
    BY SumByChoice, FS_EmptySet
  <2>. QED
    BY <2>1
<1>2. ASSUME NEW T \in SUBSET S, T # {}, \A x \in T : T \ {x} \in summed PROVE T \in summed
  <2>1. PICK x \in T : g[T] = fun[x] + g[T \ {x}]
    BY <1>2
  <2>2. IsFiniteSet(T)
    BY FS_Subset
  <2>3. SumFunctionOnSet(fun, T) = fun[x] + SumFunctionOnSet(fun, T \ {x})
    BY <2>2, SumTakesAny
  <2>. QED
    BY <1>2, <2>1, <2>3
<1>. HIDE DEF summed
<1>3. SUBSET S \subseteq summed
  BY <1>1, <1>2, TakingAway
<1>. QED
  BY <1>3 DEF summed

\* A function on a finite set takes finitely many values.
LEMMA FiniteRange ==
    ASSUME NEW f, IsFiniteSet(DOMAIN f)
    PROVE  IsFiniteSet(Range(f))
<1>. DEFINE g == [x \in DOMAIN f |-> f[x]]
<1>1. g \in Surjection(DOMAIN f, Range(f))
  BY DEF Surjection, Range
<1>. HIDE DEF g
<1>. QED
  BY <1>1, FS_Surjection

\* A sum may as well be taken over what an injective function makes of its set.
LEMMA SumOfImage ==
    ASSUME NEW f, IsFiniteSet(DOMAIN f), IsInjective(f),
           NEW fun, \A x \in DOMAIN f : fun[f[x]] \in Int,
           NEW h, \A x \in DOMAIN f : h[x] = fun[f[x]]
    PROVE  SumFunctionOnSet(h, DOMAIN f) = SumFunctionOnSet(fun, Range(f))
<1>. DEFINE S == DOMAIN f
            Image(U) == {f[x] : x \in U}
            g == [U \in SUBSET S |-> SumFunctionOnSet(fun, Image(U))]
<1>1. IsFiniteSet(Range(f)) /\ \A y \in Range(f) : fun[y] \in Int
  BY FiniteRange DEF Range
<1>2. Image(S) = Range(f) /\ Image({}) = {}
  BY DEF Range
<1>3. \A U \in SUBSET S : IsFiniteSet(Image(U)) /\ \A y \in Image(U) : fun[y] \in Int
  <2>1. \A U \in SUBSET S : Image(U) \subseteq Range(f)
    BY DEF Range
  <2>. HIDE DEF Image
  <2>. QED
    BY <1>1, <2>1, FS_Subset
<1>4. \A x \in S : h[x] \in Int /\ h[x] = fun[f[x]]
  OBVIOUS
<1>5. g[{}] = 0
  <2>1. SumFunctionOnSet(fun, {}) = 0
    BY SumByChoice, FS_EmptySet
  <2>. QED
    BY <1>2, <2>1
<1>6. ASSUME NEW U \in SUBSET S, NEW x \in U PROVE g[U] = h[x] + g[U \ {x}]
  <2>1. f[x] \in Image(U)
    OBVIOUS
  <2>2. Image(U) \ {f[x]} = Image(U \ {x})
    BY DEF IsInjective
  <2>3. g[U] = SumFunctionOnSet(fun, Image(U)) /\ g[U \ {x}] = SumFunctionOnSet(fun, Image(U \ {x}))
    OBVIOUS
  <2>. HIDE DEF Image, g
  <2>4. SumFunctionOnSet(fun, Image(U))
          = fun[f[x]] + SumFunctionOnSet(fun, Image(U) \ {f[x]})
    BY <1>3, <2>1, SumTakesAny
  <2>. QED
    BY <1>4, <2>2, <2>3, <2>4
<1>7. g[S] = SumFunctionOnSet(fun, Range(f))
  BY <1>2
<1>. HIDE DEF g, Image
<1>8. \A U \in SUBSET S : U # {} => \E x \in U : g[U] = h[x] + g[U \ {x}]
  BY <1>6
<1>9. g[S] = SumFunctionOnSet(h, S)
  BY <1>4, <1>5, <1>8, SumsAreUnique
<1>. QED
  BY <1>7, <1>9

\* A sum of a sequence of numbers, which the left fold of the library takes away from
\* the right.
AddsUpLast(g, worth) ==
    g = [s \in SUBSET DOMAIN worth |->
           IF s = {} THEN 0 ELSE g[s \ {Max(s)}] + worth[Max(s)]]

LEMMA GreatestOf ==
    ASSUME NEW n \in Nat, NEW s \in SUBSET (1..n), s # {}
    PROVE  Max(s) \in s
<1>1. s \in SUBSET Nat /\ \A i \in s : i <= n
  OBVIOUS
<1>. QED
  BY <1>1, MaxOfNats

LEMMA AddedFromLeft ==
    ASSUME NEW n \in Nat, NEW worth, DOMAIN worth = 1..n, \A i \in 1..n : worth[i] \in Int
    PROVE  /\ \E g : AddsUpLast(g, worth)
           /\ \A g : AddsUpLast(g, worth) => g[1..n] = SumFunctionOnSet(worth, 1..n)
<1>. DEFINE sums == [s \in SUBSET (1..n) |-> SumFunctionOnSet(worth, s)]
<1>1. IsFiniteSet(1..n)
  BY FS_Interval
<1>2. ASSUME NEW s \in SUBSET (1..n)
      PROVE  sums[s] = IF s = {} THEN 0 ELSE sums[s \ {Max(s)}] + worth[Max(s)]
  <2>1. IsFiniteSet(s) /\ \A i \in s : worth[i] \in Int
    BY <1>1, FS_Subset
  <2>2. CASE s = {}
    <3>1. SumFunctionOnSet(worth, {}) = 0
      BY SumByChoice, FS_EmptySet
    <3>. QED
      BY <2>2, <3>1
  <2>3. CASE s # {}
    <3>1. Max(s) \in s
      BY <2>3, GreatestOf
    <3>2. SumFunctionOnSet(worth, s) = worth[Max(s)] + SumFunctionOnSet(worth, s \ {Max(s)})
      BY <2>1, <3>1, SumTakesAny
    <3>3. IsFiniteSet(s \ {Max(s)}) /\ \A i \in s \ {Max(s)} : worth[i] \in Int
      BY <2>1, FS_Subset
    <3>4. SumFunctionOnSet(worth, s \ {Max(s)}) \in Int
      BY <3>3, SumIsInt
    <3>5. sums[s] = SumFunctionOnSet(worth, s)
          /\ sums[s \ {Max(s)}] = SumFunctionOnSet(worth, s \ {Max(s)})
      OBVIOUS
    <3>6. worth[Max(s)] \in Int
      BY <2>1, <3>1
    <3>. HIDE DEF sums
    <3>7. \A x, y \in Int : x + y = y + x
      OBVIOUS
    <3>8. sums[s] = sums[s \ {Max(s)}] + worth[Max(s)]
      BY <3>2, <3>4, <3>5, <3>6, <3>7, Zenon
    <3>. QED
      BY <2>3, <3>8, Zenon
  <2>. HIDE DEF sums
  <2>. QED
    BY <2>2, <2>3
<1>3. AddsUpLast(sums, worth)
  <2>1. sums = [s \in SUBSET DOMAIN worth |-> sums[s]]
    OBVIOUS
  <2>. HIDE DEF sums
  <2>. QED
    BY <1>2, <2>1 DEF AddsUpLast
<1>4. sums[1..n] = SumFunctionOnSet(worth, 1..n)
  OBVIOUS
<1>. HIDE DEF sums
<1>5. ASSUME NEW g, AddsUpLast(g, worth) PROVE g[1..n] = sums[1..n]
  <2>1. \A s \in SUBSET (1..n) :
          /\ g[s] = IF s = {} THEN 0 ELSE g[s \ {Max(s)}] + worth[Max(s)]
          /\ sums[s] = IF s = {} THEN 0 ELSE sums[s \ {Max(s)}] + worth[Max(s)]
    BY <1>2, <1>5 DEF AddsUpLast
  <2>2. \A s \in SUBSET (1..n) : s # {} => Max(s) \in s
    BY GreatestOf
  <2>3. g[{}] = sums[{}]
    BY <2>1
  <2>4. ASSUME NEW s \in SUBSET (1..n), s # {}, \A x \in s : g[s \ {x}] = sums[s \ {x}]
        PROVE  g[s] = sums[s]
    <3>1. g[s \ {Max(s)}] = sums[s \ {Max(s)}]
      BY <2>2, <2>4
    <3>. QED
      BY <2>1, <2>4, <3>1
  <2>5. Agreeing(g, sums, 1..n)
    BY <2>3, <2>4 DEF Agreeing
  <2>. QED
    BY <1>1, <2>5, SameSums
<1>. QED
  BY <1>3, <1>4, <1>5

-----------------------------------------------------------------------------
(* Queues *)

\* What `r = insert q at position p` means for the elements.
Inserted(q, p, e, r) ==
    /\ Len(r) = Len(q) + 1
    /\ \A i \in 1..Len(q) + 1 :
         r[i] = IF i < p THEN q[i] ELSE IF i = p THEN e ELSE q[i - 1]

\* The first n elements of a queue, and what is behind them.
LEMMA FirstElements ==
    ASSUME NEW S, NEW q \in Seq(S), NEW n \in 0..Len(q), NEW r, r = SubSeq(q, 1, n)
    PROVE  r \in Seq(S) /\ Len(r) = n /\ \A i \in 1..n : r[i] = q[i]
<1>1. Len(q) \in Nat /\ \A i \in 1..n : q[i] \in S
  OBVIOUS
<1>. QED
  BY <1>1, SubSeqProperties

LEMMA OtherElements ==
    ASSUME NEW S, NEW q \in Seq(S), NEW n \in 0..Len(q), NEW r, r = SubSeq(q, n + 1, Len(q))
    PROVE  /\ r \in Seq(S) /\ Len(r) = Len(q) - n
           /\ \A i \in 1..Len(q) - n : r[i] = q[n + i]
<1>. DEFINE m == n + 1
            l == Len(q)
<1>1. l \in Nat /\ m \in Nat /\ \A i \in m..l : q[i] \in S
  OBVIOUS
<1>2. l - m + 1 = l - n /\ (IF m <= l THEN l - m + 1 ELSE 0) = l - n
  BY <1>1
<1>3. \A i \in 1..l - n : m + i - 1 = n + i
  BY <1>1
<1>. HIDE DEF m, l
<1>4. /\ SubSeq(q, m, l) \in Seq(S)
      /\ Len(SubSeq(q, m, l)) = IF m <= l THEN l - m + 1 ELSE 0
      /\ \A i \in 1..l - m + 1 : SubSeq(q, m, l)[i] = q[m + i - 1]
  BY <1>1, SubSeqProperties
<1>5. r = SubSeq(q, m, l)
  BY DEF m, l
<1>. HIDE DEF m, l
<1>6. r \in Seq(S) /\ Len(r) = l - n /\ \A i \in 1..l - n : r[i] = q[n + i]
  BY <1>2, <1>3, <1>4, <1>5
<1>. QED
  BY <1>6 DEF l

\* InsertAt moves the elements from position p on back by one.
LEMMA InsertAtElements ==
    ASSUME NEW S, NEW q \in Seq(S), NEW e \in S, NEW p \in 1..Len(q)
    PROVE  InsertAt(q, p, e) \in Seq(S) /\ Inserted(q, p, e, InsertAt(q, p, e))
<1>. DEFINE front == SubSeq(q, 1, p - 1)
            back == SubSeq(q, p, Len(q))
<1>0. Len(q) \in Nat /\ \A i \in 1..Len(q) : q[i] \in S
  OBVIOUS
<1>1. /\ front \in Seq(S) /\ Len(front) = p - 1
      /\ \A i \in 1..p - 1 : front[i] = q[i]
  <2>1. \A i \in 1..p - 1 : q[i] \in S
    BY <1>0
  <2>. QED  BY <2>1, <1>0, SubSeqProperties
<1>2. /\ back \in Seq(S) /\ Len(back) = Len(q) - p + 1
      /\ \A i \in 1..Len(q) - p + 1 : back[i] = q[p + i - 1]
  <2>1. \A i \in p..Len(q) : q[i] \in S
    BY <1>0
  <2>. QED  BY <2>1, <1>0, SubSeqProperties
<1>3. <<e>> \in Seq(S) /\ Len(<<e>>) = 1 /\ <<e>>[1] = e
  OBVIOUS
<1>. HIDE DEF front, back
<1>4. /\ front \o <<e>> \in Seq(S) /\ Len(front \o <<e>>) = p
      /\ \A i \in 1..p : (front \o <<e>>)[i] = IF i < p THEN q[i] ELSE e
  BY <1>0, <1>1, <1>3, ConcatProperties
<1>. DEFINE start == front \o <<e>>
<1>5. InsertAt(q, p, e) = start \o back
  BY DEF InsertAt, front, back
<1>. HIDE DEF start
<1>6. start \in Seq(S) /\ Len(start) = p /\ \A i \in 1..p : start[i] = IF i < p THEN q[i] ELSE e
  BY <1>4 DEF start
<1>7. /\ start \o back \in Seq(S)
      /\ Len(start \o back) = Len(start) + Len(back)
      /\ \A i \in 1..Len(start) + Len(back) : (start \o back)[i] =
            IF i <= Len(start) THEN start[i] ELSE back[i - Len(start)]
  BY <1>2, <1>6, ConcatProperties
<1>. DEFINE r == start \o back
<1>. HIDE DEF r
<1>8. r \in Seq(S) /\ Len(r) = Len(q) + 1
  BY <1>0, <1>2, <1>6, <1>7 DEF r
<1>9. ASSUME NEW i \in 1..Len(q) + 1
      PROVE  r[i] = IF i < p THEN q[i] ELSE IF i = p THEN e ELSE q[i - 1]
  <2>1. i \in 1..Len(start) + Len(back)
    BY <1>0, <1>2, <1>6
  <2>2. CASE i <= p
    BY <2>1, <2>2, <1>0, <1>6, <1>7 DEF r
  <2>3. CASE i > p
    <3>1. r[i] = back[i - p]
      BY <2>1, <2>3, <1>6, <1>7 DEF r
    <3>2. i - p \in 1..Len(q) - p + 1 /\ p + (i - p) - 1 = i - 1
      BY <2>3, <1>0
    <3>3. back[i - p] = q[p + (i - p) - 1]
      BY <3>2, <1>2
    <3>. QED  BY <2>3, <3>1, <3>2, <3>3
  <2>. QED  BY <2>2, <2>3, <1>0
<1>. QED
  BY <1>5, <1>8, <1>9 DEF Inserted, r

\* Nth enumerates a finite set of naturals in increasing order.
LEMMA NthEnumerates ==
    ASSUME NEW kept, IsFiniteSet(kept), \A i \in kept : i \in Nat
    PROVE  /\ Cardinality(kept) \in Nat
           /\ \A k \in 1..Cardinality(kept) : Nth(kept, k) \in kept
           /\ \A k, l \in 1..Cardinality(kept) : k < l => Nth(kept, k) < Nth(kept, l)
           /\ \A i \in kept : \E k \in 1..Cardinality(kept) : Nth(kept, k) = i
<1>. DEFINE n == Cardinality(kept)
            rank == [i \in kept |-> Cardinality(UpTo(kept, i))]
<1>1. n \in Nat
  BY FS_CardinalityType
<1>2. \A i \in kept : /\ IsFiniteSet(UpTo(kept, i))
                      /\ Cardinality(UpTo(kept, i)) \in 1..n
  <2>. SUFFICES ASSUME NEW i \in kept
                PROVE  /\ IsFiniteSet(UpTo(kept, i))
                       /\ Cardinality(UpTo(kept, i)) \in 1..n
    OBVIOUS
  <2>1. UpTo(kept, i) \subseteq kept /\ i \in UpTo(kept, i)
    BY DEF UpTo
  <2>2. IsFiniteSet(UpTo(kept, i)) /\ Cardinality(UpTo(kept, i)) <= n
    BY <2>1, FS_Subset
  <2>3. Cardinality(UpTo(kept, i)) \in Nat
    BY <2>2, FS_CardinalityType
  <2>4. Cardinality(UpTo(kept, i)) # 0
    BY <2>1, <2>2, FS_EmptySet
  <2>. QED  BY <2>2, <2>3, <2>4, <1>1
<1>3. \A i, j \in kept : i < j =>
         Cardinality(UpTo(kept, i)) < Cardinality(UpTo(kept, j))
  <2>. SUFFICES ASSUME NEW i \in kept, NEW j \in kept, i < j
                PROVE  Cardinality(UpTo(kept, i)) < Cardinality(UpTo(kept, j))
    OBVIOUS
  <2>1. UpTo(kept, i) \subseteq UpTo(kept, j)
    BY DEF UpTo
  <2>2. j \in UpTo(kept, j) /\ j \notin UpTo(kept, i)
    BY DEF UpTo
  <2>3. IsFiniteSet(UpTo(kept, j))
    BY <1>2
  <2>4. /\ Cardinality(UpTo(kept, i)) <= Cardinality(UpTo(kept, j))
        /\ Cardinality(UpTo(kept, i)) # Cardinality(UpTo(kept, j))
    BY <2>1, <2>2, <2>3, FS_Subset
  <2>5. Cardinality(UpTo(kept, i)) \in Nat /\ Cardinality(UpTo(kept, j)) \in Nat
    BY <1>2, <1>1
  <2>. QED  BY <2>4, <2>5
<1>. HIDE DEF n
<1>4. rank \in Surjection(kept, 1..n)
  <2>1. \A i, j \in kept : rank[i] = rank[j] => i = j
    <3>. SUFFICES ASSUME NEW i \in kept, NEW j \in kept, rank[i] = rank[j], i # j
                  PROVE  FALSE
      OBVIOUS
    <3>1. i \in Nat /\ j \in Nat /\ (i < j \/ j < i)
      OBVIOUS
    <3>2. \/ Cardinality(UpTo(kept, i)) < Cardinality(UpTo(kept, j))
          \/ Cardinality(UpTo(kept, j)) < Cardinality(UpTo(kept, i))
      BY <3>1, <1>3
    <3>3. Cardinality(UpTo(kept, i)) = Cardinality(UpTo(kept, j))
      OBVIOUS
    <3>4. Cardinality(UpTo(kept, i)) \in Nat
      BY <1>2, <1>1
    <3>. QED  BY <3>2, <3>3, <3>4
  <2>2. rank \in [kept -> 1..n]
    BY <1>2
  <2>3. rank \in Injection(kept, 1..n)
    BY <2>1, <2>2 DEF Injection, IsInjective
  <2>4. IsFiniteSet(1..n) /\ Cardinality(1..n) = n
    BY <1>1, FS_Interval
  <2>5. Cardinality(kept) = Cardinality(1..n)
    BY <2>4 DEF n
  <2>. HIDE DEF rank
  <2>. QED  BY <2>3, <2>4, <2>5, FS_Injection
<1>5. \A k \in 1..n : /\ Nth(kept, k) \in kept
                      /\ Cardinality(UpTo(kept, Nth(kept, k))) = k
  BY <1>4 DEF Surjection, Nth
<1>. HIDE DEF rank
<1>6. \A i \in kept : Nth(kept, Cardinality(UpTo(kept, i))) = i
  <2>. SUFFICES ASSUME NEW i \in kept
                PROVE  Nth(kept, Cardinality(UpTo(kept, i))) = i
    OBVIOUS
  <2>. DEFINE k == Cardinality(UpTo(kept, i))
              m == Nth(kept, k)
  <2>1. k \in 1..n
    BY <1>2
  <2>2. m \in kept /\ Cardinality(UpTo(kept, m)) = k
    BY <2>1, <1>5
  <2>3. i \in Nat /\ m \in Nat
    BY <2>2
  <2>4. ~ (m < i)
    BY <2>1, <2>2, <1>1, <1>3
  <2>5. ~ (i < m)
    BY <2>1, <2>2, <1>1, <1>3
  <2>. HIDE DEF m
  <2>6. m = i
    BY <2>3, <2>4, <2>5
  <2>. QED  BY <2>6 DEF m
<1>7. \A k, l \in 1..n : k < l => Nth(kept, k) < Nth(kept, l)
  <2>. SUFFICES ASSUME NEW k \in 1..n, NEW l \in 1..n, k < l
                PROVE  Nth(kept, k) < Nth(kept, l)
    OBVIOUS
  <2>. DEFINE a == Nth(kept, k)
              b == Nth(kept, l)
  <2>1. /\ a \in kept /\ Cardinality(UpTo(kept, a)) = k
        /\ b \in kept /\ Cardinality(UpTo(kept, b)) = l
    BY <1>5
  <2>. HIDE DEF a, b
  <2>2. a \in Nat /\ b \in Nat /\ k \in Nat /\ l \in Nat
    BY <2>1, <1>1
  <2>3. a # b
    BY <2>1, <2>2
  <2>4. ~ (b < a)
    BY <2>1, <2>2, <1>3
  <2>5. a < b
    BY <2>2, <2>3, <2>4
  <2>. QED  BY <2>5 DEF a, b
<1>8. \A i \in kept : \E k \in 1..n : Nth(kept, k) = i
  BY <1>2, <1>6
<1>. QED
  BY <1>1, <1>5, <1>7, <1>8 DEF n

\* Every element that Retain returns was in the queue, at an increasing position,
\* and the element of every kept position is still there.
LEMMA RetainElements ==
    ASSUME NEW S, NEW q \in Seq(S), NEW kept \in SUBSET DOMAIN q,
           NEW r, r = Retain(q, kept)
    PROVE  /\ r \in Seq(S)
           /\ \A k \in DOMAIN r : Nth(kept, k) \in kept /\ r[k] = q[Nth(kept, k)]
           /\ \A k, l \in DOMAIN r : k < l => Nth(kept, k) < Nth(kept, l)
           /\ \A i \in kept : \E k \in DOMAIN r : r[k] = q[i]
<1>1. Len(q) \in Nat /\ DOMAIN q = 1..Len(q) /\ \A i \in 1..Len(q) : q[i] \in S
  OBVIOUS
<1>2. IsFiniteSet(kept)
  <2>1. IsFiniteSet(1..Len(q))
    BY <1>1, FS_Interval
  <2>. QED  BY <2>1, <1>1, FS_Subset
<1>3. \A i \in kept : i \in Nat
  BY <1>1
<1>. DEFINE n == Cardinality(kept)
<1>4. /\ n \in Nat
      /\ \A k \in 1..n : Nth(kept, k) \in kept
      /\ \A k, l \in 1..n : k < l => Nth(kept, k) < Nth(kept, l)
      /\ \A i \in kept : \E k \in 1..n : Nth(kept, k) = i
  BY <1>2, <1>3, NthEnumerates
<1>5. r = [k \in 1..n |-> q[Nth(kept, k)]]
  BY DEF Retain
<1>. HIDE DEF n
<1>6. DOMAIN r = 1..n /\ \A k \in 1..n : r[k] = q[Nth(kept, k)]
  BY <1>5
<1>7. \A k \in 1..n : q[Nth(kept, k)] \in S
  BY <1>1, <1>4
<1>8. r \in Seq(S)
  BY <1>4, <1>5, <1>7
<1>. QED
  BY <1>4, <1>6, <1>8
=============================================================================
