---------------------- MODULE TransactionPools_proofs ----------------------
(***************************************************************************)
(* For every set of transactions, every prioritizer, every threshold and   *)
(* every censor: a pool keeps its queue ordered and implements the fair    *)
(* queue.                                                                  *)
(***************************************************************************)
EXTENDS TransactionPools, Collections_proofs

-----------------------------------------------------------------------------
(* The invariant *)

\* e is served before f.
Before(e, f) ==
    \/ Rank[f.tx] < Rank[e.tx]
    \/ Rank[f.tx] = Rank[e.tx] /\ e.at < f.at

\* Nothing in the queue is from the future or refused by the pool's policy.
Admissible ==
    \A i \in DOMAIN queue : queue[i].at <= arrivals /\ queue[i].tx \in Policy

IInv == PoolTypeOK /\ Ordered /\ Admissible

\* The entry that an insertion of t makes.
Entry(t) == [tx |-> t, at |-> arrivals + 1]

\* Ranks are naturals; no step changes them or the policy; try_insert goes by it.
LEMMA Ranks ==
    /\ PoolTypeOK => Accepted = Policy
    /\ PoolTypeOK => \A t \in Txs : Rank[t] \in Nat
    /\ [PoolNext]_poolVars => Rank' = Rank /\ Policy' = Policy
<1>1. PoolTypeOK => \A t \in Txs : Rank[t] \in Nat
  BY PolicyAssumption DEF Rank
<1>2. [PoolNext]_poolVars => kind' = kind
  BY DEF PoolNext, TryInsert, RemoveTx, NextFromPool, poolVars
<1>3. PoolTypeOK => Accepted = Policy
  BY PolicyAssumption DEF Accepted, Policy, PoolTypeOK, Kinds
<1>. QED
  BY <1>1, <1>2, <1>3 DEF Rank, Policy

\* A new entry goes behind everything that is served before it and in front of
\* everything else, whatever the kind of the pool.
LEMMA InsertPosition ==
    ASSUME IInv, NEW t \in Txs, TryInsert(t)
    PROVE  /\ queue' \in Seq(Entries)
           /\ \E p \in 1..Len(queue) + 1 :
                /\ Inserted(queue, p, Entry(t), queue')
                /\ \A i \in 1..p - 1 : Before(queue[i], Entry(t))
                /\ \A i \in p..Len(queue) : Before(Entry(t), queue[i])
<1>. DEFINE e == Entry(t)
            n == Len(queue)
<1>1. /\ queue \in Seq(Entries) /\ arrivals \in Nat
      /\ n \in Nat /\ DOMAIN queue = 1..n /\ \A i \in 1..n : queue[i] \in Entries
  BY DEF IInv, PoolTypeOK
<1>2. e \in Entries /\ e.tx = t /\ e.at = arrivals + 1
  BY <1>1 DEF Entry, Entries
<1>3. \A x \in Entries : Rank[x.tx] \in Nat /\ x.at \in Nat
  BY Ranks DEF IInv, Entries
<1>4. \A i \in 1..n : queue[i].at < e.at
  <2>1. \A i \in 1..n : queue[i].at <= arrivals
    BY <1>1 DEF IInv, Admissible
  <2>. QED  BY <2>1, <1>1, <1>2, <1>3
<1>5. \A i, j \in 1..n : i < j => Before(queue[i], queue[j])
  BY <1>1 DEF IInv, Ordered, Before
<1>6. ASSUME queue' = Append(queue, e), \A i \in 1..n : Rank[e.tx] <= Rank[queue[i].tx]
      PROVE  /\ queue' \in Seq(Entries)
             /\ \E p \in 1..n + 1 :
                  /\ Inserted(queue, p, e, queue')
                  /\ \A i \in 1..p - 1 : Before(queue[i], e)
                  /\ \A i \in p..n : Before(e, queue[i])
  <2>. HIDE DEF e
  <2>1. queue' \in Seq(Entries) /\ Inserted(queue, n + 1, e, queue')
    BY <1>1, <1>2, <1>6 DEF Inserted
  <2>2. \A i \in 1..n : Before(queue[i], e)
    BY <1>1, <1>2, <1>3, <1>4, <1>6 DEF Before
  <2>3. n + 1 \in 1..n + 1 /\ (n + 1) - 1 = n /\ (n + 1)..n = {}
    BY <1>1
  <2>. QED  BY <2>1, <2>2, <2>3
<1>7. CASE kind # "PriorityPool"
  <2>1. queue' = Append(queue, e)
    BY <1>7 DEF TryInsert, PushBack, Entry
  <2>2. \A i \in 1..n : queue[i].tx \in Txs
    BY <1>1 DEF Entries
  <2>3. \A i \in 1..n : Rank[e.tx] <= Rank[queue[i].tx]
    BY <1>2, <1>7, <2>2 DEF Rank
  <2>. QED  BY <1>6, <2>1, <2>3
<1>8. CASE kind = "PriorityPool"
  <2>. DEFINE I == LowerThan(t)
  <2>1. queue' = IF I = {} THEN Append(queue, e) ELSE InsertAt(queue, Min(I), e)
    BY <1>8 DEF TryInsert, Entry, PriorityInsert
  <2>2. \A i \in 1..n : Rank[queue[i].tx] = Prioritizer[queue[i].tx]
    BY <1>1, <1>8 DEF Rank, Entries
  <2>3. Rank[e.tx] = Prioritizer[e.tx]
    BY <1>2, <1>8 DEF Rank
  <2>0. I = {i \in 1..n : Prioritizer[queue[i].tx] < Prioritizer[e.tx]}
    BY <1>1, <1>2 DEF LowerThan
  <2>. HIDE DEF e, n, I
  <2>4. CASE I = {}
    <3>1. \A i \in 1..n : Rank[e.tx] <= Rank[queue[i].tx]
      BY <2>0, <2>2, <2>3, <2>4, <1>1, <1>2, <1>3
    <3>. QED  BY <2>1, <2>4, <3>1, <1>6 DEF e, n
  <2>5. CASE I # {}
    <3>. DEFINE p == Min(I)
    <3>1. p \in I /\ \A i \in I : p <= i
      <4>1. I \in SUBSET Nat
        BY <2>0
      <4>. QED  BY <2>5, <4>1, MinOfNats
    <3>. HIDE DEF p
    <3>2. p \in 1..n /\ Rank[queue[p].tx] < Rank[e.tx]
      BY <2>0, <2>2, <2>3, <3>1
    <3>3. queue' = InsertAt(queue, p, e)
      BY <2>1, <2>5 DEF p
    <3>4. queue' \in Seq(Entries) /\ Inserted(queue, p, e, queue')
      BY <1>1, <1>2, <3>2, <3>3, InsertAtElements DEF n
    <3>5. \A i \in 1..p - 1 : Before(queue[i], e)
      <4>1. \A i \in 1..p - 1 : i \in 1..n /\ i \notin I
        BY <3>1, <3>2, <1>1
      <4>2. \A i \in 1..p - 1 : ~ (Rank[queue[i].tx] < Rank[e.tx])
        BY <4>1, <2>0, <2>2, <2>3
      <4>. QED  BY <4>1, <4>2, <1>1, <1>2, <1>3, <1>4 DEF Before
    <3>6. \A i \in p..n : Before(e, queue[i])
      <4>1. \A i \in p..n : Rank[queue[i].tx] <= Rank[queue[p].tx]
        BY <3>2, <1>1, <1>3, <1>5 DEF Before
      <4>. QED  BY <4>1, <3>2, <1>1, <1>2, <1>3 DEF Before
    <3>7. p \in 1..n + 1
      BY <3>2, <1>1
    <3>. QED  BY <3>4, <3>5, <3>6, <3>7 DEF e, n
  <2>. QED  BY <2>4, <2>5
<1>. QED
  BY <1>7, <1>8

\* What a step does to the queue: a new entry where it belongs, the front
\* taken away, or the kept entries closing up.
LEMMA QueueOrder ==
    ASSUME IInv, PoolNext
    PROVE  /\ queue' \in Seq(Entries)
           /\ \A i, j \in DOMAIN queue' : i < j => Before(queue'[i], queue'[j])
<1>. DEFINE n == Len(queue)
<1>1. /\ queue \in Seq(Entries) /\ n \in Nat /\ DOMAIN queue = 1..n
      /\ \A i, j \in 1..n : i < j => Before(queue[i], queue[j])
  BY DEF IInv, PoolTypeOK, Ordered, Before
<1>2. ASSUME NEW t \in Txs, TryInsert(t)
      PROVE  /\ queue' \in Seq(Entries)
             /\ \A i, j \in DOMAIN queue' : i < j => Before(queue'[i], queue'[j])
  <2>1. queue' \in Seq(Entries)
    BY <1>2, InsertPosition
  <2>2. PICK p \in 1..n + 1 :
          /\ Inserted(queue, p, Entry(t), queue')
          /\ \A i \in 1..p - 1 : Before(queue[i], Entry(t))
          /\ \A i \in p..n : Before(Entry(t), queue[i])
    BY <1>2, InsertPosition
  <2>. HIDE DEF n
  <2>3. DOMAIN queue' = 1..n + 1
    BY <2>1, <2>2 DEF Inserted, n
  <2>4. \A i \in 1..n + 1 : queue'[i] = IF i < p THEN queue[i]
                                        ELSE IF i = p THEN Entry(t) ELSE queue[i - 1]
    BY <2>2 DEF Inserted, n
  <2>. SUFFICES ASSUME NEW i \in 1..n + 1, NEW j \in 1..n + 1, i < j
                PROVE  Before(queue'[i], queue'[j])
    BY <2>1, <2>3
  <2>5. CASE j < p
    BY <2>4, <2>5, <1>1
  <2>6. CASE j = p
    BY <2>2, <2>4, <2>6, <1>1
  <2>7. CASE j > p
    <3>1. queue'[j] = queue[j - 1] /\ j - 1 \in 1..n /\ j - 1 >= p
      BY <2>4, <2>7, <1>1
    <3>2. CASE i < p
      BY <3>1, <3>2, <2>4, <1>1
    <3>3. CASE i = p
      BY <3>1, <3>3, <2>2, <2>4, <1>1
    <3>4. CASE i > p
      <4>1. queue'[i] = queue[i - 1] /\ i - 1 \in 1..n /\ i - 1 < j - 1
        BY <3>4, <2>4, <1>1
      <4>. QED  BY <3>1, <4>1, <1>1
    <3>. QED  BY <3>2, <3>3, <3>4
  <2>. QED  BY <2>5, <2>6, <2>7, <1>1
<1>3. ASSUME NEW t \in Txs, RemoveTx(t)
      PROVE  /\ queue' \in Seq(Entries)
             /\ \A i, j \in DOMAIN queue' : i < j => Before(queue'[i], queue'[j])
  <2>. DEFINE kept == {i \in DOMAIN queue : queue[i].tx # t}
  <2>1. queue' = Retain(queue, kept)
    BY <1>3 DEF RemoveTx
  <2>2. kept \in SUBSET DOMAIN queue
    OBVIOUS
  <2>. HIDE DEF kept
  <2>3. /\ queue' \in Seq(Entries)
        /\ \A k \in DOMAIN queue' : Nth(kept, k) \in kept /\ queue'[k] = queue[Nth(kept, k)]
        /\ \A k, l \in DOMAIN queue' : k < l => Nth(kept, k) < Nth(kept, l)
    BY <1>1, <2>1, <2>2, RetainElements
  <2>4. \A k \in DOMAIN queue' : Nth(kept, k) \in 1..n
    BY <1>1, <2>2, <2>3
  <2>. HIDE DEF n
  <2>. QED  BY <1>1, <2>3, <2>4
<1>4. ASSUME NextFromPool
      PROVE  /\ queue' \in Seq(Entries)
             /\ \A i, j \in DOMAIN queue' : i < j => Before(queue'[i], queue'[j])
  <2>1. CASE queue = <<>>
    BY <1>1, <1>4, <2>1 DEF NextFromPool
  <2>2. CASE queue # <<>>
    <3>1. queue' = Tail(queue)
      BY <1>4, <2>2 DEF NextFromPool
    <3>2. /\ queue' \in Seq(Entries) /\ DOMAIN queue' = 1..n - 1
          /\ \A i \in 1..n - 1 : queue'[i] = queue[i + 1]
      BY <1>1, <2>2, <3>1
    <3>. HIDE DEF n
    <3>3. \A i \in 1..n - 1 : i + 1 \in 1..n
      BY <1>1
    <3>4. \A i, j \in 1..n - 1 : i < j => i + 1 < j + 1
      OBVIOUS
    <3>. QED  BY <1>1, <3>2, <3>3, <3>4
  <2>. QED  BY <2>1, <2>2
<1>. QED
  BY <1>2, <1>3, <1>4 DEF PoolNext

\* The entries of the queue, which is all the fair queue sees of it.
Waiting == {queue[i] : i \in DOMAIN queue}

\* What a step does to the set of the entries.
LEMMA QueueEntries ==
    ASSUME IInv
    PROVE  /\ \A t \in Txs : TryInsert(t) => Waiting' = Waiting \cup {Entry(t)}
           /\ \A t \in Txs : RemoveTx(t) => Waiting' = {e \in Waiting : e.tx # t}
           /\ NextFromPool /\ queue # <<>> =>
                /\ Head(queue) \in Waiting
                /\ Waiting' = Waiting \ {Head(queue)}
                /\ \A e \in Waiting \ {Head(queue)} : Before(Head(queue), e)
<1>. DEFINE n == Len(queue)
<1>1. /\ queue \in Seq(Entries) /\ n \in Nat /\ DOMAIN queue = 1..n
      /\ \A i \in 1..n : queue[i] \in Entries
      /\ \A i, j \in 1..n : i < j => Before(queue[i], queue[j])
  BY DEF IInv, PoolTypeOK, Ordered, Before
<1>2. ASSUME NEW t \in Txs, TryInsert(t)
      PROVE  Waiting' = Waiting \cup {Entry(t)}
  <2>1. queue' \in Seq(Entries)
    BY <1>2, InsertPosition
  <2>2. PICK p \in 1..n + 1 : Inserted(queue, p, Entry(t), queue')
    BY <1>2, InsertPosition
  <2>. HIDE DEF n
  <2>3. DOMAIN queue' = 1..n + 1
    BY <2>1, <2>2 DEF Inserted, n
  <2>4. \A i \in 1..n + 1 : queue'[i] = IF i < p THEN queue[i]
                                        ELSE IF i = p THEN Entry(t) ELSE queue[i - 1]
    BY <2>2 DEF Inserted, n
  <2>5. \A i \in 1..n + 1 : queue'[i] \in Waiting \cup {Entry(t)}
    <3>1. \A i \in 1..n + 1 : (i < p => i \in 1..n) /\ (i > p => i - 1 \in 1..n)
      BY <1>1
    <3>2. \A i \in 1..n : queue[i] \in Waiting
      BY <1>1 DEF Waiting
    <3>. QED  BY <2>4, <3>1, <3>2
  <2>6. ASSUME NEW i \in 1..n
        PROVE  \E k \in 1..n + 1 : queue'[k] = queue[i]
    <3>1. CASE i < p
      BY <1>1, <2>4, <3>1
    <3>2. CASE i >= p
      <4>1. i + 1 \in 1..n + 1 /\ i + 1 > p /\ (i + 1) - 1 = i
        BY <1>1, <3>2
      <4>. QED  BY <2>4, <4>1
    <3>. QED  BY <3>1, <3>2
  <2>7. queue'[p] = Entry(t)
    BY <2>4
  <2>. QED  BY <1>1, <2>3, <2>5, <2>6, <2>7 DEF Waiting
<1>3. ASSUME NEW t \in Txs, RemoveTx(t)
      PROVE  Waiting' = {e \in Waiting : e.tx # t}
  <2>. DEFINE kept == {i \in DOMAIN queue : queue[i].tx # t}
  <2>1. queue' = Retain(queue, kept)
    BY <1>3 DEF RemoveTx
  <2>2. kept \in SUBSET DOMAIN queue
    OBVIOUS
  <2>3. \A i \in DOMAIN queue : i \in kept <=> queue[i].tx # t
    OBVIOUS
  <2>. HIDE DEF kept
  <2>4. /\ \A k \in DOMAIN queue' : Nth(kept, k) \in kept /\ queue'[k] = queue[Nth(kept, k)]
        /\ \A i \in kept : \E k \in DOMAIN queue' : queue'[k] = queue[i]
    BY <1>1, <2>1, <2>2, RetainElements
  <2>5. \A k \in DOMAIN queue' : queue'[k] \in {e \in Waiting : e.tx # t}
    BY <2>2, <2>3, <2>4 DEF Waiting
  <2>6. \A e \in Waiting : e.tx # t => \E k \in DOMAIN queue' : queue'[k] = e
    BY <2>3, <2>4 DEF Waiting
  <2>7. Waiting' = {queue'[k] : k \in DOMAIN queue'}
    BY DEF Waiting
  <2>. QED  BY <2>5, <2>6, <2>7
<1>4. ASSUME NextFromPool, queue # <<>>
      PROVE  /\ Head(queue) \in Waiting
             /\ Waiting' = Waiting \ {Head(queue)}
             /\ \A e \in Waiting \ {Head(queue)} : Before(Head(queue), e)
  <2>1. queue' = Tail(queue)
    BY <1>4 DEF NextFromPool
  <2>2. /\ n \in Nat \ {0} /\ Head(queue) = queue[1]
        /\ DOMAIN queue' = 1..n - 1
        /\ \A i \in 1..n - 1 : queue'[i] = queue[i + 1]
    BY <1>1, <1>4, <2>1
  <2>. HIDE DEF n
  <2>3. \A i \in 2..n : i \in 1..n /\ 1 \in 1..n /\ 1 < i
    BY <1>1
  <2>4. \A i \in 2..n : Before(queue[1], queue[i])
    BY <1>1, <2>3
  <2>5. \A i \in 2..n : queue[i] # queue[1]
    <3>1. \A x \in Entries : x.at \in Nat /\ Rank[x.tx] \in Nat
      BY Ranks DEF IInv, Entries
    <3>2. \A x \in Entries : ~ Before(x, x)
      BY <3>1 DEF Before
    <3>. QED  BY <1>1, <2>3, <2>4, <3>2
  <2>6. 1 \in 1..n /\ \A i \in 1..n : i = 1 \/ i \in 2..n
    BY <2>2
  <2>7. Waiting = {queue[i] : i \in 1..n}
    BY <1>1 DEF Waiting
  <2>8. Waiting' = {queue[i] : i \in 2..n}
    <3>1. Waiting' = {queue'[i] : i \in 1..n - 1}
      BY <2>2 DEF Waiting
    <3>2. \A i \in 1..n - 1 : i + 1 \in 2..n /\ queue'[i] = queue[i + 1]
      BY <2>2
    <3>3. \A i \in 2..n : i - 1 \in 1..n - 1 /\ queue'[i - 1] = queue[i]
      BY <2>2
    <3>. QED  BY <3>1, <3>2, <3>3
  <2>. QED  BY <2>2, <2>4, <2>5, <2>6, <2>7, <2>8
<1>. QED
  BY <1>2, <1>3, <1>4

-----------------------------------------------------------------------------
(* The theorems *)

LEMMA InitInv == PoolInit => IInv
  BY DEF PoolInit, IInv, PoolTypeOK, Ordered, Admissible, Entries

\* Every step preserves the invariant; QueueOrder gives the order, QueueEntries
\* the rest.
LEMMA InvStep == IInv /\ [PoolNext]_poolVars => IInv'
<1>. SUFFICES ASSUME IInv, [PoolNext]_poolVars
              PROVE  IInv'
  OBVIOUS
<1>1. CASE UNCHANGED poolVars
  <2>1. kind' = kind /\ queue' = queue /\ served' = served /\ arrivals' = arrivals
    BY <1>1 DEF poolVars
  <2>2. Rank' = Rank /\ Policy' = Policy
    BY Ranks
  <2>3. PoolTypeOK' /\ Admissible'
    BY <2>1, <2>2 DEF IInv, PoolTypeOK, Admissible
  <2>4. Ordered'
    BY <2>1, <2>2 DEF IInv, Ordered
  <2>. QED  BY <2>3, <2>4 DEF IInv
<1>2. CASE PoolNext
  <2>1. Rank' = Rank /\ Policy' = Policy
    BY Ranks
  <2>2. /\ queue' \in Seq(Entries)
        /\ \A i, j \in DOMAIN queue' : i < j => Before(queue'[i], queue'[j])
    BY <1>2, QueueOrder
  <2>3. Ordered'
    BY <2>1, <2>2 DEF Ordered, Before
  <2>4. /\ arrivals \in Nat /\ kind \in Kinds /\ served \in Entries \cup {None}
        /\ queue \in Seq(Entries)
        /\ \A e \in Waiting : e \in Entries /\ e.at <= arrivals /\ e.tx \in Policy
    BY DEF IInv, PoolTypeOK, Admissible, Waiting
  <2>5. PoolTypeOK' /\ Admissible'
    <3>1. ASSUME NEW t \in Txs, TryInsert(t)
          PROVE  PoolTypeOK' /\ Admissible'
      <4>1. arrivals' = arrivals + 1 /\ kind' = kind /\ served' = served /\ t \in Policy
        BY <3>1, Ranks DEF TryInsert, IInv
      <4>2. Waiting' = Waiting \cup {Entry(t)}
        BY <3>1, QueueEntries
      <4>3. \A e \in Waiting' : e.at <= arrivals' /\ e.tx \in Policy
        <5>1. Entry(t).at = arrivals' /\ Entry(t).tx = t
          BY <4>1 DEF Entry
        <5>2. \A e \in Waiting : e.at \in Nat
          BY <2>4 DEF Entries
        <5>. QED  BY <2>4, <4>1, <4>2, <5>1, <5>2
      <4>. QED  BY <2>1, <2>2, <2>4, <4>1, <4>3 DEF PoolTypeOK, Admissible, Waiting
    <3>2. ASSUME NEW t \in Txs, RemoveTx(t)
          PROVE  PoolTypeOK' /\ Admissible'
      <4>1. arrivals' = arrivals /\ kind' = kind /\ served' = served
        BY <3>2 DEF RemoveTx
      <4>2. Waiting' \subseteq Waiting
        BY <3>2, QueueEntries
      <4>3. \A e \in Waiting' : e.at <= arrivals' /\ e.tx \in Policy
        BY <2>4, <4>1, <4>2
      <4>. QED  BY <2>1, <2>2, <2>4, <4>1, <4>3 DEF PoolTypeOK, Admissible, Waiting
    <3>3. ASSUME NextFromPool
          PROVE  PoolTypeOK' /\ Admissible'
      <4>1. arrivals' = arrivals /\ kind' = kind
        BY <3>3 DEF NextFromPool
      <4>2. Waiting' \subseteq Waiting /\ served' \in Entries \cup {None}
        <5>1. CASE queue = <<>>
          BY <3>3, <5>1 DEF NextFromPool, Waiting
        <5>2. CASE queue # <<>>
          BY <2>4, <3>3, <5>2, QueueEntries DEF NextFromPool
        <5>. QED  BY <5>1, <5>2
      <4>3. \A e \in Waiting' : e.at <= arrivals' /\ e.tx \in Policy
        BY <2>4, <4>1, <4>2
      <4>. QED  BY <2>1, <2>2, <2>4, <4>1, <4>2, <4>3 DEF PoolTypeOK, Admissible, Waiting
    <3>. QED  BY <1>2, <3>1, <3>2, <3>3 DEF PoolNext
  <2>. QED  BY <2>3, <2>5 DEF IInv
<1>. QED
  BY <1>1, <1>2

\* The invariant behind the theorems: neither the order nor the policy
\* alone survives a step, because the place of a new entry depends on both.
LEMMA Inductive == PoolSpec => []IInv
  BY InitInv, InvStep, PTL DEF PoolSpec

\* The queue holds entries only, however many are inserted, taken or removed.
THEOREM TypeCorrect == PoolSpec => []PoolTypeOK
<1>1. IInv => PoolTypeOK
  BY DEF IInv
<1>. QED
  BY <1>1, Inductive, PTL

\* No insertion and no removal reorders what waits: higher rank first, and
\* earlier arrival first at equal rank.
THEOREM AlwaysOrdered == PoolSpec => []Ordered
<1>1. IInv => Ordered
  BY DEF IInv
<1>. QED
  BY <1>1, Inductive, PTL

\* Each kind of pool implements the fair queue: what is served next is the
\* first of the highest rank, and nothing is lost, invented or duplicated.
THEOREM PoolsImplementFairQueue == PoolSpec => ServesFairly
<1>1. PoolInit => Fair!Init
  <2>. SUFFICES ASSUME PoolInit PROVE Fair!Init
    OBVIOUS
  <2>1. Rank \in [Txs -> Nat]
    BY PolicyAssumption DEF Rank
  <2>2. {queue[i] : i \in DOMAIN queue} = {}
    BY DEF PoolInit
  <2>3. kind \in Kinds /\ served = Fair!None /\ arrivals = 0
    BY DEF PoolInit, None, Fair!None
  <2>4. Policy \in SUBSET Txs
    BY DEF Policy
  <2>. QED  BY <2>1, <2>2, <2>3, <2>4 DEF Fair!Init
<1>2. ASSUME IInv, [PoolNext]_poolVars
      PROVE  [Fair!Next]_Fair!vars
  <2>1. Rank' = Rank /\ Policy' = Policy
    BY <1>2, Ranks
  <2>2. CASE UNCHANGED poolVars
    BY <2>1, <2>2 DEF Fair!vars, poolVars
  <2>3. ASSUME NEW t \in Txs, TryInsert(t)
        PROVE  Fair!Submit(t)
    <3>1. Waiting' = Waiting \cup {Entry(t)}
      BY <1>2, <2>3, QueueEntries
    <3>2. arrivals' = arrivals + 1 /\ served' = served /\ t \in Policy
      BY <1>2, <2>3, Ranks DEF TryInsert, IInv
    <3>. QED  BY <2>1, <3>1, <3>2 DEF Fair!Submit, Waiting, Entry
  <2>4. ASSUME NEW t \in Txs, RemoveTx(t)
        PROVE  Fair!Discard(t)
    <3>1. Waiting' = {e \in Waiting : e.tx # t}
      BY <1>2, <2>4, QueueEntries
    <3>2. arrivals' = arrivals /\ served' = served
      BY <2>4 DEF RemoveTx
    <3>. QED  BY <2>1, <3>1, <3>2 DEF Fair!Discard, Waiting
  <2>5. ASSUME NextFromPool
        PROVE  Fair!Serve
    <3>1. arrivals' = arrivals
      BY <2>5 DEF NextFromPool
    <3>2. CASE queue = <<>>
      <4>1. Waiting = {} /\ Waiting' = {} /\ served' = Fair!None
        BY <2>5, <3>2 DEF NextFromPool, Waiting, None, Fair!None
      <4>. QED  BY <2>1, <3>1, <4>1 DEF Fair!Serve, Waiting
    <3>3. CASE queue # <<>>
      <4>. DEFINE e == Head(queue)
      <4>1. /\ e \in Waiting
            /\ Waiting' = Waiting \ {e}
            /\ \A f \in Waiting \ {e} : Before(e, f)
        BY <1>2, <2>5, <3>3, QueueEntries
      <4>2. served' = e
        BY <2>5, <3>3 DEF NextFromPool
      <4>. HIDE DEF e
      <4>3. Fair!First(e)
        BY <4>1 DEF Fair!First, Before, Waiting
      <4>. QED  BY <2>1, <3>1, <4>1, <4>2, <4>3 DEF Fair!Serve, Waiting
    <3>. QED  BY <3>2, <3>3
  <2>. QED  BY <1>2, <2>2, <2>3, <2>4, <2>5 DEF PoolNext, Fair!Next
<1>. QED
  BY <1>1, <1>2, Inductive, PTL DEF PoolSpec, ServesFairly, Fair!Spec
=============================================================================
