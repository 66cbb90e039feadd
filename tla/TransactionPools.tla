-------------------------- MODULE TransactionPools --------------------------
(***************************************************************************)
(* A transaction pool of src/c4_client/p4_transaction_pool.rs, of one of   *)
(* the three kinds: users insert, the authoring code takes and removes, in *)
(* any order.  The entries of the queue are transactions; `at`, the number *)
(* of the insertion, and the variables `served` (the last result of        *)
(* next_from_pool) and `arrivals` are history, which no action reads.      *)
(***************************************************************************)
EXTENDS TransactionPool

CONSTANTS Txs,             \* SM::Transition
          Prioritizer,     \* PriorityPool: `prioritizer`, a function on Txs,
          MinimumPriority, \* and `minimum_priority`
          Terrorist,       \* CensoringPool: where might_be_terrorist holds
          MaxArrivals      \* bound of the exploration

ASSUME PolicyAssumption ==
    /\ Prioritizer \in [Txs -> Nat]
    /\ MinimumPriority \in Nat
    /\ Terrorist \subseteq Txs
    /\ MaxArrivals \in Nat

VARIABLES kind, queue, served, arrivals

poolVars == <<kind, queue, served, arrivals>>

Kinds == {"SimplePool", "PriorityPool", "CensoringPool"}

None == [tx |-> "none", at |-> 0]

Entries == [tx : Txs, at : Nat]

PoolInit == kind \in Kinds /\ queue = <<>> /\ served = None /\ arrivals = 0

\* The positions of what has a lower priority than t.
LowerThan(t) == {i \in DOMAIN queue : Prioritizer[queue[i].tx] < Prioritizer[t]}

\* The transactions that try_insert does not reject.
Accepted ==
    CASE kind = "SimplePool" -> Txs
      [] kind = "PriorityPool" -> {t \in Txs : Prioritizer[t] >= MinimumPriority}
      [] kind = "CensoringPool" -> Txs \ Terrorist

\* A rejected transaction leaves the pool as it was.
TryInsert(t) ==
    LET e == [tx |-> t, at |-> arrivals + 1]
    IN /\ t \in Accepted
       /\ arrivals < MaxArrivals
       /\ arrivals' = arrivals + 1
       /\ queue' = IF kind = "PriorityPool" THEN PriorityInsert(queue, e, LowerThan(t))
                                            ELSE PushBack(queue, e)
       /\ UNCHANGED <<kind, served>>

NextFromPool ==
    /\ IF queue = <<>>
       THEN queue' = queue /\ served' = None
       ELSE queue' = Tail(queue) /\ served' = Head(queue)
    /\ UNCHANGED <<kind, arrivals>>

RemoveTx(t) ==
    /\ queue' = Retain(queue, {i \in DOMAIN queue : queue[i].tx # t})
    /\ UNCHANGED <<kind, served, arrivals>>

PoolNext ==
    \/ \E t \in Txs : TryInsert(t) \/ RemoveTx(t)
    \/ NextFromPool

PoolSpec == PoolInit /\ [][PoolNext]_poolVars

-----------------------------------------------------------------------------
\* What a kind of pool orders by.
Rank == [t \in Txs |-> IF kind = "PriorityPool" THEN Prioritizer[t] ELSE 0]

\* What a kind of pool lets in.
Policy == {t \in Txs : /\ kind = "PriorityPool" => MinimumPriority <= Prioritizer[t]
                       /\ kind = "CensoringPool" => t \notin Terrorist}

PoolTypeOK ==
    /\ kind \in Kinds
    /\ queue \in Seq(Entries)
    /\ served \in Entries \cup {None}
    /\ arrivals \in Nat

\* Of two entries, the one nearer the front has the higher rank or, at equal
\* rank, arrived earlier: no insertion before a lower priority (l. 141-149) and
\* no removal from the middle ever reorders what waits.
Ordered ==
    \A i, j \in DOMAIN queue : i < j =>
        \/ Rank[queue[j].tx] < Rank[queue[i].tx]
        \/ Rank[queue[j].tx] = Rank[queue[i].tx] /\ queue[i].at < queue[j].at

-----------------------------------------------------------------------------
(* The pools implement the fair queue *)

Fair == INSTANCE FairQueue WITH
            waiting <- {queue[i] : i \in DOMAIN queue},
            admitted <- Policy,
            rank <- Rank

\* PriorityPool serves the highest priority first, first come first served
\* within a priority; SimplePool and CensoringPool first come first served;
\* none loses, duplicates or invents a transaction or lets in a refused one.
ServesFairly == Fair!Spec
=============================================================================
