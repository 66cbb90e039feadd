----------------------------- MODULE FairQueue -----------------------------
(***************************************************************************)
(* What a transaction pool promises, without saying how it is stored: a    *)
(* set of waiting transactions, each with the time it arrived; whoever     *)
(* asks for the next one gets one of the highest rank, and among those the *)
(* one that has waited longest.  Nothing waiting is ever passed over,      *)
(* duplicated, or dropped, except by a request to discard it.              *)
(***************************************************************************)
EXTENDS Integers

CONSTANT Txs         \* the transactions users may submit

None == [tx |-> "none", at |-> 0]

VARIABLES admitted,  \* the pool's policy, fixed for its life: which it accepts
          rank,      \* and what it orders them by
          waiting,   \* set of [tx, at]
          served,    \* what the last next_from_pool returned
          arrivals   \* number of accepted transactions

vars == <<admitted, rank, waiting, served, arrivals>>

Init == /\ admitted \in SUBSET Txs
        /\ rank \in [Txs -> Nat]
        /\ waiting = {} /\ served = None /\ arrivals = 0

Submit(t) ==
    /\ t \in admitted
    /\ arrivals' = arrivals + 1
    /\ waiting' = waiting \cup {[tx |-> t, at |-> arrivals + 1]}
    /\ UNCHANGED <<admitted, rank, served>>

\* e goes before every other waiting entry.
First(e) ==
    \A f \in waiting \ {e} :
        \/ rank[f.tx] < rank[e.tx]
        \/ rank[f.tx] = rank[e.tx] /\ e.at < f.at

Serve ==
    /\ \/ \E e \in waiting : First(e) /\ waiting' = waiting \ {e} /\ served' = e
       \/ waiting = {} /\ waiting' = {} /\ served' = None
    /\ UNCHANGED <<admitted, rank, arrivals>>

Discard(t) ==
    /\ waiting' = {e \in waiting : e.tx # t}
    /\ UNCHANGED <<admitted, rank, served, arrivals>>

Next == \/ \E t \in Txs : Submit(t) \/ Discard(t)
        \/ Serve

Spec == Init /\ [][Next]_vars
=============================================================================
