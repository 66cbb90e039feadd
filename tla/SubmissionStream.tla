-------------------------- MODULE SubmissionStream --------------------------
(***************************************************************************)
(* The pool of a client between users who never stop submitting            *)
(* (src/c4_client/mod.rs) and a node that keeps authoring on its best      *)
(* block (src/c4_client/p5_authoring_blocks.rs), which it has.  Module     *)
(* Client has the rest of the node, and so few transactions that there is  *)
(* an end to them; here there is none, and only how many wait at once is   *)
(* bounded.                                                                *)
(*                                                                         *)
(* `watched` is history: the position of one entry, any of those that ever *)
(* wait, until it leaves the pool; 0 when there is none.                   *)
(***************************************************************************)
EXTENDS Batches

CONSTANTS Submitted,     \* transactions that the pool does not reject
          PriorityOf,    \* prioritizer of a PriorityPool, a function on them
          MaxWaiting     \* bound of the exploration: entries in the pool

ASSUME StreamAssumption == PriorityOf \in [Submitted -> Nat] /\ MaxWaiting \in Nat

VARIABLES pool_kind, waiting, watched

streamVars == <<pool_kind, waiting, watched>>

StreamInit ==
    /\ pool_kind \in {"SimplePool", "PriorityPool"}
    /\ waiting = <<>>
    /\ watched = 0

\* Where a transaction goes: to the back, or before the first of lower priority.
EntersAt(t) ==
    LET lower == {i \in DOMAIN waiting : PriorityOf[waiting[i]] < PriorityOf[t]}
    IN IF pool_kind = "PriorityPool" /\ lower # {} THEN Min(lower) ELSE Len(waiting) + 1

\* submit_transaction, with try_insert.
SubmitNext(t) ==
    /\ Len(waiting) < MaxWaiting
    /\ waiting' = InsertAt(waiting, EntersAt(t), t)
    /\ \/ watched' = IF watched < EntersAt(t) THEN watched ELSE watched + 1
       \/ watched = 0 /\ watched' = EntersAt(t)
    /\ UNCHANGED pool_kind

\* Where what is at position i is once those at the positions of a set are left.
Moved(i, kept) == IF i \in kept THEN Cardinality(UpTo(kept, i)) ELSE 0

\* author_and_import_automatic_block, which seals the block or fails to.
AuthorNext ==
    LET behind == DOMAIN waiting \ DOMAIN NextBatch(waiting)
        others == {i \in behind : waiting[i] \notin Range(NextBatch(waiting))}
    IN /\ NextBatch(waiting) # <<>>
       /\ \/ waiting' = AfterInclusion(waiting) /\ watched' = Moved(watched, others)
          \/ waiting' = AfterBatch(waiting) /\ watched' = Moved(watched, behind)
       /\ UNCHANGED pool_kind

StreamNext == (\E t \in Submitted : SubmitNext(t)) \/ AuthorNext

\* A node that never stops authoring; users may stop or not.
StreamSpec == StreamInit /\ [][StreamNext]_streamVars /\ WF_streamVars(AuthorNext)

-----------------------------------------------------------------------------
(* What waits is served *)

\* No transaction that users submit goes before this entry.
NotOvertaken(i) ==
    pool_kind = "PriorityPool" => \A t \in Submitted : PriorityOf[t] <= PriorityOf[waiting[i]]

\* However many transactions keep coming, one that waits in a first come first served
\* pool leaves it, in a batch or because an equal one was included; in a PriorityPool
\* one of the highest priority does (p4:53-54, p5:80-150).  One of a lower priority may
\* wait for ever there, as long as better ones keep coming (p4:141-149).
NobodyWaitsForEver ==
    watched # 0 /\ NotOvertaken(watched) ~> watched = 0
=============================================================================
