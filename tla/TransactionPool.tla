-------------------------- MODULE TransactionPool --------------------------
(***************************************************************************)
(* What the pools of src/c4_client/p4_transaction_pool.rs do to their      *)
(* VecDeque.  The operators take the queue's elements as they come: the    *)
(* client puts transactions in it, the pool specifications transactions    *)
(* stamped with their arrival.                                             *)
(***************************************************************************)
EXTENDS Integers, FiniteSets, SequencesExt

\* push_back: SimplePool::try_insert, and CensoringPool's once it admits t.
PushBack(q, e) == Append(q, e)

\* Mutant of PriorityInsert: the element goes behind the first element of lower
\* priority, as the comment at l. 139-140 says.
MutInsertAfter(q, e, lower) ==
    IF lower = {} THEN Append(q, e) ELSE InsertAt(q, Min(lower) + 1, e)

\* PriorityPool::try_insert once the priority is high enough: before the first of
\* the positions of lower priority, else at the back.
PriorityInsert(q, e, lower) ==
    IF lower = {} THEN Append(q, e) ELSE InsertAt(q, Min(lower), e)

\* The elements of a finite set of positions, up to i, and the k-th of them.
UpTo(kept, i) == {j \in kept : j <= i}
Nth(kept, k) == CHOOSE i \in kept : Cardinality(UpTo(kept, i)) = k

\* Mutant of Retain: only the first of the elements to drop goes.
MutRemoveFirst(q, kept) ==
    IF kept = DOMAIN q THEN q ELSE RemoveAt(q, Min(DOMAIN q \ kept))

\* retain: the elements at the positions that pass the test, in the order they
\* were in.
Retain(q, kept) == [k \in 1..Cardinality(kept) |-> q[Nth(kept, k)]]
=============================================================================
