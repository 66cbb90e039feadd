------------------------------ MODULE Batches ------------------------------
(***************************************************************************)
(* What author_and_import_automatic_block makes of the pool of a client    *)
(* (src/c4_client/p5_authoring_blocks.rs): it takes the transactions of    *)
(* one block from the front, and removes every one of them again once the  *)
(* block is sealed.                                                        *)
(***************************************************************************)
EXTENDS TransactionPool

CONSTANT BatchSize   \* the 10 transactions of a block

ASSUME BatchAssumption == BatchSize \in Nat \ {0}

\* Mutant of NextBatch: wait until there is more than a block can take.
MutFullBatches(q) == IF Len(q) <= BatchSize THEN <<>> ELSE SubSeq(q, 1, BatchSize)

NextBatch(q) == SubSeq(q, 1, IF Len(q) < BatchSize THEN Len(q) ELSE BatchSize)

AfterBatch(q) == SubSeq(q, Len(NextBatch(q)) + 1, Len(q))

\* Mutant of AfterInclusion: the pool is emptied.
MutClearPool(q) == <<>>

\* The positions behind the batch of what is in no way equal to one of it.
OthersThan(batch, rest) == {i \in DOMAIN rest : rest[i] \notin Range(batch)}

\* The pool once remove was called for every transaction of the batch: what waited
\* further back and is equal to one of them goes as well.
AfterInclusion(q) == Retain(AfterBatch(q), OthersThan(NextBatch(q), AfterBatch(q)))
=============================================================================
