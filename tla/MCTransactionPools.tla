------------------------- MODULE MCTransactionPools -------------------------
(* Two transactions of one priority, one of a higher one, one at the
   threshold and one below it; one of them is censored. *)
EXTENDS TransactionPools

CONSTANTS transfer, burn, burn2, dust, mint

MCTxs == {transfer, burn, burn2, mint, dust}

MCPrioritizer ==
    [t \in MCTxs |-> CASE t = transfer -> 6
                       [] t \in {burn, burn2} -> 5
                       [] t = mint -> 4
                       [] t = dust -> 3]

MCTerrorist == {burn}
=============================================================================
