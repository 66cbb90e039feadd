------------------------- MODULE MCSubmissionStream -------------------------
(* Two transactions of the highest priority and one of a lower. *)
EXTENDS SubmissionStream

CONSTANTS high, high2, low

MCSubmitted == {high, high2, low}
MCPriorityOf == [t \in MCSubmitted |-> IF t = low THEN 4 ELSE 6]
=============================================================================
