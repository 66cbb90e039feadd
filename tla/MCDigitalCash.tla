--------------------------- MODULE MCDigitalCash ---------------------------
(* Two users, bills of 0 to 2, up to two of them at the start, transfers of up to two
   bills for up to two. *)
EXTENDS DigitalCash

CONSTANTS anne, ben

MCOwners == {anne, ben}
MCBillAmounts == 0..2
EitherOwner == Permutations(MCOwners)
=============================================================================
