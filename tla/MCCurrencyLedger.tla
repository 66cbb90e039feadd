------------------------- MODULE MCCurrencyLedger -------------------------
(* Three users, balances of two bits, so that a mint can pass u64::MAX. *)
EXTENDS CurrencyLedger

CONSTANTS alice, bob, charlie

MCUsers == {alice, bob, charlie}
MCAmounts == 0..3
=============================================================================
