----------------------------- MODULE MCMachines -----------------------------
(* Two digits; cards with a PIN of one and of two digits, of none, and one whose
   hash no PIN has.  Amounts of two digits pass the word.  Lives of 0, and up to
   what six actions use up. *)
EXTENDS Machines

MCDigits == {"One", "Two"}
MCCards == {HashKeys(<<"One">>), HashKeys(<<"Two", "One">>), HashKeys(<<>>), <<"other", 1234>>}
MCCashInside == {3, 15}
MCLives == 0..5
=============================================================================
