---------------------------- MODULE MCBlockTree ----------------------------
(* All four rules, on trees of up to four blocks with work 0 to 2. *)
EXTENDS BlockTree

MCWorkDigests == 0..2
MCAuthorities == {"Alice", "Bob"}
MCTreeRoots == {<<"root", 1>>, <<"root", 2>>}
=============================================================================
