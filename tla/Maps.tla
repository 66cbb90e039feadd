------------------------------- MODULE Maps -------------------------------
(* The maps of the standard library, HashMap and BTreeMap, as functions *)
(* from their finite set of keys.                                       *)

\* ::insert, which replaces the value of a key that is there, and ::remove.
Put(m, k, v) == [x \in DOMAIN m \cup {k} |-> IF x = k THEN v ELSE m[x]]
Del(m, k) == [x \in DOMAIN m \ {k} |-> m[x]]
=============================================================================
