--------------------------- MODULE MCSealedChain ---------------------------
(* Every engine of chapter 3, with two or three authorities, nonces below and
   above the lower threshold, and forks at height 2. *)
EXTENDS SealedChain

MCNonces == {0, 3}
MCStateRoots == {4, 7}
MCEngines ==
    LET two == <<"Alice", "Bob">>
        three == <<"Charlie", "Alice", "Bob">>
    IN {Unit, Pow(2), Pow(4), Dictator("Bob"), SimplePoa(two), ByHeight(two), ByHeight(three),
        BySlot(two), BySlot(three), Alternating(Pow(4), SimplePoa(two)),
        EvenOnly(Pow(4)), EvenOnly(BySlot(two)), EvenOnly(ByHeight(two)),
        ChangeAuthorities(2, two, three), ChangeDifficulty(2, 4, 2),
        EvenAfterGivenHeight(2, SimplePoa(two)),
        EvenAfterGivenHeight(2, Alternating(Pow(4), SimplePoa(two))), PowToPoa(2, 4, two)}

MCOffered ==
    {UnitDigest} \cup {Work(n) : n \in 1..4} \cup {<<"Pow", n>> : n \in 3..4}
    \cup {Signature(a) : a \in {"Alice", "Bob", "Charlie"}}
    \cup {<<"Poa", a>> : a \in {"Alice", "Charlie"}}
    \cup {SlotDigest(s, a) : s \in 0..MaxSlot, a \in {"Alice", "Bob", "Charlie"}}

ForkedOnly == {e \in MCEngines : e.kind = "Forked"}
=============================================================================
