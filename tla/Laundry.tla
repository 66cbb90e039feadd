------------------------------ MODULE Laundry ------------------------------
(***************************************************************************)
(* The life of a piece of clothing, src/c1_state_machine/                  *)
(* p2_laundry_machine.rs.                                                  *)
(***************************************************************************)
EXTENDS Integers

ClothesActions == {"Wear", "Wash", "Dry"}

Clothes(condition, life) == <<condition, life>>
Tattered == <<"Tattered">>

\* Mutant of ClothesNext: the last bit of life is used up too late.
MutWornLater(s, action) ==
    IF s = Tattered \/ s[2] = 0 THEN Tattered
    ELSE Clothes(CASE action = "Wear" -> "Dirty"
                   [] action = "Wash" -> "Wet"
                   [] action = "Dry"  -> IF s[1] = "Dirty" THEN "Dirty" ELSE "Clean",
                 s[2] - 1)

\* ClothesMachine::next_state.
ClothesNext(s, action) ==
    IF s = Tattered \/ s[2] <= 1 THEN Tattered
    ELSE Clothes(CASE action = "Wear" -> "Dirty"
                   [] action = "Wash" -> "Wet"
                   [] action = "Dry"  -> IF s[1] = "Dirty" THEN "Dirty" ELSE "Clean",
                 s[2] - 1)
=============================================================================
