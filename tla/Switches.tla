------------------------------ MODULE Switches ------------------------------
(***************************************************************************)
(* The two switch boards of src/c1_state_machine/p1_switches.rs.           *)
(***************************************************************************)

\* LightSwitch::next_state; its only transition is ().
LightNext(on, t) == ~ on

Toggles == {"FirstSwitch", "SecondSwitch"}

TwoSwitches == [first_switch : BOOLEAN, second_switch : BOOLEAN]

\* Mutant of WeirdNext: the second switch stays on when the first goes off.
MutNotWeird(s, t) ==
    CASE t = "FirstSwitch"  -> [s EXCEPT !.first_switch = ~ @]
      [] t = "SecondSwitch" -> [s EXCEPT !.second_switch = ~ s.first_switch /\ ~ @]

\* WeirdSwitchMachine::next_state.  Toggled while the first switch is on, the second
\* one is off, whatever it was.
WeirdNext(s, t) ==
    CASE t = "FirstSwitch"  -> [first_switch  |-> ~ s.first_switch,
                                second_switch |-> ~ s.first_switch /\ s.second_switch]
      [] t = "SecondSwitch" -> [first_switch  |-> s.first_switch,
                                second_switch |-> ~ s.first_switch /\ ~ s.second_switch]
=============================================================================
