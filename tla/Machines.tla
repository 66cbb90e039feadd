------------------------------ MODULE Machines ------------------------------
(***************************************************************************)
(* The single-user state machines of src/c1_state_machine, driven by       *)
(* whoever stands in front of them: a machine, one of those that implement *)
(* the trait StateMachine, undergoes any transitions in any order.  `log`  *)
(* is history, what was done since the state was `from_state`: since the   *)
(* beginning, or since the cash machine was last in its main menu.         *)
(***************************************************************************)
EXTENDS Atm, Laundry, Switches

CONSTANTS Lives,         \* u64 lives of clothes to explore
          MaxActions     \* bound of the exploration: transitions in the log

ASSUME MachinesAssumption == Lives \subseteq Nat /\ MaxActions \in Nat

VARIABLES machine, from_state, state, log

machineVars == <<machine, from_state, state, log>>

Machines == {"LightSwitch", "WeirdSwitchMachine", "ClothesMachine", "Atm"}

MachineStarts(m) ==
    CASE m = "LightSwitch"        -> BOOLEAN
      [] m = "WeirdSwitchMachine" -> TwoSwitches
      [] m = "ClothesMachine"     ->
           {Tattered} \cup {Clothes(c, n) : c \in {"Clean", "Dirty", "Wet"}, n \in Lives}
      [] m = "Atm"                -> {Atm(cash, Waiting, <<>>) : cash \in CashInside}

Transitions(m) ==
    CASE m = "LightSwitch"        -> {"Toggle"}
      [] m = "WeirdSwitchMachine" -> Toggles
      [] m = "ClothesMachine"     -> ClothesActions
      [] m = "Atm"                -> AtmActions

\* StateMachine::next_state.
NextStateOf(m, s, t) ==
    CASE m = "LightSwitch"        -> LightNext(s, t)
      [] m = "WeirdSwitchMachine" -> WeirdNext(s, t)
      [] m = "ClothesMachine"     -> ClothesNext(s, t)
      [] m = "Atm"                -> AtmNext(s, t)

MachineInit ==
    /\ machine \in Machines
    /\ from_state \in MachineStarts(machine)
    /\ state = from_state
    /\ log = <<>>

InMenu(s) == machine = "Atm" /\ s.auth_status = Waiting

Undergo(t) ==
    /\ \/ Len(log) < MaxActions
       \/ machine = "Atm" /\ t = Enter
    /\ state' = NextStateOf(machine, state, t)
    /\ IF InMenu(state') THEN from_state' = state' /\ log' = <<>>
                         ELSE from_state' = from_state /\ log' = Append(log, t)
    /\ UNCHANGED machine

MachineNext == \E t \in Transitions(machine) : Undergo(t)

MachineSpec == MachineInit /\ [][MachineNext]_machineVars

-----------------------------------------------------------------------------
(* What was done *)

LastOf(S, before) == Max({0} \cup {i \in S : i < before})

LastDone(S) == LastOf({i \in DOMAIN log : log[i] \in S}, Len(log) + 1)

-----------------------------------------------------------------------------
(* The switches *)

IsOdd(S) == Cardinality(S) % 2 = 1

Done(t, upTo) == {i \in DOMAIN log : i <= upTo /\ log[i] = t}

FirstOn(i) == from_state.first_switch # IsOdd(Done("FirstSwitch", i))

\* When the first switch last went off.
FirstWentOff == Max({0} \cup {i \in Done("FirstSwitch", Len(log)) : ~ FirstOn(i)})

SecondToggled(while) ==
    {i \in Done("SecondSwitch", Len(log)) : i > FirstWentOff /\ FirstOn(i) = while}

\* "Whenever switch one is turned off, switch two also goes off" (p1:22-23), whatever was
\* toggled before, and the second comes on again only by an odd number of toggles of its
\* own.  That is said of the times when the second was last toggled while the first was
\* off: what a toggle does while the first is on, the comment does not say.
SecondSwitchRule ==
    machine = "WeirdSwitchMachine" =>
        /\ state.first_switch = FirstOn(Len(log))
        /\ SecondToggled(TRUE) = {} =>
             (state.second_switch <=>
                (FirstWentOff = 0 /\ from_state.second_switch) # IsOdd(SecondToggled(FALSE)))

-----------------------------------------------------------------------------
(* The laundry *)

\* The condition that the last wearing or washing, and what came after, leaves.
ConditionNow ==
    LET last == LastDone({"Wear", "Wash"})
    IN CASE last = 0 /\ (from_state = Tattered \/ log = <<>>) -> from_state[1]
         [] last = 0 /\ from_state # Tattered /\ log # <<>>   ->
              IF from_state[1] = "Dirty" THEN "Dirty" ELSE "Clean"
         [] last # 0 /\ log[last] = "Wear"               -> "Dirty"
         [] last # 0 /\ log[last] = "Wash"               ->
              IF last = Len(log) THEN "Wet" ELSE "Clean"

\* Clothes last for as many actions as they have life, "tattered no matter what is
\* done with them" after that; until then drying cleans them exactly if they were not
\* worn since they were washed (p2:11-36, 45-62).
ClothesWearOut ==
    machine = "ClothesMachine" =>
        IF log # <<>> /\ (from_state = Tattered \/ from_state[2] <= Len(log))
        THEN state = Tattered
        ELSE state = IF from_state = Tattered THEN Tattered
                     ELSE Clothes(ConditionNow, from_state[2] - Len(log))

-----------------------------------------------------------------------------
(* The cash machine *)

LastSwipe == LastDone({SwipeCard(c) : c \in Cards})
LastEnter == LastDone({Enter})

IsDigit(action) == action[1] = "PressKey" /\ action # Enter

\* The digits keyed in between two moments, whatever cards were swiped meanwhile.
Keyed(from, to) ==
    LET upTo[i \in 0..to - 1] ==
            IF i <= from THEN <<>>
            ELSE IF IsDigit(log[i]) THEN Append(upTo[i - 1], log[i][2]) ELSE upTo[i - 1]
    IN upTo[to - 1]

\* The PIN was entered after the last card was swiped, and is that card's.
PinEntered ==
    LET enters == {i \in DOMAIN log : log[i] = Enter}
    IN /\ LastSwipe < LastEnter
       /\ log[LastSwipe] = SwipeCard(HashKeys(Keyed(LastOf(enters, LastEnter), LastEnter)))

\* The register holds "all the keys that have been pressed since the last Enter"
\* (p3:51-52) of this session, over any number of cards, and nothing of an earlier
\* session.
RegisterSinceEnter ==
    machine = "Atm" => state.keystroke_register = Keyed(LastEnter, Len(log) + 1)

\* A session is authenticated exactly if the PIN of the card that was swiped last
\* was entered after it: no earlier card's PIN counts, whatever was keyed in before
\* (p3:35-42, 71-108).
AuthenticatedByPin ==
    machine = "Atm" => (state.auth_status = Authenticated <=> log # <<>> /\ PinEntered)

\* The number that keys stand for.
Value(keys) ==
    LET upTo[i \in 0..Len(keys)] == IF i = 0 THEN 0 ELSE 10 * upTo[i - 1] + DigitOf[keys[i]]
    IN upTo[Len(keys)]

\* Cash leaves only for the PIN of the last card, and then what the digits say that
\* were keyed in after the PIN: no digit of a PIN or of an earlier amount counts.  A
\* number that does not fit a u64 is cut to its last bits.  The machine never gives
\* more than it has (p3:110-131).
CashAgainstPin ==
    [][machine = "Atm" /\ state'.cash_inside # state.cash_inside =>
         /\ PinEntered
         /\ state.cash_inside - state'.cash_inside
              = Value(Keyed(LastEnter, Len(log) + 1)) % AtmWord
         /\ state'.cash_inside >= 0]_machineVars
=============================================================================
