-------------------------- MODULE Machines_proofs --------------------------
(***************************************************************************)
(* What a machine shows at any time is what was done to it says, over any  *)
(* number of transitions: for switches from any state, for clothes of any  *)
(* life, and for a cash machine with any cash, word and cards.             *)
(*                                                                         *)
(* Of the cash system, for any users, amounts and number of bills: serials *)
(* are unique among all bills ever issued, a bill that was spent stays     *)
(* spent, and all bills together are worth at most what was minted.        *)
(***************************************************************************)
EXTENDS Machines, DigitalCash, Collections_proofs

-----------------------------------------------------------------------------
(* What was done last *)

LEMMA MaxIs ==
    ASSUME NEW I \in SUBSET Nat, NEW m \in I, \A i \in I : i <= m
    PROVE  Max(I) = m
<1>1. I # {} /\ m \in Nat
  OBVIOUS
<1>2. Max(I) \in I /\ \A i \in I : i <= Max(I)
  BY <1>1, MaxOfNats
<1>3. Max(I) \in Nat /\ m <= Max(I) /\ Max(I) <= m
  BY <1>2
<1>. QED
  BY <1>1, <1>3

\* m is the greatest element of S below n, or 0 if there is none.
IsLast(m, S, n) == m \in S \cup {0} /\ m < n /\ \A i \in S : i < n => i <= m

LEMMA LastOfIs ==
    ASSUME NEW S \in SUBSET Nat, NEW n \in Nat, n > 0
    PROVE  /\ IsLast(LastOf(S, n), S, n)
           /\ \A m : IsLast(m, S, n) => LastOf(S, n) = m
<1>. DEFINE I == {0} \cup {i \in S : i < n}
<1>1. I \in SUBSET Nat /\ I # {} /\ \A i \in I : i <= n
  <2>1. I \in SUBSET Nat /\ 0 \in I
    <3>1. \A i \in I : i = 0 \/ i \in S
      OBVIOUS
    <3>2. \A i \in I : i \in Nat
      BY <3>1
    <3>3. 0 \in I
      OBVIOUS
    <3>. HIDE DEF I
    <3>. QED
      BY <3>2, <3>3
  <2>2. ASSUME NEW i \in I PROVE i <= n
    <3>1. i = 0 \/ (i \in Nat /\ i < n)
      OBVIOUS
    <3>. QED
      BY <3>1
  <2>. QED
    BY <2>1, <2>2
<1>2. LastOf(S, n) = Max(I)
  BY DEF LastOf
<1>3. Max(I) \in I /\ \A i \in I : i <= Max(I)
  <2>. HIDE DEF I
  <2>. QED
    BY <1>1, MaxOfNats
<1>4. IsLast(LastOf(S, n), S, n)
  BY <1>2, <1>3 DEF IsLast
<1>5. ASSUME NEW m, IsLast(m, S, n) PROVE Max(I) = m
  <2>1. m \in I /\ \A i \in I : i <= m
    BY <1>5 DEF IsLast
  <2>. HIDE DEF I
  <2>. QED
    BY <1>1, <2>1, MaxIs
<1>. QED
  BY <1>2, <1>4, <1>5

\* Where in a log something of S was done.
Where(l, S) == {i \in DOMAIN l : l[i] \in S}

\* What was done last, when one more thing is done.
LEMMA LastDoneNext ==
    ASSUME NEW X, log \in Seq(X), NEW t \in X, log' = Append(log, t), NEW S
    PROVE  /\ LastDone(S) \in 0..Len(log)
           /\ LastDone(S) # 0 => log[LastDone(S)] \in S
           /\ \A i \in DOMAIN log : log[i] \in S => i <= LastDone(S)
           /\ LastDone(S)' = IF t \in S THEN Len(log) + 1 ELSE LastDone(S)
<1>. DEFINE n == Len(log)
            last == LastDone(S)
<1>1. n \in Nat /\ DOMAIN log = 1..n
  OBVIOUS
<1>2. /\ DOMAIN log' = 1..n + 1 /\ Len(log') = n + 1
      /\ log'[n + 1] = t /\ \A i \in 1..n : log'[i] = log[i]
  OBVIOUS
<1>3. LastDone(S) = LastOf(Where(log, S), n + 1)
  BY DEF LastDone, Where
<1>4. LastDone(S)' = LastOf(Where(log', S), n + 2)
  <2>1. LastDone(S)' = LastOf(Where(log', S), Len(log') + 1)
    BY DEF LastDone, Where
  <2>2. Len(log') + 1 = n + 2
    BY <1>1, <1>2
  <2>. QED
    BY <2>1, <2>2
<1>. HIDE DEF n, last
<1>5. Where(log, S) \in SUBSET Nat /\ Where(log', S) \in SUBSET Nat
  BY <1>1, <1>2 DEF Where
<1>6. IsLast(LastDone(S), Where(log, S), n + 1)
  BY <1>1, <1>3, <1>5, LastOfIs
<1>7. /\ last \in 0..n
      /\ last # 0 => last \in 1..n /\ log[last] \in S
      /\ \A i \in 1..n : log[i] \in S => i <= last
  BY <1>1, <1>6 DEF last, IsLast, Where
<1>8. t \in S => LastDone(S)' = Len(log) + 1
  <2>. HAVE t \in S
  <2>1. IsLast(n + 1, Where(log', S), n + 2)
    BY <1>1, <1>2 DEF IsLast, Where
  <2>2. LastOf(Where(log', S), n + 2) = n + 1
    BY <1>1, <1>5, <2>1, LastOfIs
  <2>. QED
    BY <1>4, <2>2 DEF n
<1>9. t \notin S => LastDone(S)' = LastDone(S)
  <2>. HAVE t \notin S
  <2>1. ASSUME NEW i \in Where(log', S) PROVE i \in 1..n /\ log[i] \in S /\ i <= last
    <3>1. i \in 1..n + 1 /\ log'[i] \in S
      BY <1>2 DEF Where
    <3>2. i # n + 1
      BY <1>2, <3>1
    <3>3. i \in 1..n
      BY <1>1, <3>1, <3>2
    <3>4. log[i] \in S
      BY <1>2, <3>1, <3>3
    <3>. QED
      BY <1>7, <3>3, <3>4
  <2>2. last \in Where(log', S) \cup {0}
    BY <1>1, <1>2, <1>7 DEF Where
  <2>3. last < n + 2
    BY <1>1, <1>7
  <2>4. IsLast(last, Where(log', S), n + 2)
    BY <2>1, <2>2, <2>3 DEF IsLast
  <2>5. LastOf(Where(log', S), n + 2) = last
    BY <1>1, <1>5, <2>4, LastOfIs
  <2>. QED
    BY <1>4, <2>5 DEF last
<1>. QED
  BY <1>1, <1>7, <1>8, <1>9 DEF n, last

-----------------------------------------------------------------------------
(* Every machine *)

\* The log holds transitions of the machine; all but the cash machine keep the state
\* they started in.
Logged ==
    /\ machine \in Machines
    /\ log \in Seq(Transitions(machine))
    /\ machine # "Atm" => from_state \in MachineStarts(machine)

LEMMA InitLogged == MachineInit => Logged
BY DEF MachineInit, Logged

LEMMA LoggedStep == Logged /\ [MachineNext]_machineVars => Logged'
<1>. SUFFICES ASSUME Logged, [MachineNext]_machineVars PROVE Logged'
  OBVIOUS
<1>1. CASE MachineNext
  <2>1. PICK t \in Transitions(machine) : Undergo(t)
    BY <1>1 DEF MachineNext
  <2>2. machine' = machine
    BY <2>1 DEF Undergo
  <2>3. log' \in Seq(Transitions(machine))
    <3>1. log' = <<>> \/ log' = Append(log, t)
      BY <2>1 DEF Undergo
    <3>2. PICK X : X = Transitions(machine)
      OBVIOUS
    <3>3. log \in Seq(X) /\ t \in X
      BY <3>2 DEF Logged
    <3>4. Append(log, t) \in Seq(X) /\ <<>> \in Seq(X)
      BY <3>3
    <3>. QED
      BY <3>1, <3>2, <3>4
  <2>4. machine # "Atm" => from_state' = from_state
    BY <2>1, <2>2 DEF Undergo, InMenu
  <2>. QED
    BY <2>2, <2>3, <2>4 DEF Logged
<1>2. CASE UNCHANGED machineVars
  BY <1>2 DEF Logged, machineVars
<1>. QED
  BY <1>1, <1>2

\* What a transition of a machine other than the cash machine does.
LEMMA OtherMachines ==
    ASSUME machine # "Atm", NEW t, Undergo(t)
    PROVE  machine' = machine /\ from_state' = from_state /\ log' = Append(log, t)
           /\ state' = NextStateOf(machine, state, t)
BY DEF Undergo, InMenu

-----------------------------------------------------------------------------
(* The laundry *)

Worn == Logged /\ ClothesWearOut

\* What clothes may be when they are put in.
LEMMA StartClothes ==
    ASSUME Logged, machine = "ClothesMachine", from_state # Tattered
    PROVE  \E c \in {"Clean", "Dirty", "Wet"}, n \in Nat : from_state = Clothes(c, n)
BY MachinesAssumption DEF Logged, MachineStarts

\* One more transition leaves the condition that next_state makes of the last one.
LEMMA ConditionNext ==
    ASSUME Logged, machine = "ClothesMachine", from_state # Tattered,
           NEW t \in ClothesActions, log' = Append(log, t), from_state' = from_state
    PROVE  ConditionNow' = CASE t = "Wear" -> "Dirty"
                             [] t = "Wash" -> "Wet"
                             [] t = "Dry"  -> IF ConditionNow = "Dirty" THEN "Dirty" ELSE "Clean"
<1>. DEFINE S == {"Wear", "Wash"}
            last == LastDone(S)
<1>1. log \in Seq(ClothesActions)
  BY DEF Logged, Transitions
<1>2. /\ last \in 0..Len(log)
      /\ last # 0 => log[last] \in S
      /\ last' = IF t \in S THEN Len(log) + 1 ELSE last
  BY <1>1, LastDoneNext
<1>3. /\ Len(log) \in Nat /\ Len(log') = Len(log) + 1 /\ log' # <<>>
      /\ log'[Len(log) + 1] = t
      /\ \A i \in 1..Len(log) : log'[i] = log[i]
      /\ log = <<>> <=> Len(log) = 0
  BY <1>1
<1>4. ConditionNow =
         CASE last = 0 /\ (from_state = Tattered \/ log = <<>>) -> from_state[1]
           [] last = 0 /\ from_state # Tattered /\ log # <<>>   ->
                IF from_state[1] = "Dirty" THEN "Dirty" ELSE "Clean"
           [] last # 0 /\ log[last] = "Wear"               -> "Dirty"
           [] last # 0 /\ log[last] = "Wash"               ->
                IF last = Len(log) THEN "Wet" ELSE "Clean"
  BY DEF ConditionNow
<1>5. ConditionNow' =
         CASE last' = 0 /\ (from_state = Tattered \/ log' = <<>>) -> from_state[1]
           [] last' = 0 /\ from_state # Tattered /\ log' # <<>>   ->
                IF from_state[1] = "Dirty" THEN "Dirty" ELSE "Clean"
           [] last' # 0 /\ log'[last'] = "Wear"               -> "Dirty"
           [] last' # 0 /\ log'[last'] = "Wash"               ->
                IF last' = Len(log') THEN "Wet" ELSE "Clean"
  BY DEF ConditionNow
<1>6. PICK was : was = last
  OBVIOUS
<1>7. PICK is : is = last'
  OBVIOUS
<1>. HIDE DEF last
<1>8. CASE t = "Wear"
  BY <1>2, <1>3, <1>5, <1>8
<1>9. CASE t = "Wash"
  BY <1>2, <1>3, <1>5, <1>9
<1>10. CASE t = "Dry"
  <2>1. last' = last /\ last \in 0..Len(log)
    BY <1>2, <1>10
  <2>2. CASE last = 0
    BY <1>3, <1>4, <1>5, <1>10, <2>1, <2>2
  <2>3. CASE last # 0
    BY <1>2, <1>3, <1>4, <1>5, <1>10, <2>1, <2>3
  <2>. QED
    BY <2>2, <2>3
<1>. QED
  BY <1>8, <1>9, <1>10 DEF ClothesActions

LEMMA InitWorn == MachineInit => Worn
<1>. SUFFICES ASSUME MachineInit PROVE Worn
  OBVIOUS
<1>1. Logged
  BY InitLogged
<1>2. ASSUME machine = "ClothesMachine", from_state # Tattered
      PROVE  state = Clothes(ConditionNow, from_state[2] - Len(log))
  <2>1. PICK c \in {"Clean", "Dirty", "Wet"}, n \in Nat : from_state = Clothes(c, n)
    BY <1>1, <1>2, StartClothes
  <2>2. log = <<>> /\ Len(log) = 0 /\ state = from_state
    BY DEF MachineInit
  <2>3. LastDone({"Wear", "Wash"}) = 0
    <3>1. LastDone({"Wear", "Wash"}) = LastOf({}, 1)
      BY <2>2 DEF LastDone
    <3>2. IsLast(0, {}, 1)
      BY DEF IsLast
    <3>. QED
      BY <3>1, <3>2, LastOfIs
  <2>4. ConditionNow = from_state[1]
    BY <2>2, <2>3 DEF ConditionNow
  <2>. QED
    BY <2>1, <2>2, <2>4 DEF Clothes
<1>. QED
  BY <1>1, <1>2 DEF Worn, ClothesWearOut, MachineInit

LEMMA WornStep == Worn /\ [MachineNext]_machineVars => Worn'
<1>. SUFFICES ASSUME Worn, [MachineNext]_machineVars PROVE Worn'
  OBVIOUS
<1>0. Logged /\ Logged'
  BY LoggedStep DEF Worn
<1>1. ASSUME machine = "ClothesMachine", NEW t \in ClothesActions, Undergo(t)
      PROVE  ClothesWearOut'
  <2>1. from_state' = from_state /\ log' = Append(log, t) /\ state' = ClothesNext(state, t)
    BY <1>1, OtherMachines DEF NextStateOf
  <2>2. log \in Seq(ClothesActions)
    BY <1>0, <1>1 DEF Logged, Transitions
  <2>3. Len(log) \in Nat /\ Len(log') = Len(log) + 1 /\ log' # <<>> /\ (log = <<>> <=> Len(log) = 0)
    BY <2>1, <2>2
  <2>4. CASE from_state = Tattered
    <3>1. state = Tattered
      BY <1>1, <2>4 DEF Worn, ClothesWearOut
    <3>2. state' = Tattered
      BY <2>1, <3>1 DEF ClothesNext
    <3>. QED
      BY <2>1, <2>3, <2>4, <3>2 DEF ClothesWearOut
  <2>5. CASE from_state # Tattered
    <3>1. PICK c \in {"Clean", "Dirty", "Wet"}, n \in Nat : from_state = Clothes(c, n)
      BY <1>0, <1>1, <2>5, StartClothes
    <3>2. from_state[2] = n
      BY <3>1 DEF Clothes
    <3>3. CASE n <= Len(log) + 1
      <4>1. state = Tattered \/ state = Clothes(ConditionNow, n - Len(log))
        BY <1>1, <2>5, <3>2 DEF Worn, ClothesWearOut
      <4>2. state = Tattered \/ state[2] <= 1
        BY <2>3, <3>3, <4>1 DEF Clothes
      <4>3. state' = Tattered
        BY <2>1, <4>2 DEF ClothesNext
      <4>. QED
        BY <2>1, <2>3, <3>2, <3>3, <4>3 DEF ClothesWearOut
    <3>4. CASE n > Len(log) + 1
      <4>1. state = Clothes(ConditionNow, n - Len(log))
        BY <1>1, <2>3, <2>5, <3>2, <3>4 DEF Worn, ClothesWearOut
      <4>2. state # Tattered /\ state[1] = ConditionNow /\ state[2] = n - Len(log)
        BY <4>1 DEF Clothes, Tattered
      <4>3. ~ (state[2] <= 1) /\ state[2] - 1 = n - Len(log')
        BY <2>3, <3>4, <4>2
      <4>4. state' = Clothes(ConditionNow', n - Len(log'))
        <5>1. ConditionNow' = CASE t = "Wear" -> "Dirty"
                             [] t = "Wash" -> "Wet"
                             [] t = "Dry"  -> IF ConditionNow = "Dirty" THEN "Dirty" ELSE "Clean"
          BY <1>0, <1>1, <2>1, <2>5, ConditionNext
        <5>. QED
          BY <2>1, <4>2, <4>3, <5>1 DEF ClothesNext
      <4>. QED
        BY <2>1, <2>3, <2>5, <3>2, <3>4, <4>4 DEF ClothesWearOut
    <3>. QED
      BY <2>3, <3>3, <3>4
  <2>. QED
    BY <2>4, <2>5
<1>2. CASE MachineNext
  <2>1. PICK t \in Transitions(machine) : Undergo(t)
    BY <1>2 DEF MachineNext
  <2>2. machine' = machine
    BY <2>1 DEF Undergo
  <2>3. machine = "ClothesMachine" => Transitions(machine) = ClothesActions
    BY DEF Transitions
  <2>4. machine = "ClothesMachine" => ClothesWearOut'
    BY <1>1, <2>1, <2>3
  <2>5. machine # "ClothesMachine" => ClothesWearOut'
    BY <2>2 DEF ClothesWearOut
  <2>. QED
    BY <1>0, <2>4, <2>5 DEF Worn
<1>3. CASE UNCHANGED machineVars
  <2>1. ClothesWearOut'
    BY <1>3 DEF Worn, ClothesWearOut, machineVars, ConditionNow, LastDone, LastOf
  <2>. QED
    BY <1>0, <2>1 DEF Worn
<1>. QED
  BY <1>2, <1>3

-----------------------------------------------------------------------------
(* The switches *)

LEMMA OddAndEven ==
    ASSUME NEW n \in Nat
    PROVE  (n + 1) % 2 = 1 <=> ~ (n % 2 = 1)
OBVIOUS

\* What WeirdNext keeps: the second switch is on exactly if it was not toggled while the
\* first was on, and an odd number of times while it was off.
TogglesTell ==
    machine = "WeirdSwitchMachine" =>
        /\ state.first_switch = FirstOn(Len(log))
        /\ state.second_switch <=>
             /\ SecondToggled(TRUE) = {}
             /\ (FirstWentOff = 0 /\ from_state.second_switch) # IsOdd(SecondToggled(FALSE))

\* The second switch was not touched since the first went off and on again, if the
\* first is off.
Ruled ==
    /\ Logged
    /\ TogglesTell
    /\ machine = "WeirdSwitchMachine" =>
         /\ state \in TwoSwitches
         /\ from_state \in TwoSwitches
         /\ ~ state.first_switch => SecondToggled(TRUE) = {}

\* One more toggle leaves what was done before
LEMMA DoneBefore ==
    ASSUME log \in Seq(Toggles), NEW t \in Toggles, log' = Append(log, t),
           NEW n \in Nat, n = Len(log), NEW T, NEW i \in 0..n
    PROVE  Done(T, i)' = Done(T, i)
<1>1. DOMAIN log = 1..n
  OBVIOUS
<1>2. DOMAIN log' = 1..n + 1 /\ log'[n + 1] = t /\ \A j \in 1..n : log'[j] = log[j]
  OBVIOUS
<1>3. Done(T, i) = {j \in 1..n : j <= i /\ log[j] = T}
  BY <1>1 DEF Done
<1>4. Done(T, i)' = {j \in 1..n + 1 : j <= i /\ log'[j] = T}
  BY <1>2 DEF Done
<1>5. \A j \in 1..n + 1 : j <= i => j \in 1..n
  OBVIOUS
<1>6. \A j \in 1..n : j \in 1..n + 1
  OBVIOUS
<1>7. \A j : j \in Done(T, i)' <=> j \in 1..n /\ j <= i /\ log'[j] = T
  BY <1>4, <1>5, <1>6
<1>8. \A j : j \in Done(T, i) <=> j \in 1..n /\ j <= i /\ log[j] = T
  BY <1>3
<1>9. \A j : j \in Done(T, i)' <=> j \in Done(T, i)
  BY <1>2, <1>7, <1>8
<1>. QED
  BY <1>9

\* and may add itself.
LEMMA DoneNext ==
    ASSUME log \in Seq(Toggles), NEW t \in Toggles, log' = Append(log, t),
           NEW n \in Nat, n = Len(log), NEW T
    PROVE  /\ Done(T, n + 1)' = IF t = T THEN Done(T, n) \cup {n + 1} ELSE Done(T, n)
           /\ \A i \in Done(T, n) : i \in 1..n
           /\ IsFiniteSet(Done(T, n)) /\ Cardinality(Done(T, n)) \in Nat
           /\ IsFiniteSet({}) /\ Cardinality({}) = 0
<1>1. DOMAIN log = 1..n
  OBVIOUS
<1>2. DOMAIN log' = 1..n + 1 /\ log'[n + 1] = t /\ \A i \in 1..n : log'[i] = log[i]
  OBVIOUS
<1>3. \A i : Done(T, i) = {j \in 1..n : j <= i /\ log[j] = T}
  BY <1>1 DEF Done
<1>4. \A i : Done(T, i)' = {j \in 1..n + 1 : j <= i /\ log'[j] = T}
  BY <1>2 DEF Done
<1>5. Done(T, n + 1)' = IF t = T THEN Done(T, n) \cup {n + 1} ELSE Done(T, n)
  <2>1. \A j : j \in 1..n + 1 <=> j \in 1..n \/ j = n + 1
    OBVIOUS
  <2>2. \A j \in 1..n + 1 : j <= n + 1
    OBVIOUS
  <2>3. \A j \in 1..n : j <= n
    OBVIOUS
  <2>4. \A j : j \in Done(T, n + 1)' <=> j \in 1..n + 1 /\ log'[j] = T
    BY <1>4, <2>2
  <2>5. \A j : j \in Done(T, n) <=> j \in 1..n /\ log[j] = T
    BY <1>3, <2>3
  <2>6. \A j : j \in Done(T, n + 1)' <=> j \in Done(T, n) \/ (j = n + 1 /\ t = T)
    BY <1>2, <2>1, <2>4, <2>5
  <2>. QED
    BY <2>6
<1>6. \A i \in Done(T, n) : i \in 1..n
  BY <1>1, <1>3
<1>7. IsFiniteSet(Done(T, n))
  <2>1. Done(T, n) \subseteq 1..n /\ IsFiniteSet(1..n)
    BY <1>6, FS_Interval
  <2>. QED
    BY <2>1, FS_Subset
<1>8. Cardinality(Done(T, n)) \in Nat
  BY <1>7, FS_CardinalityType
<1>. QED
  BY <1>5, <1>6, <1>7, <1>8, FS_EmptySet

LEMMA OddOfOneMore ==
    ASSUME NEW S, IsFiniteSet(S), NEW x, x \notin S
    PROVE  IsOdd(S \cup {x}) <=> ~ IsOdd(S)
<1>1. Cardinality(S) \in Nat /\ Cardinality(S \cup {x}) = Cardinality(S) + 1
  BY FS_CardinalityType, FS_AddElement
<1>. QED
  BY <1>1, OddAndEven DEF IsOdd

\* How one more toggle moves what TogglesTell speaks of.
LEMMA SwitchNext ==
    ASSUME log \in Seq(Toggles), NEW t \in Toggles, log' = Append(log, t),
           from_state \in TwoSwitches, from_state' = from_state,
           NEW n \in Nat, n = Len(log)
    PROVE  /\ Len(log') = n + 1
           /\ FirstOn(n) \in BOOLEAN
           /\ FirstOn(n + 1)' <=> (IF t = "FirstSwitch" THEN ~ FirstOn(n) ELSE FirstOn(n))
           /\ t = "FirstSwitch" /\ FirstOn(n) =>
                /\ FirstWentOff' = n + 1
                /\ SecondToggled(TRUE)' = {} /\ SecondToggled(FALSE)' = {}
           /\ t = "FirstSwitch" /\ ~ FirstOn(n) =>
                /\ FirstWentOff' = FirstWentOff
                /\ SecondToggled(TRUE)' = SecondToggled(TRUE)
                /\ SecondToggled(FALSE)' = SecondToggled(FALSE)
           /\ t = "SecondSwitch" /\ FirstOn(n) =>
                /\ FirstWentOff' = FirstWentOff
                /\ SecondToggled(TRUE)' # {}
           /\ t = "SecondSwitch" /\ ~ FirstOn(n) =>
                /\ FirstWentOff' = FirstWentOff
                /\ SecondToggled(TRUE)' = SecondToggled(TRUE)
                /\ IsOdd(SecondToggled(FALSE)') <=> ~ IsOdd(SecondToggled(FALSE))
<1>. DEFINE First == "FirstSwitch"
            Second == "SecondSwitch"
<1>0. Len(log') = n + 1 /\ First # Second /\ t \in {First, Second}
  BY DEF Toggles
<1>. HIDE DEF First, Second
<1>1. /\ \A i \in 0..n : Done(First, i)' = Done(First, i)
      /\ Done(First, n + 1)' = IF t = First THEN Done(First, n) \cup {n + 1} ELSE Done(First, n)
      /\ \A i \in Done(First, n) : i \in 1..n
      /\ IsFiniteSet(Done(First, n))
  <2>1. ASSUME NEW i \in 0..n PROVE Done(First, i)' = Done(First, i)
    BY DoneBefore
  <2>2. Done(First, n + 1)' = IF t = First THEN Done(First, n) \cup {n + 1} ELSE Done(First, n)
    BY DoneNext
  <2>3. (\A i \in Done(First, n) : i \in 1..n) /\ IsFiniteSet(Done(First, n))
    BY DoneNext
  <2>. QED
    BY <2>1, <2>2, <2>3
<1>2. /\ Done(Second, n + 1)' = IF t = Second THEN Done(Second, n) \cup {n + 1} ELSE Done(Second, n)
      /\ \A i \in Done(Second, n) : i \in 1..n
      /\ IsFiniteSet(Done(Second, n))
  BY DoneNext
<1>3. /\ \A i : FirstOn(i) = (from_state.first_switch # IsOdd(Done(First, i)))
      /\ \A i : FirstOn(i)' = (from_state.first_switch # IsOdd(Done(First, i)'))
  BY DEF FirstOn, First, IsOdd
<1>4. from_state.first_switch \in BOOLEAN
  BY DEF TwoSwitches
<1>5. \A i \in 0..n : FirstOn(i)' = FirstOn(i)
  BY <1>1, <1>3
<1>6. IsOdd(Done(First, n + 1)') <=>
          (IF t = First THEN ~ IsOdd(Done(First, n)) ELSE IsOdd(Done(First, n)))
  <2>1. n + 1 \notin Done(First, n)
    BY <1>1
  <2>2. IsOdd(Done(First, n) \cup {n + 1}) <=> ~ IsOdd(Done(First, n))
    BY <1>1, <2>1, OddOfOneMore
  <2>. QED
    BY <1>1, <2>2
<1>7. FirstOn(n) \in BOOLEAN /\ \A S : IsOdd(S) \in BOOLEAN
  BY <1>3 DEF IsOdd
<1>8. FirstOn(n + 1)' <=> (IF t = First THEN ~ FirstOn(n) ELSE FirstOn(n))
  BY <1>3, <1>4, <1>6, <1>7
<1>. DEFINE off == {i \in Done(First, n) : ~ FirstOn(i)}
            offNow == {i \in Done(First, n + 1)' : ~ FirstOn(i)'}
<1>9. FirstWentOff = Max({0} \cup off) /\ FirstWentOff' = Max({0} \cup offNow)
  BY <1>0 DEF FirstWentOff, First
<1>10. \A w : SecondToggled(w) = {i \in Done(Second, n) : i > FirstWentOff /\ FirstOn(i) = w}
  BY DEF SecondToggled, Second
<1>11. \A w : SecondToggled(w)'
                = {i \in Done(Second, n + 1)' : i > FirstWentOff' /\ FirstOn(i)' = w}
  BY <1>0 DEF SecondToggled, Second
<1>12. /\ \A i \in off : i \in 1..n
       /\ t = First /\ FirstOn(n) => offNow = off \cup {n + 1}
       /\ ~ (t = First /\ FirstOn(n)) => offNow = off
  <2>1. n + 1 \in Nat /\ n \in 0..n /\ \A i \in 1..n : i \in 0..n
    OBVIOUS
  <2>2. \A i \in Done(First, n) : FirstOn(i)' = FirstOn(i)
    BY <1>1, <1>5, <2>1
  <2>3. CASE t = First /\ FirstOn(n)
    BY <1>1, <1>8, <2>2, <2>3
  <2>4. CASE ~ (t = First /\ FirstOn(n))
    BY <1>1, <1>8, <2>2, <2>4
  <2>5. \A i \in off : i \in 1..n
    BY <1>1
  <2>. QED
    BY <2>3, <2>4, <2>5
<1>. HIDE DEF off, offNow
<1>13. Max({0} \cup off) \in 0..n
  <2>1. {0} \cup off \in SUBSET Nat /\ {0} \cup off # {} /\ \A i \in {0} \cup off : i <= n
    BY <1>12
  <2>2. Max({0} \cup off) \in {0} \cup off
    BY <2>1, MaxOfNats
  <2>. QED
    BY <1>12, <2>2
<1>14. t = First /\ FirstOn(n) => FirstWentOff' = n + 1
  <2>. HAVE t = First /\ FirstOn(n)
  <2>1. offNow = off \cup {n + 1}
    BY <1>12
  <2>. DEFINE I == {0} \cup offNow
  <2>2. I \in SUBSET Nat /\ n + 1 \in I /\ \A i \in I : i <= n + 1
    BY <1>12, <2>1
  <2>. HIDE DEF I
  <2>3. Max(I) = n + 1
    BY <2>2, MaxIs
  <2>. QED
    BY <1>9, <2>3 DEF I
<1>15. ~ (t = First /\ FirstOn(n)) => FirstWentOff' = FirstWentOff
  BY <1>9, <1>12
<1>16. FirstWentOff \in 0..n
  BY <1>9, <1>13
<1>17. \A i \in Done(Second, n) : FirstOn(i)' = FirstOn(i) /\ i \in 1..n
  BY <1>2, <1>5
<1>18. ASSUME t = First, FirstOn(n), NEW w PROVE SecondToggled(w)' = {}
  <2>1. Done(Second, n + 1)' = Done(Second, n) /\ FirstWentOff' = n + 1
    BY <1>0, <1>2, <1>14, <1>18
  <2>2. \A i \in Done(Second, n) : ~ (i > n + 1)
    BY <1>17
  <2>. QED
    BY <1>11, <2>1, <2>2
<1>19. ASSUME t = First, ~ FirstOn(n), NEW w PROVE SecondToggled(w)' = SecondToggled(w)
  <2>1. Done(Second, n + 1)' = Done(Second, n) /\ FirstWentOff' = FirstWentOff
    BY <1>0, <1>2, <1>15, <1>19
  <2>. QED
    BY <1>10, <1>11, <1>17, <2>1
<1>20. ASSUME t = Second, NEW w
       PROVE  SecondToggled(w)' = IF FirstOn(n) = w THEN SecondToggled(w) \cup {n + 1}
                                  ELSE SecondToggled(w)
  <2>1. Done(Second, n + 1)' = Done(Second, n) \cup {n + 1} /\ FirstWentOff' = FirstWentOff
    BY <1>0, <1>2, <1>15, <1>20
  <2>2. n + 1 > FirstWentOff
    BY <1>16
  <2>3. FirstOn(n + 1)' = FirstOn(n)
    BY <1>0, <1>3, <1>7, <1>8, <1>20
  <2>. QED
    BY <1>10, <1>11, <1>17, <2>1, <2>2, <2>3
<1>21. ASSUME NEW w PROVE IsFiniteSet(SecondToggled(w)) /\ n + 1 \notin SecondToggled(w)
  <2>1. SecondToggled(w) \subseteq Done(Second, n)
    BY <1>10
  <2>. QED
    BY <1>2, <2>1, FS_Subset
<1>22. t = First /\ FirstOn(n) =>
         /\ FirstWentOff' = n + 1
         /\ SecondToggled(TRUE)' = {} /\ SecondToggled(FALSE)' = {}
  BY <1>14, <1>18
<1>23. t = First /\ ~ FirstOn(n) =>
         /\ FirstWentOff' = FirstWentOff
         /\ SecondToggled(TRUE)' = SecondToggled(TRUE)
         /\ SecondToggled(FALSE)' = SecondToggled(FALSE)
  BY <1>15, <1>19
<1>24. t = Second /\ FirstOn(n) =>
         /\ FirstWentOff' = FirstWentOff
         /\ SecondToggled(TRUE)' # {}
  <2>. HAVE t = Second /\ FirstOn(n)
  <2>1. FirstOn(n) = TRUE
    BY <1>7
  <2>2. SecondToggled(TRUE)' = SecondToggled(TRUE) \cup {n + 1}
    BY <1>20, <2>1
  <2>3. n + 1 \in SecondToggled(TRUE)'
    BY <2>2
  <2>. QED
    BY <1>0, <1>15, <2>3
<1>25. t = Second /\ ~ FirstOn(n) =>
         /\ FirstWentOff' = FirstWentOff
         /\ SecondToggled(TRUE)' = SecondToggled(TRUE)
         /\ IsOdd(SecondToggled(FALSE)') <=> ~ IsOdd(SecondToggled(FALSE))
  <2>. HAVE t = Second /\ ~ FirstOn(n)
  <2>1. FirstOn(n) = FALSE
    BY <1>7
  <2>2. SecondToggled(TRUE)' = SecondToggled(TRUE)
    BY <1>20, <2>1
  <2>3. SecondToggled(FALSE)' = SecondToggled(FALSE) \cup {n + 1}
    BY <1>20, <2>1
  <2>4. IsOdd(SecondToggled(FALSE) \cup {n + 1}) <=> ~ IsOdd(SecondToggled(FALSE))
    BY <1>21, OddOfOneMore
  <2>. QED
    BY <1>15, <2>2, <2>3, <2>4
<1>. QED
  BY <1>0, <1>7, <1>8, <1>22, <1>23, <1>24, <1>25 DEF First, Second

LEMMA InitRuled == MachineInit => Ruled
<1>. SUFFICES ASSUME MachineInit PROVE Ruled
  OBVIOUS
<1>1. Logged
  BY InitLogged
<1>2. log = <<>> /\ Len(log) = 0 /\ state = from_state
  BY DEF MachineInit
<1>3. machine = "WeirdSwitchMachine" => from_state \in TwoSwitches
  BY <1>1 DEF Logged, MachineStarts
<1>4. ASSUME NEW T, NEW i PROVE Done(T, i) = {}
  BY <1>2 DEF Done
<1>5. ~ IsOdd({})
  <2>1. Cardinality({}) = 0
    BY FS_EmptySet
  <2>. QED
    BY <2>1 DEF IsOdd
<1>6. IsOdd({}) = FALSE /\ \A w : SecondToggled(w) = {}
  BY <1>4, <1>5 DEF SecondToggled, IsOdd
<1>7. ASSUME machine = "WeirdSwitchMachine" PROVE FirstOn(0) = from_state.first_switch
  <2>1. from_state.first_switch \in BOOLEAN
    BY <1>3, <1>7 DEF TwoSwitches
  <2>2. FirstOn(0) = (from_state.first_switch # FALSE)
    BY <1>4, <1>6 DEF FirstOn
  <2>. QED
    BY <2>1, <2>2
<1>8. FirstWentOff = 0
  <2>1. FirstWentOff = Max({0})
    BY <1>4 DEF FirstWentOff
  <2>2. {0} \in SUBSET Nat /\ 0 \in {0} /\ \A i \in {0} : i <= 0
    OBVIOUS
  <2>. QED
    BY <2>1, <2>2, MaxIs
<1>9. ASSUME machine = "WeirdSwitchMachine"
      PROVE  (from_state.second_switch # IsOdd({})) <=> from_state.second_switch
  <2>1. from_state.second_switch \in BOOLEAN
    BY <1>3, <1>9 DEF TwoSwitches
  <2>. QED
    BY <1>6, <2>1
<1>10. TogglesTell
  <2>. SUFFICES ASSUME machine = "WeirdSwitchMachine"
                PROVE  /\ state.first_switch = FirstOn(Len(log))
                       /\ state.second_switch <=>
                            /\ SecondToggled(TRUE) = {}
                            /\ (FirstWentOff = 0 /\ from_state.second_switch)
                                 # IsOdd(SecondToggled(FALSE))
    BY DEF TogglesTell
  <2>1. from_state.second_switch \in BOOLEAN
    BY <1>3 DEF TwoSwitches
  <2>2. (FirstWentOff = 0 /\ from_state.second_switch) <=> from_state.second_switch
    BY <1>8
  <2>3. SecondToggled(TRUE) = {} /\ IsOdd(SecondToggled(FALSE)) = FALSE
    BY <1>6
  <2>4. ((FirstWentOff = 0 /\ from_state.second_switch) # IsOdd(SecondToggled(FALSE)))
           <=> from_state.second_switch
    BY <2>1, <2>2, <2>3
  <2>. QED
    BY <1>2, <1>7, <2>3, <2>4
<1>. QED
  BY <1>1, <1>2, <1>3, <1>6, <1>10 DEF Ruled

LEMMA RuledStep == Ruled /\ [MachineNext]_machineVars => Ruled'
<1>. SUFFICES ASSUME Ruled, [MachineNext]_machineVars PROVE Ruled'
  OBVIOUS
<1>0. Logged /\ Logged'
  BY LoggedStep DEF Ruled
<1>1. ASSUME machine = "WeirdSwitchMachine", NEW t \in Toggles, Undergo(t)
      PROVE  /\ TogglesTell'
             /\ state' \in TwoSwitches /\ from_state' \in TwoSwitches
             /\ ~ state'.first_switch => SecondToggled(TRUE)' = {}
  <2>1. machine' = machine /\ from_state' = from_state /\ log' = Append(log, t) /\ state' = WeirdNext(state, t)
    BY <1>1, OtherMachines DEF NextStateOf
  <2>2. log \in Seq(Toggles)
    BY <1>0, <1>1 DEF Logged, Transitions
  <2>3. PICK n \in Nat : n = Len(log)
    BY <2>2
  <2>4. state \in TwoSwitches /\ from_state \in TwoSwitches
    BY <1>1 DEF Ruled
  <2>5. /\ state.first_switch = FirstOn(n)
        /\ state.second_switch <=>
             /\ SecondToggled(TRUE) = {}
             /\ (FirstWentOff = 0 /\ from_state.second_switch) # IsOdd(SecondToggled(FALSE))
        /\ ~ state.first_switch => SecondToggled(TRUE) = {}
    BY <1>1, <2>3 DEF Ruled, TogglesTell
  <2>6. /\ state.first_switch \in BOOLEAN /\ state.second_switch \in BOOLEAN
        /\ from_state.second_switch \in BOOLEAN
        /\ \A S : IsOdd(S) \in BOOLEAN
    BY <2>4 DEF TwoSwitches, IsOdd
  <2>7. /\ Len(log') = n + 1
        /\ FirstOn(n + 1)' <=> (IF t = "FirstSwitch" THEN ~ FirstOn(n) ELSE FirstOn(n))
        /\ t = "FirstSwitch" /\ FirstOn(n) =>
             /\ FirstWentOff' = n + 1
             /\ SecondToggled(TRUE)' = {} /\ SecondToggled(FALSE)' = {}
        /\ t = "FirstSwitch" /\ ~ FirstOn(n) =>
             /\ FirstWentOff' = FirstWentOff
             /\ SecondToggled(TRUE)' = SecondToggled(TRUE)
             /\ SecondToggled(FALSE)' = SecondToggled(FALSE)
        /\ t = "SecondSwitch" /\ FirstOn(n) =>
             /\ FirstWentOff' = FirstWentOff
             /\ SecondToggled(TRUE)' # {}
        /\ t = "SecondSwitch" /\ ~ FirstOn(n) =>
             /\ FirstWentOff' = FirstWentOff
             /\ SecondToggled(TRUE)' = SecondToggled(TRUE)
             /\ IsOdd(SecondToggled(FALSE)') <=> ~ IsOdd(SecondToggled(FALSE))
    BY <2>1, <2>2, <2>3, <2>4, SwitchNext
  <2>8. FirstOn(n + 1)' \in BOOLEAN
    BY DEF FirstOn
  <2>. DEFINE before == FirstWentOff = 0 /\ from_state.second_switch
              odd == IsOdd(SecondToggled(FALSE))
              beforeNow == FirstWentOff' = 0 /\ from_state.second_switch
              oddNow == IsOdd(SecondToggled(FALSE)')
  <2>9. /\ before \in BOOLEAN /\ odd \in BOOLEAN /\ beforeNow \in BOOLEAN /\ oddNow \in BOOLEAN
        /\ FirstWentOff' = FirstWentOff => beforeNow = before
        /\ FirstWentOff' = n + 1 => ~ beforeNow
    <3>1. before \in BOOLEAN /\ beforeNow \in BOOLEAN
      OBVIOUS
    <3>2. odd \in BOOLEAN /\ oddNow \in BOOLEAN
      BY <2>6
    <3>3. FirstWentOff' = FirstWentOff => beforeNow = before
      OBVIOUS
    <3>4. n + 1 # 0
      OBVIOUS
    <3>5. FirstWentOff' = n + 1 => ~ beforeNow
      BY <3>4
    <3>. QED
      BY <3>1, <3>2, <3>3, <3>5
  <2>10. ~ IsOdd({})
    <3>1. Cardinality({}) = 0
      BY FS_EmptySet
    <3>. QED
      BY <3>1 DEF IsOdd
  <2>11. /\ SecondToggled(FALSE)' = {} => ~ oddNow
         /\ SecondToggled(FALSE)' = SecondToggled(FALSE) => oddNow = odd
    BY <2>10
  <2>12. TogglesTell' <=> (machine' = "WeirdSwitchMachine" =>
            /\ state'.first_switch = FirstOn(n + 1)'
            /\ state'.second_switch <=> (SecondToggled(TRUE)' = {} /\ (beforeNow # oddNow)))
    BY <2>1, <2>7 DEF TogglesTell, IsOdd
  <2>13. state.second_switch <=> (SecondToggled(TRUE) = {} /\ (before # odd))
    BY <2>5
  <2>. HIDE DEF before, odd, beforeNow, oddNow
  <2>14. CASE t = "FirstSwitch"
    <3>1. /\ state'.first_switch = ~ state.first_switch
          /\ state'.second_switch = (~ state.first_switch /\ state.second_switch)
          /\ state' \in TwoSwitches
      BY <2>1, <2>4, <2>14 DEF WeirdNext, TwoSwitches
    <3>2. state'.first_switch = FirstOn(n + 1)'
      BY <2>5, <2>6, <2>7, <2>8, <2>14, <3>1
    <3>3. CASE state.first_switch
      <4>1. FirstWentOff' = n + 1 /\ SecondToggled(TRUE)' = {} /\ SecondToggled(FALSE)' = {}
        BY <2>5, <2>7, <2>14, <3>3
      <4>2. ~ beforeNow /\ ~ oddNow /\ ~ state'.second_switch
        BY <2>9, <2>11, <3>1, <3>3, <4>1
      <4>3. ~ (beforeNow # oddNow)
        BY <2>9, <4>2
      <4>. QED
        BY <2>1, <2>4, <2>12, <3>1, <3>2, <4>1, <4>2, <4>3
    <3>4. CASE ~ state.first_switch
      <4>1. /\ FirstWentOff' = FirstWentOff
            /\ SecondToggled(TRUE)' = SecondToggled(TRUE)
            /\ SecondToggled(FALSE)' = SecondToggled(FALSE)
        BY <2>5, <2>7, <2>14, <3>4
      <4>2. beforeNow = before /\ oddNow = odd /\ (state'.second_switch <=> state.second_switch)
        BY <2>9, <2>11, <3>1, <3>4, <4>1
      <4>. QED
        BY <2>1, <2>4, <2>5, <2>12, <2>13, <3>1, <3>2, <3>4, <4>1, <4>2
    <3>. QED
      BY <3>3, <3>4
  <2>15. CASE t = "SecondSwitch"
    <3>0. t # "FirstSwitch"
      BY <2>15
    <3>1. /\ state'.first_switch = state.first_switch
          /\ state'.second_switch = (~ state.first_switch /\ ~ state.second_switch)
          /\ state' \in TwoSwitches
      BY <2>1, <2>4, <2>15, <3>0 DEF WeirdNext, TwoSwitches
    <3>2. state'.first_switch = FirstOn(n + 1)'
      BY <2>5, <2>6, <2>7, <2>8, <3>0, <3>1
    <3>3. CASE state.first_switch
      <4>1. SecondToggled(TRUE)' # {}
        BY <2>5, <2>7, <2>15, <3>3
      <4>. QED
        BY <2>1, <2>4, <2>12, <3>1, <3>2, <3>3, <4>1
    <3>4. CASE ~ state.first_switch
      <4>1. /\ FirstWentOff' = FirstWentOff
            /\ SecondToggled(TRUE)' = SecondToggled(TRUE)
            /\ oddNow <=> ~ odd
        BY <2>5, <2>7, <2>15, <3>4 DEF oddNow, odd
      <4>2. beforeNow = before /\ SecondToggled(TRUE)' = {} /\ SecondToggled(TRUE) = {}
        BY <2>5, <2>9, <3>4, <4>1
      <4>3. state'.second_switch <=> ~ state.second_switch
        BY <3>1, <3>4
      <4>4. (beforeNow # oddNow) <=> ~ (before # odd)
        BY <2>9, <4>1, <4>2
      <4>5. state'.second_switch <=> (SecondToggled(TRUE)' = {} /\ (beforeNow # oddNow))
        BY <2>13, <4>2, <4>3, <4>4
      <4>. QED
        BY <2>1, <2>4, <2>12, <3>1, <3>2, <4>2, <4>5
    <3>. QED
      BY <3>3, <3>4
  <2>. QED
    BY <2>14, <2>15 DEF Toggles
<1>2. CASE MachineNext
  <2>1. PICK t \in Transitions(machine) : Undergo(t)
    BY <1>2 DEF MachineNext
  <2>2. machine' = machine
    BY <2>1 DEF Undergo
  <2>3. CASE machine = "WeirdSwitchMachine"
    <3>1. Transitions(machine) = Toggles
      BY <2>3 DEF Transitions
    <3>2. /\ TogglesTell'
          /\ state' \in TwoSwitches /\ from_state' \in TwoSwitches
          /\ ~ state'.first_switch => SecondToggled(TRUE)' = {}
      BY <1>1, <2>1, <2>3, <3>1
    <3>. QED
      BY <1>0, <3>2 DEF Ruled
  <2>4. CASE machine # "WeirdSwitchMachine"
    BY <1>0, <2>2, <2>4 DEF Ruled, TogglesTell
  <2>. QED
    BY <2>3, <2>4
<1>3. CASE UNCHANGED machineVars
  <2>1. machine' = machine /\ from_state' = from_state /\ state' = state /\ log' = log
    BY <1>3 DEF machineVars
  <2>2. SecondToggled(TRUE)' = SecondToggled(TRUE) /\ SecondToggled(FALSE)' = SecondToggled(FALSE)
        /\ FirstWentOff' = FirstWentOff /\ FirstOn(Len(log))' = FirstOn(Len(log))
    BY <2>1 DEF SecondToggled, FirstWentOff, FirstOn, Done
  <2>3. TogglesTell' = TogglesTell
    BY <2>1, <2>2 DEF TogglesTell
  <2>. QED
    BY <1>0, <2>1, <2>2, <2>3 DEF Ruled
<1>. QED
  BY <1>2, <1>3

-----------------------------------------------------------------------------
(* What is keyed in *)

\* g collects the digits of a log after `from`, up to any moment until n.
KeysUpTo(g, l, from, n) ==
    g = [i \in 0..n |-> IF i <= from THEN <<>>
                        ELSE IF IsDigit(l[i]) THEN Append(g[i - 1], l[i][2]) ELSE g[i - 1]]

KeyedIn(l, from, to) == (CHOOSE g : KeysUpTo(g, l, from, to - 1))[to - 1]

LEMMA KeyedIsKeyedIn ==
    ASSUME NEW from, NEW to
    PROVE  Keyed(from, to) = KeyedIn(log, from, to)
BY DEF Keyed, KeyedIn, KeysUpTo

LEMMA KeysExist ==
    ASSUME NEW l, NEW from \in Nat, NEW n \in Nat
    PROVE  \E g : KeysUpTo(g, l, from, n)
<1>. DEFINE built == {k \in Nat : \E g : KeysUpTo(g, l, from, k)}
<1>1. 0 \in built
  <2>1. KeysUpTo([i \in 0..0 |-> <<>>], l, from, 0)
    BY DEF KeysUpTo
  <2>. QED
    BY <2>1
<1>2. ASSUME NEW k \in Nat, k \in built PROVE k + 1 \in built
  <2>1. PICK g : KeysUpTo(g, l, from, k)
    BY <1>2
  <2>. DEFINE h == [i \in 0..k + 1 |->
                      IF i <= from THEN <<>>
                      ELSE IF IsDigit(l[i]) THEN Append(g[i - 1], l[i][2]) ELSE g[i - 1]]
  <2>2. ASSUME NEW i \in 0..k PROVE h[i] = g[i]
    <3>1. i \in 0..k + 1
      OBVIOUS
    <3>2. g[i] = IF i <= from THEN <<>>
                 ELSE IF IsDigit(l[i]) THEN Append(g[i - 1], l[i][2]) ELSE g[i - 1]
      BY <2>1 DEF KeysUpTo
    <3>. QED
      BY <3>1, <3>2
  <2>3. ASSUME NEW i \in 0..k + 1
        PROVE  h[i] = IF i <= from THEN <<>>
                      ELSE IF IsDigit(l[i]) THEN Append(h[i - 1], l[i][2]) ELSE h[i - 1]
    <3>1. h[i] = IF i <= from THEN <<>>
                 ELSE IF IsDigit(l[i]) THEN Append(g[i - 1], l[i][2]) ELSE g[i - 1]
      OBVIOUS
    <3>2. ~ (i <= from) => i - 1 \in 0..k
      OBVIOUS
    <3>. HIDE DEF h
    <3>. QED
      BY <2>2, <3>1, <3>2
  <2>4. h = [i \in 0..k + 1 |-> h[i]]
    OBVIOUS
  <2>. HIDE DEF h
  <2>5. KeysUpTo(h, l, from, k + 1)
    BY <2>3, <2>4 DEF KeysUpTo
  <2>. QED
    BY <2>5
<1>. HIDE DEF built
<1>3. n \in built
  BY <1>1, <1>2, CountingUp
<1>. QED
  BY <1>3 DEF built

\* It does not depend on what comes later in a log.
SameUpTo(l, m, n) == \A i \in 1..n : l[i] = m[i]

LEMMA KeysAgree ==
    ASSUME NEW from \in Nat, NEW n \in Nat, NEW k \in Nat, n <= k,
           NEW l, NEW m, SameUpTo(l, m, n),
           NEW g, KeysUpTo(g, l, from, n), NEW h, KeysUpTo(h, m, from, k)
    PROVE  g[n] = h[n]
<1>. DEFINE same == {j \in Nat : j <= n => g[j] = h[j]}
<1>0. /\ \A i \in 0..n : g[i] = IF i <= from THEN <<>>
           ELSE IF IsDigit(l[i]) THEN Append(g[i - 1], l[i][2]) ELSE g[i - 1]
      /\ \A i \in 0..n : h[i] = IF i <= from THEN <<>>
           ELSE IF IsDigit(m[i]) THEN Append(h[i - 1], m[i][2]) ELSE h[i - 1]
  <2>1. \A i \in 0..n : i \in 0..k
    OBVIOUS
  <2>2. \A i \in 0..n : g[i] = IF i <= from THEN <<>>
           ELSE IF IsDigit(l[i]) THEN Append(g[i - 1], l[i][2]) ELSE g[i - 1]
    BY DEF KeysUpTo
  <2>3. \A i \in 0..k : h[i] = IF i <= from THEN <<>>
           ELSE IF IsDigit(m[i]) THEN Append(h[i - 1], m[i][2]) ELSE h[i - 1]
    BY DEF KeysUpTo
  <2>. QED
    BY <2>1, <2>2, <2>3
<1>1. 0 \in same
  BY <1>0
<1>2. ASSUME NEW j \in Nat, j \in same PROVE j + 1 \in same
  <2>. SUFFICES ASSUME j + 1 <= n PROVE g[j + 1] = h[j + 1]
    OBVIOUS
  <2>1. g[j] = h[j] /\ l[j + 1] = m[j + 1] /\ j + 1 \in 0..n /\ (j + 1) - 1 = j
    BY <1>2 DEF SameUpTo
  <2>. QED
    BY <1>0, <2>1
<1>. HIDE DEF same
<1>3. n \in same
  BY <1>1, <1>2, CountingUp
<1>. QED
  BY <1>3 DEF same

LEMMA KeyedInSame ==
    ASSUME NEW from \in Nat, NEW n \in Nat, NEW l, NEW m, SameUpTo(l, m, n)
    PROVE  KeyedIn(l, from, n + 1) = KeyedIn(m, from, n + 1)
<1>1. (n + 1) - 1 = n
  OBVIOUS
<1>2. PICK g : g = (CHOOSE x : KeysUpTo(x, l, from, n)) /\ KeysUpTo(g, l, from, n)
  BY KeysExist
<1>3. PICK h : h = (CHOOSE x : KeysUpTo(x, m, from, n)) /\ KeysUpTo(h, m, from, n)
  BY KeysExist
<1>4. g[n] = h[n]
  BY <1>2, <1>3, KeysAgree
<1>. QED
  BY <1>1, <1>2, <1>3, <1>4 DEF KeyedIn

\* What the last action of a log adds to the digits.
LEMMA KeyedInNext ==
    ASSUME NEW from \in Nat, NEW n \in Nat, NEW l
    PROVE  /\ n <= from => KeyedIn(l, from, n + 1) = <<>>
           /\ n > from => KeyedIn(l, from, n + 1)
                            = IF IsDigit(l[n]) THEN Append(KeyedIn(l, from, n), l[n][2])
                              ELSE KeyedIn(l, from, n)
<1>1. (n + 1) - 1 = n
  OBVIOUS
<1>2. PICK g : g = (CHOOSE x : KeysUpTo(x, l, from, n)) /\ KeysUpTo(g, l, from, n)
  BY KeysExist
<1>3. KeyedIn(l, from, n + 1) = g[n]
  BY <1>1, <1>2 DEF KeyedIn
<1>4. g[n] = IF n <= from THEN <<>>
             ELSE IF IsDigit(l[n]) THEN Append(g[n - 1], l[n][2]) ELSE g[n - 1]
  <2>1. n \in 0..n
    OBVIOUS
  <2>2. \A i \in 0..n : g[i] = IF i <= from THEN <<>>
           ELSE IF IsDigit(l[i]) THEN Append(g[i - 1], l[i][2]) ELSE g[i - 1]
    BY <1>2 DEF KeysUpTo
  <2>. QED
    BY <2>1, <2>2
<1>5. n > from => KeyedIn(l, from, n) = g[n - 1]
  <2>. SUFFICES ASSUME n > from PROVE KeyedIn(l, from, n) = g[n - 1]
    OBVIOUS
  <2>1. PICK k \in Nat : k = n - 1
    OBVIOUS
  <2>2. PICK h : h = (CHOOSE x : KeysUpTo(x, l, from, k)) /\ KeysUpTo(h, l, from, k)
    BY KeysExist
  <2>3. KeyedIn(l, from, n) = h[k]
    BY <2>1, <2>2 DEF KeyedIn
  <2>4. k <= n /\ SameUpTo(l, l, k)
    BY <2>1 DEF SameUpTo
  <2>5. h[k] = g[k]
    BY <1>2, <2>2, <2>4, KeysAgree
  <2>. QED
    BY <2>1, <2>3, <2>5
<1>. QED
  BY <1>3, <1>4, <1>5

-----------------------------------------------------------------------------
(* What the digits stand for *)

LEMMA DigitsAreNumbers ==
    ASSUME NEW d \in Digits
    PROVE  DigitOf[d] \in Nat
<1>1. d \in {"One", "Two", "Three", "Four"}
  BY AtmAssumption
<1>. QED
  BY <1>1 DEF DigitOf

\* g reads digits as FoldLeft does in Amount,
Reads(g, keys) ==
    g = [s \in SUBSET DOMAIN keys |->
           IF s = {} THEN 0 ELSE (g[s \ {Max(s)}] * 10 + DigitOf[keys[Max(s)]]) % AtmWord]

\* and v as Value does.
ReadsAll(v, keys) ==
    v = [i \in 0..Len(keys) |-> IF i = 0 THEN 0 ELSE 10 * v[i - 1] + DigitOf[keys[i]]]

LEMMA ReadsExists ==
    ASSUME NEW keys \in Seq(Digits)
    PROVE  \E g : Reads(g, keys)
<1>1. PICK n \in Nat : DOMAIN keys = 1..n /\ \A i \in 1..n : keys[i] \in Digits
  OBVIOUS
<1>2. IsFiniteSet(1..n)
  BY FS_Interval
<1>. DEFINE V == 0..AtmWord - 1
            pick == [s \in SUBSET (1..n) |-> Max(s)]
            step == [p \in (1..n) \X V |-> (p[2] * 10 + DigitOf[keys[p[1]]]) % AtmWord]
<1>3. \A s \in SUBSET (1..n) : pick[s] = Max(s)
  OBVIOUS
<1>4. \A s \in SUBSET (1..n) : s # {} => Max(s) \in s
  <2>. SUFFICES ASSUME NEW s \in SUBSET (1..n), s # {} PROVE Max(s) \in s
    OBVIOUS
  <2>1. s \in SUBSET Nat /\ \A i \in s : i <= n
    OBVIOUS
  <2>. QED
    BY <2>1, MaxOfNats
<1>5. \A i \in 1..n, x \in V : step[<<i, x>>] = (x * 10 + DigitOf[keys[i]]) % AtmWord
  OBVIOUS
<1>6. \A i \in 1..n, x \in V : (x * 10 + DigitOf[keys[i]]) % AtmWord \in V
  <2>. SUFFICES ASSUME NEW i \in 1..n, NEW x \in V
                PROVE  (x * 10 + DigitOf[keys[i]]) % AtmWord \in V
    OBVIOUS
  <2>1. DigitOf[keys[i]] \in Nat
    BY <1>1, DigitsAreNumbers
  <2>2. AtmWord \in Nat \ {0}
    BY AtmAssumption
  <2>3. x * 10 + DigitOf[keys[i]] \in Nat
    BY <2>1, <2>2
  <2>. QED
    BY <2>2, <2>3, RestOf
<1>7. 0 \in V
  BY AtmAssumption
<1>. HIDE DEF pick, step, V
<1>8. PICK g : CountsDown(g, SUBSET (1..n), 0, pick, step)
  <2>1. \A s \in SUBSET (1..n) : s # {} => pick[s] \in s
    BY <1>3, <1>4
  <2>. QED
    BY <1>2, <2>1, SetRecursionExists
<1>9. \A s \in SUBSET (1..n) : g[s] = IF s = {} THEN 0 ELSE step[<<Max(s), g[s \ {Max(s)}]>>]
  BY <1>3, <1>8 DEF CountsDown
<1>. DEFINE typed == {s \in SUBSET (1..n) : g[s] \in V}
<1>10. {} \in typed
  BY <1>7, <1>9
<1>11. ASSUME NEW s \in SUBSET (1..n), s # {}, \A x \in s : s \ {x} \in typed PROVE s \in typed
  <2>1. Max(s) \in s /\ Max(s) \in 1..n
    BY <1>4, <1>11
  <2>2. g[s \ {Max(s)}] \in V
    BY <1>11, <2>1
  <2>3. g[s] = (g[s \ {Max(s)}] * 10 + DigitOf[keys[Max(s)]]) % AtmWord
    BY <1>5, <1>9, <1>11, <2>1, <2>2
  <2>4. g[s] \in V
    BY <1>6, <2>1, <2>2, <2>3
  <2>. QED
    BY <2>4
<1>. HIDE DEF typed
<1>12. SUBSET (1..n) \subseteq typed
  <2>1. PICK D : D = 1..n
    OBVIOUS
  <2>2. SUBSET D \subseteq typed
    BY <1>2, <1>10, <1>11, <2>1, TakingAway
  <2>. QED
    BY <2>1, <2>2
<1>13. ASSUME NEW s \in SUBSET (1..n)
       PROVE  g[s] = IF s = {} THEN 0 ELSE (g[s \ {Max(s)}] * 10 + DigitOf[keys[Max(s)]]) % AtmWord
  <2>1. g[s \ {Max(s)}] \in V
    BY <1>12 DEF typed
  <2>2. s # {} => Max(s) \in 1..n
    BY <1>4
  <2>. QED
    BY <1>5, <1>9, <2>1, <2>2
<1>14. g = [s \in SUBSET (1..n) |-> g[s]]
  BY <1>8 DEF CountsDown
<1>15. Reads(g, keys)
  BY <1>1, <1>13, <1>14 DEF Reads
<1>. QED
  BY <1>15

LEMMA ReadsAllExists ==
    ASSUME NEW keys \in Seq(Digits)
    PROVE  \E v : ReadsAll(v, keys) /\ \A i \in 0..Len(keys) : v[i] \in Nat
<1>1. PICK n \in Nat : n = Len(keys) /\ \A i \in 1..n : keys[i] \in Digits
  OBVIOUS
<1>. DEFINE step == [p \in (1..n) \X Nat |-> 10 * p[2] + DigitOf[keys[p[1]]]]
<1>2. \A i \in 1..n, x \in Nat : step[<<i, x>>] = 10 * x + DigitOf[keys[i]]
  OBVIOUS
<1>3. \A i \in 1..n, x \in Nat : 10 * x + DigitOf[keys[i]] \in Nat
  BY <1>1, DigitsAreNumbers
<1>. HIDE DEF step
<1>4. PICK v : Counts(v, n, 0, step)
  BY RecursionExists
<1>. DEFINE typed == {i \in Nat : i <= n => v[i] \in Nat}
<1>5. 0 \in typed
  BY <1>4 DEF Counts
<1>6. ASSUME NEW i \in Nat, i \in typed PROVE i + 1 \in typed
  <2>. SUFFICES ASSUME i + 1 <= n PROVE v[i + 1] \in Nat
    OBVIOUS
  <2>1. v[i] \in Nat /\ i + 1 \in 1..n /\ (i + 1) - 1 = i
    BY <1>6
  <2>2. v[i + 1] = step[<<i + 1, v[i]>>]
    BY <1>4, <2>1 DEF Counts
  <2>. QED
    BY <1>2, <1>3, <2>1, <2>2
<1>. HIDE DEF typed
<1>7. Nat \subseteq typed
  BY <1>5, <1>6, CountingUp
<1>8. \A i \in 0..n : v[i] \in Nat
  BY <1>7 DEF typed
<1>9. ASSUME NEW i \in 0..n
      PROVE  v[i] = IF i = 0 THEN 0 ELSE 10 * v[i - 1] + DigitOf[keys[i]]
  <2>1. v[i] = IF i = 0 THEN 0 ELSE step[<<i, v[i - 1]>>]
    BY <1>4 DEF Counts
  <2>2. i # 0 => i \in 1..n /\ i - 1 \in 0..n
    OBVIOUS
  <2>. QED
    BY <1>2, <1>8, <2>1, <2>2
<1>10. v = [i \in 0..n |-> v[i]]
  BY <1>4 DEF Counts
<1>11. ReadsAll(v, keys)
  BY <1>1, <1>9, <1>10 DEF ReadsAll
<1>. QED
  BY <1>1, <1>8, <1>11

\* The amount is the number that the keys stand for, cut to a word.
LEMMA AmountIsValue ==
    ASSUME NEW keys \in Seq(Digits)
    PROVE  Amount(keys) = Value(keys) % AtmWord /\ Amount(keys) \in Nat
<1>1. PICK n \in Nat : /\ n = Len(keys) /\ DOMAIN keys = 1..n
                       /\ \A i \in 1..n : keys[i] \in Digits
  OBVIOUS
<1>2. PICK g : g = (CHOOSE x : Reads(x, keys)) /\ Reads(g, keys)
  BY ReadsExists
<1>3. Amount(keys) = g[1..n]
  BY <1>1, <1>2 DEF Amount, FoldLeft, MapThenFoldSet, Reads
<1>4. PICK v : v = (CHOOSE x : ReadsAll(x, keys)) /\ ReadsAll(v, keys)
  BY ReadsAllExists
<1>5. Value(keys) = v[n]
  BY <1>1, <1>4 DEF Value, ReadsAll
<1>6. AtmWord \in Nat \ {0}
  BY AtmAssumption
<1>7. \A i \in 0..n : v[i] = IF i = 0 THEN 0 ELSE 10 * v[i - 1] + DigitOf[keys[i]]
  BY <1>1, <1>4 DEF ReadsAll
<1>8. \A s \in SUBSET (1..n) :
         g[s] = IF s = {} THEN 0 ELSE (g[s \ {Max(s)}] * 10 + DigitOf[keys[Max(s)]]) % AtmWord
  BY <1>1, <1>2 DEF Reads
<1>. DEFINE same == {i \in Nat : i <= n => v[i] \in Nat /\ g[1..i] = v[i] % AtmWord}
<1>9. 0 \in same
  <2>1. 1..0 = {} /\ 0 % AtmWord = 0
    BY <1>6
  <2>2. g[{}] = 0 /\ v[0] = 0
    <3>1. {} \in SUBSET (1..n) /\ 0 \in 0..n
      OBVIOUS
    <3>. QED
      BY <1>7, <1>8, <3>1
  <2>. QED
    BY <2>1, <2>2
<1>10. ASSUME NEW i \in Nat, i \in same PROVE i + 1 \in same
  <2>. SUFFICES ASSUME i + 1 <= n
                PROVE  v[i + 1] \in Nat /\ g[1..i + 1] = v[i + 1] % AtmWord
    OBVIOUS
  <2>1. v[i] \in Nat /\ g[1..i] = v[i] % AtmWord
    BY <1>10
  <2>2. i + 1 \in 1..n /\ (i + 1) - 1 = i
    OBVIOUS
  <2>3. v[i + 1] = 10 * v[i] + DigitOf[keys[i + 1]]
    BY <1>7, <2>2
  <2>4. DigitOf[keys[i + 1]] \in Nat
    BY <1>1, <2>2, DigitsAreNumbers
  <2>5. Max(1..i + 1) = i + 1
    <3>1. 1..i + 1 \in SUBSET Nat /\ i + 1 \in 1..i + 1 /\ \A j \in 1..i + 1 : j <= i + 1
      OBVIOUS
    <3>. QED
      BY <3>1, MaxIs
  <2>6. (1..i + 1) \ {i + 1} = 1..i /\ 1..i + 1 \in SUBSET (1..n) /\ 1..i + 1 # {}
    <3>1. \A j : j \in 1..i + 1 <=> j \in 1..i \/ j = i + 1
      OBVIOUS
    <3>2. i + 1 \notin 1..i /\ \A j \in 1..i + 1 : j \in 1..n
      OBVIOUS
    <3>3. (1..i + 1) \ {i + 1} = 1..i
      BY <3>1, <3>2
    <3>4. i + 1 \in 1..i + 1
      BY <3>1
    <3>. QED
      BY <3>2, <3>3, <3>4
  <2>7. g[1..i + 1] = (g[1..i] * 10 + DigitOf[keys[i + 1]]) % AtmWord
    BY <1>8, <2>5, <2>6
  <2>8. ((v[i] % AtmWord) * 10 + DigitOf[keys[i + 1]]) % AtmWord
           = (10 * v[i] + DigitOf[keys[i + 1]]) % AtmWord
    BY <1>6, <2>1, <2>4, RestOfDigits
  <2>. QED
    BY <2>1, <2>3, <2>4, <2>7, <2>8
<1>. HIDE DEF same
<1>11. n \in same
  BY <1>9, <1>10, CountingUp
<1>12. v[n] \in Nat /\ g[1..n] = v[n] % AtmWord
  BY <1>11 DEF same
<1>13. v[n] % AtmWord \in Nat
  <2>1. v[n] % AtmWord \in 0..AtmWord - 1
    BY <1>6, <1>12, RestOf
  <2>. QED
    BY <1>6, <2>1
<1>. QED
  BY <1>3, <1>5, <1>12, <1>13

-----------------------------------------------------------------------------
(* The cash machine *)

Sessions == {Waiting, Authenticated} \cup {Authenticating(c) : c \in Cards}

Atms == [cash_inside : Nat, auth_status : Sessions, keystroke_register : Seq(Digits)]

Enters(l) == {i \in DOMAIN l : l[i] = Enter}

\* While a PIN is awaited no Enter came after the card; after the PIN was entered it is
\* the one of the card.
Served ==
    /\ Logged
    /\ machine = "Atm" =>
         /\ state \in Atms
         /\ state.auth_status = Waiting <=> log = <<>>
         /\ log # <<>> => LastSwipe # 0
         /\ \A c \in Cards : state.auth_status = Authenticating(c) =>
              LastEnter < LastSwipe /\ log[LastSwipe] = SwipeCard(c)
         /\ state.auth_status = Authenticated => PinEntered
         /\ RegisterSinceEnter

LEMMA SessionsDiffer ==
    /\ Waiting # Authenticated
    /\ \A c : Authenticating(c) # Waiting /\ Authenticating(c) # Authenticated
    /\ \A c, d : Authenticating(c) = Authenticating(d) => c = d
    /\ \A c : Authenticating(c)[1] = "Authenticating"
    /\ Authenticated[1] # "Authenticating"
BY DEF Waiting, Authenticated, Authenticating

LEMMA SwipesDiffer == \A c, d : SwipeCard(c) = SwipeCard(d) => c = d
BY DEF SwipeCard

\* What each action does in each session.
LEMMA AtmNextCases ==
    ASSUME state.auth_status \in Sessions, NEW t \in AtmActions
    PROVE  /\ \A c \in Cards : t = SwipeCard(c) => AtmNext(state, t) = AfterSwipe(state, c)
           /\ (\A c \in Cards : t # SwipeCard(c)) =>
                /\ state.auth_status = Waiting => AtmNext(state, t) = state
                /\ state.auth_status # Waiting /\ t # Enter =>
                     AtmNext(state, t) = AfterDigit(state, t[2])
                /\ state.auth_status # Waiting /\ state.auth_status # Authenticated /\ t = Enter =>
                     AtmNext(state, t) = AfterPin(state)
                /\ state.auth_status = Authenticated /\ t = Enter =>
                     AtmNext(state, t) = AfterAmount(state)
<1>1. ASSUME NEW c \in Cards, t = SwipeCard(c) PROVE AtmNext(state, t) = AfterSwipe(state, c)
  BY <1>1 DEF AtmNext, SwipeCard
<1>2. ASSUME \A c \in Cards : t # SwipeCard(c)
      PROVE  AtmNext(state, t) =
                CASE state.auth_status = Waiting                    -> state
                  [] state.auth_status # Waiting /\ t # Enter       -> AfterDigit(state, t[2])
                  [] state.auth_status[1] = "Authenticating" /\ t = Enter -> AfterPin(state)
                  [] state.auth_status = Authenticated /\ t = Enter -> AfterAmount(state)
  <2>1. t[1] = "PressKey"
    BY <1>2 DEF AtmActions, PressKey, Enter
  <2>. QED
    BY <2>1 DEF AtmNext
<1>3. ASSUME state.auth_status # Waiting, state.auth_status # Authenticated
      PROVE  state.auth_status[1] = "Authenticating"
  BY <1>3, SessionsDiffer DEF Sessions
<1>4. state.auth_status = Authenticated =>
        state.auth_status # Waiting /\ state.auth_status[1] # "Authenticating"
  BY SessionsDiffer
<1>5. ASSUME \A c \in Cards : t # SwipeCard(c)
      PROVE  /\ state.auth_status = Waiting => AtmNext(state, t) = state
             /\ state.auth_status # Waiting /\ t # Enter =>
                  AtmNext(state, t) = AfterDigit(state, t[2])
  <2>1. state.auth_status = Waiting => state.auth_status[1] # "Authenticating"
    BY DEF Waiting
  <2>. QED
    BY <1>2, <1>4, <1>5, <2>1
<1>6. ASSUME \A c \in Cards : t # SwipeCard(c), t = Enter,
             state.auth_status # Waiting, state.auth_status # Authenticated
      PROVE  AtmNext(state, t) = AfterPin(state)
  BY <1>2, <1>3, <1>6
<1>7. ASSUME \A c \in Cards : t # SwipeCard(c), t = Enter, state.auth_status = Authenticated
      PROVE  AtmNext(state, t) = AfterAmount(state)
  BY <1>2, <1>4, <1>7
<1>. QED
  BY <1>1, <1>5, <1>6, <1>7

\* What each of them leaves.
LEMMA AfterEach ==
    ASSUME state \in Atms
    PROVE  /\ \A c \in Cards : AfterSwipe(state, c)
                = Atm(state.cash_inside, Authenticating(c), state.keystroke_register)
           /\ \A k \in Digits : AfterDigit(state, k)
                = Atm(state.cash_inside, state.auth_status, Append(state.keystroke_register, k))
           /\ \A cash \in Nat, auth \in Sessions, keys \in Seq(Digits) :
                /\ Atm(cash, auth, keys) \in Atms
                /\ Atm(cash, auth, keys).cash_inside = cash
                /\ Atm(cash, auth, keys).auth_status = auth
                /\ Atm(cash, auth, keys).keystroke_register = keys
<1>0. state = Atm(state.cash_inside, state.auth_status, state.keystroke_register)
  BY DEF Atm, Atms
<1>1. \A c \in Cards : AfterSwipe(state, c)
         = Atm(state.cash_inside, Authenticating(c), state.keystroke_register)
  <2>1. ASSUME NEW cash, NEW auth, NEW keys, NEW c
        PROVE  AfterSwipe(Atm(cash, auth, keys), c) = Atm(cash, Authenticating(c), keys)
    BY DEF AfterSwipe, Atm
  <2>. QED  BY <1>0, <2>1
<1>2. \A k \in Digits : AfterDigit(state, k)
         = Atm(state.cash_inside, state.auth_status, Append(state.keystroke_register, k))
  <2>1. ASSUME NEW cash, NEW auth, NEW keys, NEW k
        PROVE  AfterDigit(Atm(cash, auth, keys), k) = Atm(cash, auth, Append(keys, k))
    BY DEF AfterDigit, Atm
  <2>. QED  BY <1>0, <2>1
<1>3. ASSUME NEW cash \in Nat, NEW auth \in Sessions, NEW keys \in Seq(Digits)
      PROVE  /\ Atm(cash, auth, keys) \in Atms
             /\ Atm(cash, auth, keys).cash_inside = cash
             /\ Atm(cash, auth, keys).auth_status = auth
             /\ Atm(cash, auth, keys).keystroke_register = keys
  BY DEF Atm, Atms
<1>. QED
  BY <1>1, <1>2, <1>3

\* A swipe starts a session, a digit goes to the register.
LEMMA StepInSession ==
    ASSUME state \in Atms, NEW t \in AtmActions, state' = AtmNext(state, t)
    PROVE  /\ state' \in Atms
           /\ \A c \in Cards : t = SwipeCard(c) =>
                /\ state'.auth_status = Authenticating(c)
                /\ state'.keystroke_register = state.keystroke_register
                /\ state'.cash_inside = state.cash_inside
           /\ state.auth_status = Waiting /\ (\A c \in Cards : t # SwipeCard(c)) => state' = state
           /\ \A k \in Digits : t = PressKey(k) /\ state.auth_status # Waiting =>
                /\ state'.auth_status = state.auth_status
                /\ state'.keystroke_register = Append(state.keystroke_register, k)
                /\ state'.cash_inside = state.cash_inside
           /\ t = Enter /\ state.auth_status # Waiting =>
                /\ state'.keystroke_register = <<>>
                /\ state'.auth_status # Waiting =>
                     /\ state'.auth_status = Authenticated
                     /\ state.auth_status # Authenticated
                     /\ state.auth_status = Authenticating(HashKeys(state.keystroke_register))
                /\ state'.cash_inside # state.cash_inside =>
                     /\ state.auth_status = Authenticated
                     /\ state.cash_inside - state'.cash_inside = Amount(state.keystroke_register)
<1>. DEFINE cash == state.cash_inside
            auth == state.auth_status
            keys == state.keystroke_register
<1>1. cash \in Nat /\ auth \in Sessions /\ keys \in Seq(Digits)
  BY DEF Atms
<1>2. /\ Waiting \in Sessions /\ Authenticated \in Sessions
      /\ \A c \in Cards : Authenticating(c) \in Sessions
      /\ <<>> \in Seq(Digits)
      /\ \A k \in Digits : Append(keys, k) \in Seq(Digits)
  BY <1>1 DEF Sessions
<1>3. Amount(keys) \in Nat
  BY <1>1, AmountIsValue
<1>4. ASSUME NEW c \in Cards, t = SwipeCard(c)
      PROVE  state' = Atm(cash, Authenticating(c), keys)
  BY <1>1, <1>4, AtmNextCases, AfterEach
<1>5. ASSUME \A c \in Cards : t # SwipeCard(c), auth = Waiting PROVE state' = state
  BY <1>1, <1>5, AtmNextCases
<1>6. ASSUME NEW k \in Digits, t = PressKey(k), auth # Waiting
      PROVE  state' = Atm(cash, auth, Append(keys, k))
  <2>1. t # Enter /\ t[2] = k /\ \A c \in Cards : t # SwipeCard(c)
    <3>1. k # "Enter"
      BY AtmAssumption
    <3>. QED
      BY <1>6, <3>1 DEF PressKey, SwipeCard, Enter
  <2>2. state' = AfterDigit(state, k)
    BY <1>1, <1>6, <2>1, AtmNextCases
  <2>. QED
    BY <2>2, AfterEach
<1>7. ASSUME t = Enter, auth # Waiting, auth # Authenticated
      PROVE  state' = Atm(cash, IF auth = Authenticating(HashKeys(keys))
                                THEN Authenticated ELSE Waiting, <<>>)
  <2>1. \A c \in Cards : t # SwipeCard(c)
    BY <1>7 DEF PressKey, SwipeCard, Enter
  <2>2. state' = AfterPin(state)
    BY <1>1, <1>7, <2>1, AtmNextCases
  <2>. QED
    BY <2>2 DEF AfterPin
<1>8. ASSUME t = Enter, auth = Authenticated
      PROVE  state' = Atm(IF Amount(keys) <= cash THEN cash - Amount(keys) ELSE cash, Waiting, <<>>)
  <2>1. \A c \in Cards : t # SwipeCard(c)
    BY <1>8 DEF PressKey, SwipeCard, Enter
  <2>2. state' = AfterAmount(state)
    BY <1>1, <1>8, <2>1, AtmNextCases
  <2>. QED
    BY <2>2 DEF AfterAmount
<1>. HIDE DEF cash, auth, keys
<1>9. \A n \in Nat, a \in Sessions, ks \in Seq(Digits) :
        /\ Atm(n, a, ks) \in Atms
        /\ Atm(n, a, ks).cash_inside = n
        /\ Atm(n, a, ks).auth_status = a
        /\ Atm(n, a, ks).keystroke_register = ks
  BY AfterEach
<1>10. (IF Amount(keys) <= cash THEN cash - Amount(keys) ELSE cash) \in Nat
  BY <1>1, <1>3
<1>11. Waiting # Authenticated
  BY SessionsDiffer
<1>12. CASE \E c \in Cards : t = SwipeCard(c)
  <2>1. PICK c \in Cards : t = SwipeCard(c)
    BY <1>12
  <2>2. \A d \in Cards : t = SwipeCard(d) => c = d
    BY <2>1, SwipesDiffer
  <2>3. t # Enter /\ \A k \in Digits : t # PressKey(k)
    BY <2>1 DEF PressKey, SwipeCard, Enter
  <2>4. /\ state' \in Atms /\ state'.cash_inside = cash
        /\ state'.auth_status = Authenticating(c) /\ state'.keystroke_register = keys
    BY <1>1, <1>2, <1>4, <1>9, <2>1
  <2>. QED
    BY <2>1, <2>2, <2>3, <2>4 DEF cash, keys
<1>13. CASE ~ (\E c \in Cards : t = SwipeCard(c)) /\ auth = Waiting
  BY <1>5, <1>13 DEF auth
<1>14. CASE (\E k \in Digits : t = PressKey(k)) /\ auth # Waiting
  <2>1. PICK k \in Digits : t = PressKey(k)
    BY <1>14
  <2>2. \A l \in Digits : t = PressKey(l) => k = l
    BY <2>1 DEF PressKey
  <2>3. t # Enter /\ \A c \in Cards : t # SwipeCard(c)
    <3>1. k # "Enter"
      BY AtmAssumption
    <3>. QED
      BY <2>1, <3>1 DEF PressKey, SwipeCard, Enter
  <2>4. /\ state' \in Atms /\ state'.cash_inside = cash
        /\ state'.auth_status = auth /\ state'.keystroke_register = Append(keys, k)
    <3>1. PICK ks \in Seq(Digits) : ks = Append(keys, k)
      BY <1>2
    <3>2. state' = Atm(cash, auth, ks)
      BY <1>6, <1>14, <2>1, <3>1
    <3>3. /\ state' \in Atms /\ state'.cash_inside = cash
          /\ state'.auth_status = auth /\ state'.keystroke_register = ks
      BY <1>1, <1>9, <3>2
    <3>. QED
      BY <3>1, <3>3
  <2>. QED
    BY <1>14, <2>1, <2>2, <2>3, <2>4 DEF cash, auth, keys
<1>15. CASE t = Enter /\ auth # Waiting /\ auth # Authenticated
  <2>1. (\A c \in Cards : t # SwipeCard(c)) /\ \A k \in Digits : t # PressKey(k)
    <3>1. \A k \in Digits : k # "Enter"
      BY AtmAssumption
    <3>. QED
      BY <1>15, <3>1 DEF PressKey, SwipeCard, Enter
  <2>2. PICK now \in Sessions : now = IF auth = Authenticating(HashKeys(keys))
                                      THEN Authenticated ELSE Waiting
    BY <1>2
  <2>3. state' = Atm(cash, now, <<>>)
    BY <1>7, <1>15, <2>2
  <2>4. /\ state' \in Atms /\ state'.cash_inside = cash
        /\ state'.auth_status = now /\ state'.keystroke_register = <<>>
    <3>1. PICK ks \in Seq(Digits) : ks = <<>>
      BY <1>2
    <3>2. state' = Atm(cash, now, ks)
      BY <2>3, <3>1
    <3>3. /\ state' \in Atms /\ state'.cash_inside = cash
          /\ state'.auth_status = now /\ state'.keystroke_register = ks
      BY <1>1, <1>9, <3>2
    <3>. QED
      BY <3>1, <3>3
  <2>. QED
    BY <1>15, <2>1, <2>2, <2>4 DEF cash, auth, keys
<1>16. CASE t = Enter /\ auth = Authenticated
  <2>1. (\A c \in Cards : t # SwipeCard(c)) /\ \A k \in Digits : t # PressKey(k)
    <3>1. \A k \in Digits : k # "Enter"
      BY AtmAssumption
    <3>. QED
      BY <1>16, <3>1 DEF PressKey, SwipeCard, Enter
  <2>2. PICK left \in Nat : left = IF Amount(keys) <= cash THEN cash - Amount(keys) ELSE cash
    BY <1>10
  <2>3. /\ state' \in Atms /\ state'.cash_inside = left
        /\ state'.auth_status = Waiting /\ state'.keystroke_register = <<>>
    <3>1. PICK ks \in Seq(Digits) : ks = <<>>
      BY <1>2
    <3>2. state' = Atm(left, Waiting, ks)
      BY <1>8, <1>16, <2>2, <3>1
    <3>3. /\ state' \in Atms /\ state'.cash_inside = left
          /\ state'.auth_status = Waiting /\ state'.keystroke_register = ks
      BY <1>2, <1>9, <3>2
    <3>. QED
      BY <3>1, <3>3
  <2>4. left # cash => cash - left = Amount(keys)
    BY <1>1, <1>3, <2>2
  <2>. QED
    BY <1>11, <1>16, <2>1, <2>3, <2>4 DEF cash, auth, keys
<1>. QED
  BY <1>12, <1>13, <1>14, <1>15, <1>16 DEF AtmActions

LEMMA PinEnteredIs ==
    PinEntered <=> /\ LastSwipe < LastEnter
                   /\ log[LastSwipe] = SwipeCard(HashKeys(
                        KeyedIn(log, LastOf(Enters(log), LastEnter), LastEnter)))
BY KeyedIsKeyedIn DEF PinEntered, Enters

\* What one more action makes of the last swipe, of the last Enter and of the digits
\* since then.
LEMMA LogNext ==
    ASSUME log \in Seq(AtmActions), NEW t \in AtmActions, log' = Append(log, t),
           NEW n \in Nat, n = Len(log)
    PROVE  /\ Len(log') = n + 1 /\ log'[n + 1] = t
           /\ SameUpTo(log, log', n)
           /\ LastEnter \in 0..n /\ LastSwipe \in 0..n
           /\ LastEnter' = IF t = Enter THEN n + 1 ELSE LastEnter
           /\ LastSwipe' = IF \E c \in Cards : t = SwipeCard(c) THEN n + 1 ELSE LastSwipe
           /\ t # Enter => Enters(log') = Enters(log)
           /\ t = Enter => LastOf(Enters(log'), n + 1) = LastEnter
<1>1. /\ Len(log') = n + 1 /\ log'[n + 1] = t
      /\ DOMAIN log = 1..n /\ DOMAIN log' = 1..n + 1
      /\ \A i \in 1..n : log'[i] = log[i]
  OBVIOUS
<1>2. LastEnter \in 0..n /\ LastEnter' = IF t \in {Enter} THEN n + 1 ELSE LastEnter
  BY LastDoneNext DEF LastEnter
<1>3. /\ LastSwipe \in 0..n
      /\ LastSwipe' = IF t \in {SwipeCard(c) : c \in Cards} THEN n + 1 ELSE LastSwipe
  BY LastDoneNext DEF LastSwipe
<1>4. SameUpTo(log, log', n)
  BY <1>1 DEF SameUpTo
<1>5. \A i : i \in 1..n + 1 <=> i \in 1..n \/ i = n + 1
  OBVIOUS
<1>6. t # Enter => Enters(log') = Enters(log)
  BY <1>1, <1>5 DEF Enters
<1>7. ASSUME t = Enter PROVE LastOf(Enters(log'), n + 1) = LastEnter
  <2>1. LastEnter = LastOf(Enters(log), n + 1)
    BY DEF LastEnter, LastDone, Enters
  <2>2. Enters(log) \in SUBSET Nat /\ Enters(log') \in SUBSET Nat
    BY <1>1 DEF Enters
  <2>3. IsLast(LastEnter, Enters(log), n + 1)
    BY <2>1, <2>2, LastOfIs
  <2>4. Enters(log') = Enters(log) \cup {n + 1}
    BY <1>1, <1>5, <1>7 DEF Enters
  <2>5. ~ (n + 1 < n + 1)
    OBVIOUS
  <2>6. IsLast(LastEnter, Enters(log'), n + 1)
    BY <2>3, <2>4, <2>5 DEF IsLast
  <2>. QED
    BY <2>2, <2>6, LastOfIs
<1>. QED
  BY <1>1, <1>2, <1>3, <1>4, <1>6, <1>7

\* An action that leaves a session open keeps its account.
LEMMA SessionGoesOn ==
    ASSUME Served, machine = "Atm", NEW t \in AtmActions, state' = AtmNext(state, t),
           log' = Append(log, t), state'.auth_status # Waiting
    PROVE  /\ LastSwipe' # 0
           /\ \A c \in Cards : state'.auth_status = Authenticating(c) =>
                LastEnter' < LastSwipe' /\ log'[LastSwipe'] = SwipeCard(c)
           /\ state'.auth_status = Authenticated => PinEntered'
           /\ state'.keystroke_register = KeyedIn(log', LastEnter', Len(log') + 1)
<1>1. log \in Seq(AtmActions) /\ state \in Atms
  BY DEF Served, Logged, Transitions
<1>2. PICK n \in Nat : n = Len(log) /\ (log = <<>> <=> n = 0)
  BY <1>1
<1>3. PICK en \in 0..n : en = LastEnter
  BY <1>1, <1>2, LogNext
<1>4. PICK sw \in 0..n : sw = LastSwipe
  BY <1>1, <1>2, LogNext
<1>5. PICK l : l = log
  OBVIOUS
<1>6. PICK m : m = log'
  OBVIOUS
<1>7. /\ Len(log') = n + 1 /\ m[n + 1] = t
      /\ SameUpTo(l, m, n)
      /\ LastEnter' = IF t = Enter THEN n + 1 ELSE en
      /\ LastSwipe' = IF \E c \in Cards : t = SwipeCard(c) THEN n + 1 ELSE sw
      /\ t # Enter => Enters(m) = Enters(l)
      /\ t = Enter => LastOf(Enters(m), n + 1) = en
  BY <1>1, <1>2, <1>3, <1>4, <1>5, <1>6, LogNext
<1>8. /\ state.auth_status = Waiting <=> n = 0
      /\ n # 0 => sw # 0
      /\ \A c \in Cards : state.auth_status = Authenticating(c) => en < sw /\ l[sw] = SwipeCard(c)
      /\ state.auth_status = Authenticated => PinEntered
  BY <1>2, <1>3, <1>4, <1>5 DEF Served
<1>9. state.keystroke_register = KeyedIn(l, en, n + 1)
  <2>1. state.keystroke_register = Keyed(LastEnter, Len(log) + 1)
    BY DEF Served, RegisterSinceEnter
  <2>. QED
    BY <1>2, <1>3, <1>5, <2>1, KeyedIsKeyedIn
<1>10. PinEntered <=> sw < en /\ l[sw] = SwipeCard(HashKeys(KeyedIn(l, LastOf(Enters(l), en), en)))
  BY <1>3, <1>4, <1>5, PinEnteredIs
<1>11. PinEntered' <=>
         /\ LastSwipe' < LastEnter'
         /\ m[LastSwipe'] = SwipeCard(HashKeys(KeyedIn(m, LastOf(Enters(m), LastEnter'), LastEnter')))
  <2>1. PinEntered' <=>
         /\ LastSwipe' < LastEnter'
         /\ log'[LastSwipe'] = SwipeCard(HashKeys(
              KeyedIn(log', LastOf(Enters(log'), LastEnter'), LastEnter')))
    BY DEF PinEntered, Keyed, KeyedIn, KeysUpTo, Enters, LastOf
  <2>. QED
    BY <1>6, <2>1
<1>12. KeyedIn(m, en, n + 1) = state.keystroke_register
  BY <1>3, <1>7, <1>9, KeyedInSame
<1>13. KeyedIn(m, en, (n + 1) + 1) = IF IsDigit(t) THEN Append(state.keystroke_register, t[2])
                                     ELSE state.keystroke_register
  <2>1. n + 1 \in Nat /\ n + 1 > en /\ en \in Nat
    BY <1>3
  <2>. QED
    BY <1>7, <1>12, <2>1, KeyedInNext
<1>14. CASE \E c \in Cards : t = SwipeCard(c)
  <2>1. PICK c \in Cards : t = SwipeCard(c)
    BY <1>14
  <2>2. t # Enter /\ ~ IsDigit(t)
    BY <2>1 DEF SwipeCard, Enter, PressKey, IsDigit
  <2>3. LastSwipe' = n + 1 /\ LastEnter' = en
    BY <1>7, <2>1, <2>2
  <2>4. /\ state'.auth_status = Authenticating(c)
        /\ state'.keystroke_register = state.keystroke_register
    BY <1>1, <2>1, StepInSession
  <2>5. state'.keystroke_register = KeyedIn(log', LastEnter', Len(log') + 1)
    BY <1>6, <1>7, <1>13, <2>2, <2>3, <2>4
  <2>6. \A d \in Cards : state'.auth_status = Authenticating(d) =>
                LastEnter' < LastSwipe' /\ log'[LastSwipe'] = SwipeCard(d)
    <3>1. \A d \in Cards : state'.auth_status = Authenticating(d) => c = d
      BY <2>4, SessionsDiffer
    <3>2. LastEnter' < LastSwipe'
      BY <1>3, <2>3
    <3>3. log'[LastSwipe'] = SwipeCard(c)
      BY <1>6, <1>7, <2>1, <2>3
    <3>. QED
      BY <3>1, <3>2, <3>3
  <2>7. state'.auth_status # Authenticated
    BY <2>4, SessionsDiffer
  <2>8. n + 1 # 0
    OBVIOUS
  <2>. QED
    BY <2>3, <2>5, <2>6, <2>7, <2>8
<1>15. CASE \E k \in Digits : t = PressKey(k)
  <2>1. PICK k \in Digits : t = PressKey(k)
    BY <1>15
  <2>2. k # "Enter"
    BY AtmAssumption
  <2>3. t # Enter /\ IsDigit(t) /\ t[2] = k /\ \A c \in Cards : t # SwipeCard(c)
    BY <2>1, <2>2 DEF SwipeCard, Enter, PressKey, IsDigit
  <2>4. state.auth_status # Waiting
    BY <1>1, <2>3, StepInSession
  <2>5. /\ state'.auth_status = state.auth_status
        /\ state'.keystroke_register = Append(state.keystroke_register, k)
    BY <1>1, <2>1, <2>4, StepInSession
  <2>6. LastSwipe' = sw /\ LastEnter' = en /\ Enters(m) = Enters(l)
    BY <1>7, <2>3
  <2>7. state'.keystroke_register = KeyedIn(log', LastEnter', Len(log') + 1)
    BY <1>6, <1>7, <1>13, <2>3, <2>5, <2>6
  <2>8. sw # 0 /\ sw \in 1..n /\ m[sw] = l[sw]
    BY <1>4, <1>7, <1>8, <2>4 DEF SameUpTo
  <2>9. \A c \in Cards : state'.auth_status = Authenticating(c) =>
                LastEnter' < LastSwipe' /\ log'[LastSwipe'] = SwipeCard(c)
    BY <1>6, <1>8, <2>5, <2>6, <2>8
  <2>10. state'.auth_status = Authenticated => PinEntered'
    <3>. SUFFICES ASSUME state'.auth_status = Authenticated PROVE PinEntered'
      OBVIOUS
    <3>1. sw < en /\ l[sw] = SwipeCard(HashKeys(KeyedIn(l, LastOf(Enters(l), en), en)))
      BY <1>8, <1>10, <2>5
    <3>2. PICK j \in Nat : j + 1 = en
      BY <1>3, <1>4, <3>1
    <3>3. SameUpTo(l, m, j)
      BY <1>3, <1>7, <3>2 DEF SameUpTo
    <3>4. LastOf(Enters(l), en) \in Nat
      <4>1. Enters(l) \in SUBSET Nat
        BY <1>1, <1>5 DEF Enters
      <4>2. en \in Nat /\ en > 0
        BY <3>2
      <4>3. IsLast(LastOf(Enters(l), en), Enters(l), en)
        BY <4>1, <4>2, LastOfIs
      <4>. QED
        BY <4>1, <4>3 DEF IsLast
    <3>5. KeyedIn(l, LastOf(Enters(l), en), en) = KeyedIn(m, LastOf(Enters(l), en), en)
      BY <3>2, <3>3, <3>4, KeyedInSame
    <3>. QED
      BY <1>11, <2>6, <2>8, <3>1, <3>5
  <2>. QED
    BY <2>6, <2>7, <2>8, <2>9, <2>10
<1>16. CASE t = Enter
  <2>1. ~ IsDigit(t) /\ \A c \in Cards : t # SwipeCard(c)
    BY <1>16 DEF SwipeCard, Enter, PressKey, IsDigit
  <2>2. state.auth_status # Waiting
    BY <1>1, <2>1, StepInSession
  <2>3. /\ state'.keystroke_register = <<>>
        /\ state'.auth_status = Authenticated
        /\ state.auth_status # Authenticated
        /\ state.auth_status = Authenticating(HashKeys(state.keystroke_register))
    BY <1>1, <1>16, <2>2, StepInSession
  <2>4. LastSwipe' = sw /\ LastEnter' = n + 1
    BY <1>7, <1>16, <2>1
  <2>5. PICK c \in Cards : state.auth_status = Authenticating(c)
    BY <1>1, <2>2, <2>3 DEF Atms, Sessions
  <2>6. c = HashKeys(state.keystroke_register)
    BY <2>3, <2>5, SessionsDiffer
  <2>7. en < sw /\ l[sw] = SwipeCard(c)
    BY <1>8, <2>5
  <2>8. sw \in 1..n /\ sw # 0 /\ sw < n + 1 /\ m[sw] = l[sw]
    BY <1>3, <1>4, <1>7, <2>7 DEF SameUpTo
  <2>9. m[sw] = SwipeCard(HashKeys(KeyedIn(m, en, n + 1)))
    BY <1>12, <2>6, <2>7, <2>8
  <2>10. PinEntered'
    BY <1>7, <1>11, <1>16, <2>4, <2>8, <2>9
  <2>11. KeyedIn(m, n + 1, (n + 1) + 1) = <<>>
    <3>1. n + 1 \in Nat /\ n + 1 <= n + 1
      OBVIOUS
    <3>. QED
      BY <3>1, KeyedInNext
  <2>12. state'.keystroke_register = KeyedIn(log', LastEnter', Len(log') + 1)
    BY <1>6, <1>7, <2>3, <2>4, <2>11
  <2>13. \A d \in Cards : state'.auth_status # Authenticating(d)
    BY <2>3, SessionsDiffer
  <2>. QED
    BY <2>3, <2>4, <2>8, <2>10, <2>12, <2>13
<1>. QED
  BY <1>14, <1>15, <1>16 DEF AtmActions

\* In the main menu the register is empty.
LEMMA NothingKeyed ==
    ASSUME NEW l, l = <<>>
    PROVE  LastOf({i \in DOMAIN l : l[i] \in {Enter}}, Len(l) + 1) = 0
           /\ KeyedIn(l, 0, Len(l) + 1) = <<>>
<1>1. {i \in DOMAIN l : l[i] \in {Enter}} = {} /\ Len(l) + 1 = 1
  OBVIOUS
<1>2. IsLast(0, {}, 1) /\ {} \in SUBSET Nat
  BY DEF IsLast
<1>3. LastOf({}, 1) = 0
  BY <1>2, LastOfIs
<1>4. 0 + 1 = 1
  OBVIOUS
<1>5. KeyedIn(l, 0, 0 + 1) = <<>>
  <2>1. PICK z \in Nat : z = 0 /\ z <= z
    OBVIOUS
  <2>2. KeyedIn(l, z, z + 1) = <<>>
    BY <2>1, KeyedInNext
  <2>. QED
    BY <2>1, <2>2
<1>. QED
  BY <1>1, <1>3, <1>4, <1>5

LEMMA InitServed == MachineInit => Served
<1>. SUFFICES ASSUME MachineInit PROVE Served
  OBVIOUS
<1>1. Logged /\ log = <<>>
  BY InitLogged DEF MachineInit
<1>2. ASSUME machine = "Atm"
      PROVE  \E cash \in Nat : state = Atm(cash, Waiting, <<>>)
  <2>1. CashInside \subseteq Nat
    BY AtmAssumption
  <2>. QED
    BY <1>2, <2>1 DEF MachineInit, MachineStarts
<1>3. ASSUME machine = "Atm"
      PROVE  /\ state \in Atms /\ state.auth_status = Waiting
             /\ state.keystroke_register = <<>>
  <2>1. PICK cash \in Nat : state = Atm(cash, Waiting, <<>>)
    BY <1>2, <1>3
  <2>2. Waiting \in Sessions /\ <<>> \in Seq(Digits)
    BY DEF Sessions
  <2>. QED
    BY <2>1, <2>2 DEF Atms, Atm
<1>4. Keyed(LastEnter, Len(log) + 1) = <<>>
  BY <1>1, NothingKeyed, KeyedIsKeyedIn DEF LastEnter, LastDone
<1>. QED
  BY <1>1, <1>3, <1>4, SessionsDiffer DEF Served, RegisterSinceEnter

LEMMA ServedStep == Served /\ [MachineNext]_machineVars => Served'
<1>. SUFFICES ASSUME Served, [MachineNext]_machineVars PROVE Served'
  OBVIOUS
<1>0. Logged /\ Logged'
  BY LoggedStep DEF Served
<1>1. ASSUME machine = "Atm", NEW t \in AtmActions, Undergo(t) PROVE Served'
  <2>1. machine' = machine /\ state' = AtmNext(state, t)
    BY <1>1 DEF Undergo, NextStateOf
  <2>2. state \in Atms /\ log \in Seq(AtmActions)
    BY <1>0, <1>1 DEF Served, Logged, Transitions
  <2>3. state' \in Atms
    BY <2>1, <2>2, StepInSession
  <2>4. RegisterSinceEnter' <=>
          (machine' = "Atm" => state'.keystroke_register = KeyedIn(log', LastEnter', Len(log') + 1))
    BY DEF RegisterSinceEnter, Keyed, KeyedIn, KeysUpTo
  <2>5. CASE state'.auth_status = Waiting
    <3>1. log' = <<>>
      BY <1>1, <2>1, <2>5 DEF Undergo, InMenu
    <3>2. LastEnter' = 0 /\ KeyedIn(log', 0, Len(log') + 1) = <<>>
      BY <3>1, NothingKeyed DEF LastEnter, LastDone
    <3>3. state'.keystroke_register = <<>>
      <4>1. CASE \E c \in Cards : t = SwipeCard(c)
        BY <2>1, <2>2, <2>5, <4>1, StepInSession, SessionsDiffer
      <4>2. CASE ~ (\E c \in Cards : t = SwipeCard(c)) /\ state.auth_status = Waiting
        <5>1. state' = state /\ log = <<>>
          BY <1>1, <2>1, <2>2, <4>2, StepInSession DEF Served
        <5>2. state.keystroke_register = KeyedIn(log, LastEnter, Len(log) + 1)
          BY <1>1, KeyedIsKeyedIn DEF Served, RegisterSinceEnter
        <5>3. LastEnter = 0 /\ KeyedIn(log, 0, Len(log) + 1) = <<>>
          BY <5>1, NothingKeyed DEF LastEnter, LastDone
        <5>. QED
          BY <5>1, <5>2, <5>3
      <4>3. CASE (\E k \in Digits : t = PressKey(k)) /\ state.auth_status # Waiting
        BY <2>1, <2>2, <2>5, <4>3, StepInSession
      <4>4. CASE t = Enter /\ state.auth_status # Waiting
        BY <2>1, <2>2, <4>4, StepInSession
      <4>. QED
        BY <4>1, <4>2, <4>3, <4>4 DEF AtmActions
    <3>4. RegisterSinceEnter'
      BY <2>4, <3>2, <3>3
    <3>. QED
      BY <1>0, <2>3, <2>5, <3>1, <3>4, SessionsDiffer DEF Served
  <2>6. CASE state'.auth_status # Waiting
    <3>1. log' = Append(log, t)
      <4>1. IF InMenu(state') THEN from_state' = state' /\ log' = <<>>
                              ELSE from_state' = from_state /\ log' = Append(log, t)
        BY <1>1 DEF Undergo
      <4>2. ~ InMenu(state')
        BY <2>6 DEF InMenu
      <4>. QED
        BY <4>1, <4>2
    <3>2. log' # <<>>
      BY <2>2, <3>1
    <3>3. /\ LastSwipe' # 0
          /\ \A c \in Cards : state'.auth_status = Authenticating(c) =>
               LastEnter' < LastSwipe' /\ log'[LastSwipe'] = SwipeCard(c)
          /\ state'.auth_status = Authenticated => PinEntered'
          /\ state'.keystroke_register = KeyedIn(log', LastEnter', Len(log') + 1)
      BY <1>1, <2>1, <2>6, <3>1, SessionGoesOn
    <3>4. RegisterSinceEnter'
      BY <2>4, <3>3
    <3>. QED
      BY <1>0, <2>3, <2>6, <3>2, <3>3, <3>4 DEF Served
  <2>. QED
    BY <2>5, <2>6
<1>2. CASE MachineNext
  <2>1. PICK t \in Transitions(machine) : Undergo(t)
    BY <1>2 DEF MachineNext
  <2>2. machine' = machine
    BY <2>1 DEF Undergo
  <2>3. CASE machine = "Atm"
    <3>1. Transitions(machine) = AtmActions
      BY <2>3 DEF Transitions
    <3>. QED
      BY <1>1, <2>1, <2>3, <3>1
  <2>4. CASE machine # "Atm"
    BY <1>0, <2>2, <2>4 DEF Served
  <2>. QED
    BY <2>3, <2>4
<1>3. CASE UNCHANGED machineVars
  <2>1. machine' = machine /\ from_state' = from_state /\ state' = state /\ log' = log
    BY <1>3 DEF machineVars
  <2>2. LastSwipe' = LastSwipe /\ LastEnter' = LastEnter
    BY <2>1 DEF LastSwipe, LastEnter, LastDone, LastOf
  <2>3. PinEntered' = PinEntered /\ RegisterSinceEnter' = RegisterSinceEnter
    BY <2>1, <2>2 DEF PinEntered, RegisterSinceEnter, Keyed, LastOf
  <2>. QED
    BY <1>0, <2>1, <2>2, <2>3 DEF Served
<1>. QED
  BY <1>2, <1>3

\* Only the PIN of the last card authenticates.
LEMMA ServedAuthenticated == Served => AuthenticatedByPin
<1>. SUFFICES ASSUME Served, machine = "Atm"
              PROVE  state.auth_status = Authenticated <=> log # <<>> /\ PinEntered
  BY DEF AuthenticatedByPin
<1>1. state.auth_status = Authenticated => log # <<>> /\ PinEntered
  BY SessionsDiffer DEF Served
<1>2. ASSUME log # <<>>, PinEntered PROVE state.auth_status = Authenticated
  <2>1. state.auth_status # Waiting /\ state.auth_status \in Sessions
    BY <1>2 DEF Served, Atms
  <2>2. LastSwipe < LastEnter
    BY <1>2 DEF PinEntered
  <2>3. LastSwipe \in Nat /\ LastEnter \in Nat
    <3>1. log \in Seq(AtmActions)
      BY DEF Served, Logged, Transitions
    <3>2. \A S : LastDone(S) \in Nat
      <4>. SUFFICES ASSUME NEW S PROVE LastDone(S) \in Nat
        OBVIOUS
      <4>1. LastDone(S) = LastOf(Where(log, S), Len(log) + 1)
        BY DEF LastDone, Where
      <4>2. Where(log, S) \in SUBSET Nat /\ Len(log) + 1 \in Nat /\ Len(log) + 1 > 0
        BY <3>1 DEF Where
      <4>3. IsLast(LastDone(S), Where(log, S), Len(log) + 1)
        BY <4>1, <4>2, LastOfIs
      <4>. QED
        BY <4>2, <4>3 DEF IsLast
    <3>. QED
      BY <3>2 DEF LastSwipe, LastEnter
  <2>4. \A c \in Cards : state.auth_status # Authenticating(c)
    BY <2>2, <2>3 DEF Served
  <2>. QED
    BY <2>1, <2>4 DEF Sessions
<1>. QED
  BY <1>1, <1>2

\* Cash leaves in one way only.
LEMMA StepCash ==
    ASSUME Served, [MachineNext]_machineVars, machine = "Atm", state'.cash_inside # state.cash_inside
    PROVE  /\ PinEntered
           /\ state.cash_inside - state'.cash_inside
                = Value(Keyed(LastEnter, Len(log) + 1)) % AtmWord
           /\ state'.cash_inside >= 0
<1>1. PICK t \in AtmActions : Undergo(t)
  <2>1. state' # state
    OBVIOUS
  <2>2. MachineNext
    BY <2>1 DEF machineVars
  <2>. QED
    BY <2>2 DEF MachineNext, Transitions
<1>2. state' = AtmNext(state, t) /\ state \in Atms
  BY <1>1 DEF Undergo, NextStateOf, Served
<1>3. t = Enter /\ state.auth_status # Waiting
  BY <1>2, StepInSession DEF AtmActions
<1>4. /\ state.auth_status = Authenticated
      /\ state.cash_inside - state'.cash_inside = Amount(state.keystroke_register)
  BY <1>2, <1>3, StepInSession
<1>5. state' \in Atms
  BY <1>2, StepInSession
<1>6. state'.cash_inside >= 0
  BY <1>5 DEF Atms
<1>7. PinEntered
  BY <1>4 DEF Served
<1>8. Amount(state.keystroke_register) = Value(state.keystroke_register) % AtmWord
  BY <1>2, AmountIsValue DEF Atms
<1>9. state.keystroke_register = Keyed(LastEnter, Len(log) + 1)
  BY DEF Served, RegisterSinceEnter
<1>. QED
  BY <1>4, <1>6, <1>7, <1>8, <1>9

-----------------------------------------------------------------------------
(* Bills: what a step of the cash system adds *)

\* What is added to the bills: bills of users, numbered from next_serial on.
FreshBills(new) ==
    /\ new \in Seq([owner : Owners, amount : BillAmounts, serial : Nat])
    /\ \A i \in DOMAIN new : new[i].serial = next_serial + i - 1

\* Every step adds fresh bills and keeps some of the old ones.
BillsGrow ==
    \E new : \E kept \in SUBSET bills : FreshBills(new) /\ AddBills(kept, new)

\* A bounded sequence is a sequence, no longer than the bound.
LEMMA BoundedSeqs ==
    ASSUME NEW S, NEW m \in Nat, NEW s \in BoundedSeq(S, m)
    PROVE  s \in Seq(S) /\ Len(s) \in 0..m
<1>1. PICK n \in 0..m : s \in [1..n -> S]
  BY DEF BoundedSeq, SeqOf
<1>2. n \in Nat
  BY <1>1
<1>3. s \in UNION {[1..k -> S] : k \in Nat}
  BY <1>1, <1>2, Zenon
<1>4. Seq(S) = UNION {[1..k -> S] : k \in Nat}
  BY SeqDef, Zenon
<1>5. s \in Seq(S)
  BY <1>3, <1>4, Zenon
<1>6. Len(s) = n
  BY <1>1, <1>2, <1>5
<1>. QED
  BY <1>1, <1>5, <1>6

\* A mint adds one bill, with the next serial.
LEMMA MintAdds ==
    ASSUME CashTypeOK, NEW u \in Owners, NEW a \in BillAmounts, MintBill(u, a)
    PROVE  BillsGrow
<1>. DEFINE new == <<Bill(u, a, next_serial)>>
<1>1. new \in Seq([owner : Owners, amount : BillAmounts, serial : Nat])
  BY DEF CashTypeOK, Bill
<1>2. \A i \in DOMAIN new : new[i].serial = next_serial + i - 1
  BY DEF CashTypeOK, Bill
<1>3. FreshBills(new)
  BY <1>1, <1>2 DEF FreshBills
<1>4. AddBills(bills, new)
  BY DEF MintBill
<1>. QED
  BY <1>3, <1>4 DEF BillsGrow

\* A transfer adds what it receives, and keeps what it does not spend.
LEMMA TransferAdds ==
    ASSUME CashTypeOK, NEW spends, TransferBills(spends)
    PROVE  BillsGrow
<1>1. PICK receives \in BillLists :
         Numbered(receives) /\ AddBills(bills \ Range(spends), receives)
  BY DEF TransferBills
<1>2. receives \in Seq(Bills)
  BY <1>1, CashAssumption, BoundedSeqs DEF BillLists
<1>3. Bills \subseteq [owner : Owners, amount : BillAmounts, serial : Nat]
  BY CashAssumption DEF Bills, Bill
<1>4. receives \in Seq([owner : Owners, amount : BillAmounts, serial : Nat])
  BY <1>2, <1>3, SeqMonotonic, Zenon
<1>5. FreshBills(receives)
  BY <1>1, <1>4 DEF FreshBills, Numbered
<1>. QED
  BY <1>1, <1>5 DEF BillsGrow

LEMMA StepAdds ==
    ASSUME CashTypeOK, CashNext
    PROVE  BillsGrow
<1>1. CASE \E u \in Owners, a \in BillAmounts : MintBill(u, a)
  BY <1>1, MintAdds
<1>2. CASE \E spends \in BillLists : TransferBills(spends)
  BY <1>2, TransferAdds
<1>. QED
  BY <1>1, <1>2 DEF CashNext

\* The serials of fresh bills lie from next_serial up to the next next_serial, and
\* no two of them are equal.
LEMMA FreshSerials ==
    ASSUME CashTypeOK, NEW new, FreshBills(new)
    PROVE  /\ Len(new) \in Nat
           /\ \A b \in Range(new) :
                /\ b \in [owner : Owners, amount : BillAmounts, serial : Nat]
                /\ next_serial <= b.serial
                /\ b.serial < next_serial + Len(new)
           /\ \A b, c \in Range(new) : b.serial = c.serial => b = c
<1>. DEFINE Typed == [owner : Owners, amount : BillAmounts, serial : Nat]
<1>0. new \in Seq(Typed)
  BY DEF FreshBills
<1>. HIDE DEF Typed
<1>1. /\ Len(new) \in Nat
      /\ DOMAIN new = 1..Len(new)
      /\ next_serial \in Nat
      /\ \A i \in 1..Len(new) : new[i] \in Typed
  BY <1>0 DEF CashTypeOK
<1>2. ASSUME NEW b \in Range(new)
      PROVE  \E i \in 1..Len(new) : b = new[i] /\ b.serial = next_serial + i - 1
  BY <1>1, <1>2 DEF Range, FreshBills
<1>3. ASSUME NEW b \in Range(new)
      PROVE  /\ b \in [owner : Owners, amount : BillAmounts, serial : Nat]
             /\ next_serial <= b.serial
             /\ b.serial < next_serial + Len(new)
  <2>1. PICK i \in 1..Len(new) : b = new[i] /\ b.serial = next_serial + i - 1
    BY <1>2
  <2>2. b \in [owner : Owners, amount : BillAmounts, serial : Nat]
    BY <1>1, <2>1 DEF Typed
  <2>. QED
    BY <1>1, <2>1, <2>2
<1>4. ASSUME NEW b \in Range(new), NEW c \in Range(new), b.serial = c.serial
      PROVE  b = c
  <2>1. PICK i \in 1..Len(new) : b = new[i] /\ b.serial = next_serial + i - 1
    BY <1>2
  <2>2. PICK j \in 1..Len(new) : c = new[j] /\ c.serial = next_serial + j - 1
    BY <1>2
  <2>3. i = j
    BY <1>1, <1>4, <2>1, <2>2
  <2>. QED
    BY <2>1, <2>2, <2>3
<1>. QED
  BY <1>1, <1>3, <1>4
-----------------------------------------------------------------------------
(* Bills: the serials *)

Counted == CashTypeOK /\ SerialsUnique

LEMMA InitCounted == CashInit => Counted
<1>. SUFFICES ASSUME CashInit PROVE Counted
  OBVIOUS
<1>1. PICK bs \in BoundedSeq(Bills, MaxWritten), serial \in 0..MaxSerial :
        \E written \in {StateFrom(bs), SetSerial(StateFrom(bs), serial)} :
            /\ Proper(written)
            /\ bills = written.bills /\ next_serial = written.next_serial
            /\ issued = bills
  BY DEF CashInit
<1>2. bs \in Seq(Bills) /\ Len(bs) \in Nat
  BY <1>1, CashAssumption, BoundedSeqs
<1>3. bills = Range(bs) /\ next_serial \in {Len(bs), serial} /\ issued = bills
  BY <1>1 DEF StateFrom, SetSerial
<1>4. /\ \A b \in bills : b.serial < next_serial
      /\ \A b, c \in bills : b.serial = c.serial => b = c
  BY <1>1 DEF Proper
<1>5. next_serial \in Nat
  BY <1>2, <1>3, CashAssumption
<1>6. ASSUME NEW b \in bills
      PROVE  b \in [owner : Owners, amount : BillAmounts, serial : 0..next_serial - 1]
  <2>1. b \in Bills
    BY <1>2, <1>3 DEF Range
  <2>2. b \in [owner : Owners, amount : BillAmounts, serial : 0..MaxSerial]
    BY <2>1 DEF Bills, Bill
  <2>3. b.serial \in 0..next_serial - 1
    BY <1>4, <1>5, <2>2
  <2>. QED
    BY <2>2, <2>3
<1>7. CashTypeOK
  BY <1>3, <1>5, <1>6 DEF CashTypeOK
<1>8. SerialsUnique
  BY <1>3, <1>4 DEF SerialsUnique
<1>. QED
  BY <1>7, <1>8 DEF Counted

LEMMA CountedStep == Counted /\ [CashNext]_cashVars => Counted'
<1>. SUFFICES ASSUME Counted, [CashNext]_cashVars PROVE Counted'
  OBVIOUS
<1>. USE DEF Counted
<1>1. CASE CashNext
  <2>1. PICK new : \E kept \in SUBSET bills : FreshBills(new) /\ AddBills(kept, new)
    BY <1>1, StepAdds DEF BillsGrow
  <2>2. PICK kept \in SUBSET bills : FreshBills(new) /\ AddBills(kept, new)
    BY <2>1
  <2>3. /\ Len(new) \in Nat
        /\ \A b \in Range(new) :
             /\ b \in [owner : Owners, amount : BillAmounts, serial : Nat]
             /\ next_serial <= b.serial
             /\ b.serial < next_serial + Len(new)
        /\ \A b, c \in Range(new) : b.serial = c.serial => b = c
    BY <2>2, FreshSerials
  <2>4. /\ bills' = kept \cup Range(new)
        /\ next_serial' = next_serial + Len(new)
        /\ issued' = issued \cup Range(new)
    BY <2>2 DEF AddBills
  <2>5. next_serial \in Nat /\ next_serial' \in Nat
    BY <2>3, <2>4 DEF CashTypeOK
  <2>6. bills' \subseteq issued'
    BY <2>2, <2>4 DEF CashTypeOK
  <2>7. ASSUME NEW b \in issued'
        PROVE  b \in [owner : Owners, amount : BillAmounts, serial : 0..next_serial' - 1]
    <3>1. CASE b \in issued
      <4>1. b \in [owner : Owners, amount : BillAmounts, serial : 0..next_serial - 1]
        BY <3>1 DEF CashTypeOK
      <4>2. 0..next_serial - 1 \subseteq 0..next_serial' - 1
        BY <2>3, <2>4, <2>5
      <4>. QED
        BY <4>1, <4>2
    <3>2. CASE b \in Range(new)
      <4>1. b \in [owner : Owners, amount : BillAmounts, serial : Nat]
        BY <2>3, <3>2
      <4>2. b.serial < next_serial + Len(new)
        BY <2>3, <3>2
      <4>3. b.serial \in 0..next_serial' - 1
        BY <2>4, <2>5, <4>1, <4>2
      <4>. QED
        BY <4>1, <4>3
    <3>. QED
      BY <2>4, <2>7, <3>1, <3>2
  <2>8. CashTypeOK'
    BY <2>5, <2>6, <2>7 DEF CashTypeOK
  <2>9. ASSUME NEW b \in issued, NEW c \in Range(new)
        PROVE  b.serial # c.serial
    <3>1. b.serial \in 0..next_serial - 1
      BY DEF CashTypeOK
    <3>2. c.serial \in Nat /\ next_serial <= c.serial
      BY <2>3
    <3>. QED
      BY <2>5, <3>1, <3>2
  <2>10. SerialsUnique'
    BY <2>3, <2>4, <2>9 DEF SerialsUnique
  <2>. QED
    BY <2>8, <2>10
<1>2. CASE UNCHANGED cashVars
  BY <1>2 DEF cashVars, CashTypeOK, SerialsUnique
<1>. QED
  BY <1>1, <1>2

LEMMA AlwaysCounted == CashSpec => []Counted
BY InitCounted, CountedStep, PTL DEF CashSpec

\* No step puts back a bill that was issued before.
LEMMA StepNeverRespends ==
    ASSUME Counted, [CashNext]_cashVars
    PROVE  [bills' \cap (issued \ bills) = {}]_cashVars
<1>1. CASE CashNext
  <2>1. PICK new : \E kept \in SUBSET bills : FreshBills(new) /\ AddBills(kept, new)
    BY <1>1, StepAdds DEF BillsGrow, Counted
  <2>2. PICK kept \in SUBSET bills : FreshBills(new) /\ AddBills(kept, new)
    BY <2>1
  <2>3. bills' = kept \cup Range(new)
    BY <2>2 DEF AddBills
  <2>4. ASSUME NEW b \in issued PROVE b \notin Range(new)
    <3>1. next_serial \in Nat /\ b.serial \in 0..next_serial - 1
      BY DEF Counted, CashTypeOK
    <3>2. ASSUME b \in Range(new) PROVE b.serial \in Nat /\ next_serial <= b.serial
      BY <2>2, <3>2, FreshSerials DEF Counted
    <3>. QED
      BY <3>1, <3>2
  <2>. QED
    BY <2>2, <2>3, <2>4
<1>2. CASE UNCHANGED cashVars
  BY <1>2
<1>. QED
  BY <1>1, <1>2

-----------------------------------------------------------------------------
(* Bills: the money that they are worth *)

AnyBill == [owner : Owners, amount : Nat, serial : Nat]

\* The amount on a bill, for sums over any set of bills.
Worth == [b \in AnyBill |-> b.amount]

\* g adds the amounts up as MapThenSumSet does,
AddsSet(g, bs) ==
    g = [s \in SUBSET bs |->
           IF s = {} THEN 0 ELSE ChosenOf(s).amount + g[s \ {ChosenOf(s)}]]

\* and as FoldLeft does.
AddsLast(g, bs) ==
    g = [s \in SUBSET DOMAIN bs |->
           IF s = {} THEN 0 ELSE g[s \ {Max(s)}] + bs[Max(s)].amount]

LEMMA SumOfAmountsIsSum ==
    ASSUME NEW bs \in SUBSET AnyBill, IsFiniteSet(bs)
    PROVE  SumOfAmounts(bs) = SumFunctionOnSet(Worth, bs) /\ SumOfAmounts(bs) \in Nat
<1>1. SumOfAmounts(bs) = (CHOOSE g : AddsSet(g, bs))[bs]
  BY DEF SumOfAmounts, MapThenSumSet, MapThenFoldSet, AddsSet, ChosenOf
<1>2. \A b \in bs : Worth[b] \in Nat /\ Worth[b] = b.amount
  BY DEF Worth, AnyBill
<1>. DEFINE sums == [s \in SUBSET bs |-> SumFunctionOnSet(Worth, s)]
<1>3. ASSUME NEW s \in SUBSET bs
      PROVE  sums[s] = IF s = {} THEN 0 ELSE ChosenOf(s).amount + sums[s \ {ChosenOf(s)}]
  <2>1. IsFiniteSet(s)
    BY FS_Subset
  <2>2. sums[s] = IF s = {} THEN 0
                  ELSE Worth[ChosenOf(s)] + SumFunctionOnSet(Worth, s \ {ChosenOf(s)})
    BY <2>1, SumByChoice
  <2>3. s # {} => ChosenOf(s) \in bs /\ s \ {ChosenOf(s)} \in SUBSET bs
    BY ChosenIsIn
  <2>. QED
    BY <1>2, <2>2, <2>3
<1>4. AddsSet(sums, bs)
  <2>1. sums = [s \in SUBSET bs |-> sums[s]]
    OBVIOUS
  <2>. HIDE DEF sums
  <2>. QED
    BY <1>3, <2>1 DEF AddsSet
<1>. HIDE DEF sums
<1>5. PICK g : g = (CHOOSE x : AddsSet(x, bs)) /\ AddsSet(g, bs)
  BY <1>4
<1>6. \A s \in SUBSET bs : s # {} => \E x \in s : g[s] = Worth[x] + g[s \ {x}]
  <2>. SUFFICES ASSUME NEW s \in SUBSET bs, s # {}
                PROVE  \E x \in s : g[s] = Worth[x] + g[s \ {x}]
    OBVIOUS
  <2>1. ChosenOf(s) \in s
    BY ChosenIsIn
  <2>2. g[s] = ChosenOf(s).amount + g[s \ {ChosenOf(s)}]
    BY <1>5 DEF AddsSet
  <2>. QED
    BY <1>2, <2>1, <2>2
<1>7. g[{}] = 0
  BY <1>5 DEF AddsSet
<1>8. g[bs] = SumFunctionOnSet(Worth, bs)
  <2>1. \A b \in bs : Worth[b] \in Int
    BY <1>2
  <2>. QED
    BY <1>6, <1>7, <2>1, SumsAreUnique
<1>. QED
  BY <1>1, <1>2, <1>5, <1>8, SumIsNat

LEMMA TotalIsSum ==
    ASSUME NEW bs \in Seq(AnyBill)
    PROVE  Total(bs) = SumFunctionOnSet([i \in DOMAIN bs |-> Worth[bs[i]]], DOMAIN bs)
<1>1. Total(bs) = (CHOOSE g : AddsLast(g, bs))[DOMAIN bs]
  BY DEF Total, FoldLeft, MapThenFoldSet, AddsLast
<1>. DEFINE worth == [i \in DOMAIN bs |-> Worth[bs[i]]]
<1>2. PICK n \in Nat : DOMAIN bs = 1..n
  OBVIOUS
<1>3. \A i \in DOMAIN bs : worth[i] \in Int /\ worth[i] = bs[i].amount
  <2>1. \A i \in DOMAIN bs : bs[i] \in AnyBill
    OBVIOUS
  <2>2. \A b \in AnyBill : Worth[b] = b.amount /\ b.amount \in Int
    BY DEF Worth, AnyBill
  <2>. QED
    BY <2>1, <2>2
<1>4. DOMAIN worth = 1..n
  BY <1>2
<1>. HIDE DEF worth
<1>5. ASSUME NEW g PROVE AddsLast(g, bs) <=> AddsUpLast(g, worth)
  <2>1. ASSUME NEW s \in SUBSET (1..n)
        PROVE  (IF s = {} THEN 0 ELSE g[s \ {Max(s)}] + bs[Max(s)].amount)
                 = IF s = {} THEN 0 ELSE g[s \ {Max(s)}] + worth[Max(s)]
    BY <1>2, <1>3, GreatestOf
  <2>2. [s \in SUBSET (1..n) |-> IF s = {} THEN 0 ELSE g[s \ {Max(s)}] + bs[Max(s)].amount]
          = [s \in SUBSET (1..n) |-> IF s = {} THEN 0 ELSE g[s \ {Max(s)}] + worth[Max(s)]]
    BY <2>1
  <2>. QED
    BY <1>2, <1>4, <2>2 DEF AddsLast, AddsUpLast
<1>6. PICK g : AddsLast(g, bs) /\ g = CHOOSE h : AddsLast(h, bs)
  <2>1. \E h : AddsLast(h, bs)
    BY <1>2, <1>3, <1>4, <1>5, AddedFromLeft
  <2>. QED
    BY <2>1
<1>7. g[1..n] = SumFunctionOnSet(worth, 1..n)
  BY <1>2, <1>3, <1>4, <1>5, <1>6, AddedFromLeft
<1>. QED
  BY <1>1, <1>2, <1>6, <1>7 DEF worth

\* Bills of which none occurs twice are worth, one after another, what they are
\* worth together.
LEMMA TotalOfDifferent ==
    ASSUME NEW bs \in Seq(AnyBill), IsInjective(bs)
    PROVE  /\ Range(bs) \subseteq AnyBill /\ IsFiniteSet(Range(bs))
           /\ Total(bs) = SumOfAmounts(Range(bs))
<1>1. PICK n \in Nat : DOMAIN bs = 1..n
  OBVIOUS
<1>2. IsFiniteSet(DOMAIN bs)
  BY <1>1, FS_Interval
<1>3. IsFiniteSet(Range(bs)) /\ Range(bs) \subseteq AnyBill
  BY <1>2, FiniteRange DEF Range
<1>4. \A i \in DOMAIN bs : Worth[bs[i]] \in Int
  <2>1. \A b \in AnyBill : Worth[b] \in Int
    BY DEF AnyBill, Worth
  <2>. QED
    BY <2>1
<1>. DEFINE worth == [i \in DOMAIN bs |-> Worth[bs[i]]]
<1>5. \A i \in DOMAIN bs : worth[i] = Worth[bs[i]]
  OBVIOUS
<1>6. Total(bs) = SumFunctionOnSet(worth, DOMAIN bs)
  BY TotalIsSum
<1>. HIDE DEF worth
<1>7. SumFunctionOnSet(worth, DOMAIN bs) = SumFunctionOnSet(Worth, Range(bs))
  BY <1>2, <1>4, <1>5, SumOfImage
<1>. QED
  BY <1>3, <1>6, <1>7, SumOfAmountsIsSum

\* The bills of a step are bills of the kind that sums are taken of.
LEMMA TypedBills ==
    ASSUME CashTypeOK
    PROVE  bills \subseteq AnyBill /\ Bills \subseteq AnyBill
<1>1. Bills \subseteq AnyBill
  <2>1. \A b \in Bills : b \in [owner : Owners, amount : BillAmounts, serial : 0..MaxSerial]
    BY DEF Bills, Bill
  <2>2. BillAmounts \subseteq Nat /\ 0..MaxSerial \subseteq Nat
    BY CashAssumption
  <2>. QED
    BY <2>1, <2>2 DEF AnyBill
<1>2. bills \subseteq AnyBill
  <2>1. \A b \in bills : b \in [owner : Owners, amount : BillAmounts, serial : 0..next_serial - 1]
    BY DEF CashTypeOK
  <2>2. BillAmounts \subseteq Nat /\ 0..next_serial - 1 \subseteq Nat
    BY CashAssumption DEF CashTypeOK
  <2>. QED
    BY <2>1, <2>2 DEF AnyBill
<1>. QED
  BY <1>1, <1>2

\* Fresh bills were not in circulation.
LEMMA FreshAreNew ==
    ASSUME CashTypeOK, NEW new, FreshBills(new)
    PROVE  Range(new) \cap bills = {} /\ IsInjective(new)
<1>1. \A b \in Range(new) : b.serial \in Nat /\ next_serial <= b.serial
  BY FreshSerials
<1>2. next_serial \in Nat /\ \A b \in bills : b.serial \in 0..next_serial - 1
  BY DEF CashTypeOK
<1>3. Range(new) \cap bills = {}
  BY <1>1, <1>2
<1>4. PICK n \in Nat : DOMAIN new = 1..n
  BY DEF FreshBills
<1>5. ASSUME NEW i \in DOMAIN new, NEW j \in DOMAIN new, new[i] = new[j] PROVE i = j
  <2>1. next_serial + i - 1 = next_serial + j - 1
    BY <1>5 DEF FreshBills
  <2>. QED
    BY <1>2, <1>4, <2>1
<1>6. IsInjective(new)
  BY <1>5 DEF IsInjective
<1>. QED
  BY <1>3, <1>6

\* What two sets of bills that have none in common are worth together.
LEMMA WorthOfBoth ==
    ASSUME NEW bs \in SUBSET AnyBill, IsFiniteSet(bs),
           NEW cs \in SUBSET AnyBill, IsFiniteSet(cs), bs \cap cs = {}
    PROVE  /\ IsFiniteSet(bs \cup cs)
           /\ SumOfAmounts(bs \cup cs) = SumOfAmounts(bs) + SumOfAmounts(cs)
<1>1. \A b \in bs \cup cs : Worth[b] \in Int
  <2>1. \A b \in AnyBill : Worth[b] \in Int
    BY DEF AnyBill, Worth
  <2>. QED
    BY <2>1
<1>2. /\ IsFiniteSet(bs \cup cs)
      /\ SumFunctionOnSet(Worth, bs \cup cs)
           = SumFunctionOnSet(Worth, bs) + SumFunctionOnSet(Worth, cs)
  BY <1>1, SumOfUnion
<1>3. bs \cup cs \in SUBSET AnyBill
  OBVIOUS
<1>. QED
  BY <1>2, <1>3, SumOfAmountsIsSum

\* The invariant of the supply.
Funded == Counted /\ IsFiniteSet(bills) /\ CashIsBacked /\ cash_minted \in Nat

LEMMA InitFunded == CashInit => Funded
<1>. SUFFICES ASSUME CashInit PROVE Funded
  OBVIOUS
<1>1. Counted
  BY InitCounted
<1>2. PICK bs \in BoundedSeq(Bills, MaxWritten) :
        bills = Range(bs) /\ cash_minted = SumOfAmounts(bills)
  BY DEF CashInit, StateFrom, SetSerial
<1>3. bs \in Seq(Bills)
  BY CashAssumption, BoundedSeqs
<1>4. IsFiniteSet(DOMAIN bs)
  <2>1. PICK n \in Nat : DOMAIN bs = 1..n
    BY <1>3
  <2>. QED
    BY <2>1, FS_Interval
<1>5. IsFiniteSet(bills)
  BY <1>2, <1>4, FiniteRange
<1>6. bills \subseteq AnyBill
  BY <1>1, TypedBills DEF Counted
<1>7. SumOfAmounts(bills) \in Nat
  BY <1>5, <1>6, SumOfAmountsIsSum
<1>. QED
  BY <1>1, <1>2, <1>5, <1>7 DEF Funded, CashIsBacked

\* A mint adds to the bills what it adds to the money there may be.
LEMMA MintFunded ==
    ASSUME Funded, NEW u \in Owners, NEW a \in BillAmounts, MintBill(u, a)
    PROVE  IsFiniteSet(bills') /\ SumOfAmounts(bills') <= cash_minted' /\ cash_minted' \in Nat
<1>. DEFINE new == <<Bill(u, a, next_serial)>>
<1>0. CashTypeOK /\ IsFiniteSet(bills) /\ cash_minted \in Nat /\ SumOfAmounts(bills) <= cash_minted
  BY DEF Funded, Counted, CashIsBacked
<1>1. new \in Seq([owner : Owners, amount : BillAmounts, serial : Nat])
  BY <1>0 DEF CashTypeOK, Bill
<1>2. \A i \in DOMAIN new : new[i].serial = next_serial + i - 1
  BY <1>0 DEF CashTypeOK, Bill
<1>3. FreshBills(new)
  BY <1>1, <1>2 DEF FreshBills
<1>4. AnyBill = [owner : Owners, amount : Nat, serial : Nat] /\ BillAmounts \subseteq Nat
  BY CashAssumption DEF AnyBill
<1>5. new \in Seq(AnyBill)
  BY <1>0, <1>4 DEF CashTypeOK, Bill
<1>6. Total(new) = a
  <2>1. IsInjective(new)
    BY <1>0, <1>3, FreshAreNew
  <2>2. Total(new) = SumOfAmounts(Range(new))
    BY <1>5, <2>1, TotalOfDifferent
  <2>3. Range(new) = {Bill(u, a, next_serial)} /\ Bill(u, a, next_serial) \in AnyBill
    BY <1>0, <1>4 DEF Range, CashTypeOK, Bill
  <2>. DEFINE b == Bill(u, a, next_serial)
  <2>4. Worth[b] = a /\ a \in Int
    BY <1>4, <2>3 DEF Worth, Bill
  <2>5. {b} \subseteq AnyBill /\ IsFiniteSet({b}) /\ IsFiniteSet({}) /\ {} \cup {b} = {b}
    BY <2>3, FS_Singleton, FS_EmptySet
  <2>6. SumFunctionOnSet(Worth, {}) = 0
    BY SumByChoice, FS_EmptySet
  <2>. HIDE DEF b
  <2>7. SumFunctionOnSet(Worth, {} \cup {b}) = Worth[b] + SumFunctionOnSet(Worth, {})
    BY <2>4, <2>5, SumOfOneMore
  <2>8. SumFunctionOnSet(Worth, {b}) = a
    BY <2>4, <2>5, <2>6, <2>7
  <2>9. SumOfAmounts({b}) = a
    BY <2>5, <2>8, SumOfAmountsIsSum
  <2>. QED
    BY <2>2, <2>3, <2>9 DEF b
<1>7. bills' = bills \cup Range(new) /\ cash_minted' = cash_minted + a
  BY DEF MintBill, AddBills
<1>8. /\ Range(new) \subseteq AnyBill /\ IsFiniteSet(Range(new))
      /\ SumOfAmounts(Range(new)) = a
      /\ Range(new) \cap bills = {}
  <2>1. IsInjective(new) /\ Range(new) \cap bills = {}
    BY <1>0, <1>3, FreshAreNew
  <2>. QED
    BY <1>5, <1>6, <2>1, TotalOfDifferent
<1>. HIDE DEF new
<1>9. bills \subseteq AnyBill
  BY <1>0, TypedBills
<1>10. /\ IsFiniteSet(bills \cup Range(new))
       /\ SumOfAmounts(bills \cup Range(new)) = SumOfAmounts(bills) + a
  BY <1>0, <1>8, <1>9, WorthOfBoth
<1>11. SumOfAmounts(bills) \in Nat /\ a \in Nat
  BY <1>0, <1>4, <1>9, SumOfAmountsIsSum
<1>. QED
  BY <1>0, <1>7, <1>10, <1>11

\* A transfer receives no more than it spends, and spends each bill once.
LEMMA TransferFunded ==
    ASSUME Funded, NEW spends \in BillLists, TransferBills(spends)
    PROVE  IsFiniteSet(bills') /\ SumOfAmounts(bills') <= cash_minted' /\ cash_minted' \in Nat
<1>0. CashTypeOK /\ IsFiniteSet(bills) /\ cash_minted \in Nat /\ SumOfAmounts(bills) <= cash_minted
  BY DEF Funded, Counted, CashIsBacked
<1>1. bills \subseteq AnyBill /\ Bills \subseteq AnyBill
  BY <1>0, TypedBills
<1>2. PICK receives \in BillLists :
        /\ Numbered(receives)
        /\ Total(receives) <= Total(spends)
        /\ AddBills(bills \ Range(spends), receives)
  BY DEF TransferBills
<1>3. spends \in Seq(Bills) /\ receives \in Seq(Bills)
  BY CashAssumption, BoundedSeqs DEF BillLists
<1>4. spends \in Seq(AnyBill) /\ receives \in Seq(AnyBill)
  BY <1>1, <1>3, SeqMonotonic, Zenon
<1>5. FreshBills(receives)
  <2>1. Bills \subseteq [owner : Owners, amount : BillAmounts, serial : Nat]
    BY CashAssumption DEF Bills, Bill
  <2>2. receives \in Seq([owner : Owners, amount : BillAmounts, serial : Nat])
    BY <1>3, <2>1, SeqMonotonic, Zenon
  <2>. QED
    BY <1>2, <2>2 DEF FreshBills, Numbered
<1>. DEFINE gone == Range(spends)
            added == Range(receives)
            kept == bills \ gone
<1>6. IsInjective(spends) /\ gone \subseteq bills
  BY DEF TransferBills, Removable, Range
<1>7. IsInjective(receives) /\ added \cap bills = {}
  BY <1>0, <1>5, FreshAreNew
<1>8. /\ gone \subseteq AnyBill /\ IsFiniteSet(gone)
      /\ Total(spends) = SumOfAmounts(gone)
  BY <1>4, <1>6, TotalOfDifferent
<1>9. /\ added \subseteq AnyBill /\ IsFiniteSet(added)
      /\ Total(receives) = SumOfAmounts(added)
  BY <1>4, <1>7, TotalOfDifferent
<1>10. bills' = kept \cup added /\ cash_minted' = cash_minted
  BY <1>2 DEF TransferBills, AddBills
<1>11. IsFiniteSet(kept) /\ kept \subseteq AnyBill
  BY <1>0, <1>1, FS_Subset
<1>12. kept \cap added = {} /\ kept \cap gone = {} /\ kept \cup gone = bills
  BY <1>6, <1>7
<1>. HIDE DEF gone, added, kept
<1>13. /\ IsFiniteSet(kept \cup added)
       /\ SumOfAmounts(kept \cup added) = SumOfAmounts(kept) + SumOfAmounts(added)
  BY <1>9, <1>11, <1>12, WorthOfBoth
<1>14. SumOfAmounts(kept \cup gone) = SumOfAmounts(kept) + SumOfAmounts(gone)
  BY <1>8, <1>11, <1>12, WorthOfBoth
<1>15. SumOfAmounts(kept) \in Nat /\ SumOfAmounts(added) \in Nat /\ SumOfAmounts(gone) \in Nat
  BY <1>8, <1>9, <1>11, SumOfAmountsIsSum
<1>16. SumOfAmounts(added) <= SumOfAmounts(gone)
  BY <1>2, <1>8, <1>9
<1>17. SumOfAmounts(bills) = SumOfAmounts(kept) + SumOfAmounts(gone)
  BY <1>12, <1>14
<1>18. SumOfAmounts(bills') = SumOfAmounts(kept) + SumOfAmounts(added)
  BY <1>10, <1>13
<1>19. SumOfAmounts(bills') <= cash_minted
  BY <1>0, <1>15, <1>16, <1>17, <1>18
<1>. QED
  BY <1>0, <1>10, <1>13, <1>19

LEMMA FundedStep == Funded /\ [CashNext]_cashVars => Funded'
<1>. SUFFICES ASSUME Funded, [CashNext]_cashVars PROVE Funded'
  OBVIOUS
<1>1. Counted'
  BY CountedStep DEF Funded
<1>2. CASE CashNext
  <2>1. IsFiniteSet(bills') /\ SumOfAmounts(bills') <= cash_minted' /\ cash_minted' \in Nat
    <3>1. CASE \E u \in Owners, a \in BillAmounts : MintBill(u, a)
      BY <3>1, MintFunded
    <3>2. CASE \E spends \in BillLists : TransferBills(spends)
      BY <3>2, TransferFunded
    <3>. QED
      BY <1>2, <3>1, <3>2 DEF CashNext
  <2>2. CashIsBacked'
    BY <2>1 DEF CashIsBacked
  <2>. QED
    BY <1>1, <2>1, <2>2 DEF Funded
<1>3. CASE UNCHANGED cashVars
  <2>1. CashIsBacked' /\ IsFiniteSet(bills') /\ cash_minted' \in Nat
    BY <1>3 DEF Funded, CashIsBacked, cashVars
  <2>. QED
    BY <1>1, <2>1 DEF Funded
<1>. QED
  BY <1>2, <1>3

-----------------------------------------------------------------------------
(* Theorems about the machines *)

\* Clothes of any life and condition, worn, washed and dried any number of times in any
\* order, are tattered once they were used as often as they have life, and until then
\* in the condition that the last wearing or washing left.
THEOREM WornOut == MachineSpec => []ClothesWearOut
BY InitWorn, WornStep, PTL DEF MachineSpec, Worn

\* However the two switches are toggled, and from whatever positions, the first is what
\* its own toggles say, and the second, unless it was last toggled while the first was
\* on, is on exactly if it was toggled an odd number of times since the first went off.
THEOREM SecondFollowsFirst == MachineSpec => []SecondSwitchRule
<1>1. Ruled => SecondSwitchRule
  BY DEF Ruled, TogglesTell, SecondSwitchRule
<1>. QED
  BY <1>1, InitRuled, RuledStep, PTL DEF MachineSpec

\* The register holds the keys since the last Enter of the session, over any number of
\* cards, and is empty in the main menu.
THEOREM RegisterIsKeyed == MachineSpec => []RegisterSinceEnter
<1>1. Served => RegisterSinceEnter
  BY DEF Served, RegisterSinceEnter
<1>. QED
  BY <1>1, InitServed, ServedStep, PTL DEF MachineSpec

\* A session is authenticated exactly while the PIN of the card that was swiped last
\* was entered after it, whatever cards, digits and Enters came before.
THEOREM PinAuthenticates == MachineSpec => []AuthenticatedByPin
BY InitServed, ServedStep, ServedAuthenticated, PTL DEF MachineSpec

\* Cash leaves only for that PIN, as much as the digits after it stand for, cut to a
\* word, and never more than there is.
THEOREM CashForPin == MachineSpec => CashAgainstPin
<1>1. Served /\ [MachineNext]_machineVars =>
        [machine = "Atm" /\ state'.cash_inside # state.cash_inside =>
           /\ PinEntered
           /\ state.cash_inside - state'.cash_inside
                = Value(Keyed(LastEnter, Len(log) + 1)) % AtmWord
           /\ state'.cash_inside >= 0]_machineVars
  BY StepCash
<1>. QED
  BY <1>1, InitServed, ServedStep, PTL DEF MachineSpec, CashAgainstPin

-----------------------------------------------------------------------------
(* Theorems about bills *)

\* The bills in circulation are bills that were issued, numbered below the next
\* serial.
THEOREM BillsTyped == CashSpec => []CashTypeOK
BY AlwaysCounted, PTL DEF Counted

\* However bills are minted, split and merged, no two ever share a serial.
THEOREM SerialsStayUnique == CashSpec => []SerialsUnique
BY AlwaysCounted, PTL DEF Counted

\* No bill is spent twice: what left circulation never returns to it.
THEOREM SpentForGood == CashSpec => NeverRespent
<1>1. Counted /\ [CashNext]_cashVars => [bills' \cap (issued \ bills) = {}]_cashVars
  BY StepNeverRespends
<1>. QED
  BY <1>1, AlwaysCounted, PTL DEF CashSpec, NeverRespent

\* All bills in circulation together are worth no more than was written down at first
\* and minted since, however transfers split and merge them.
THEOREM MoneyIsMinted == CashSpec => []CashIsBacked
BY InitFunded, FundedStep, PTL DEF CashSpec, Funded
=============================================================================
