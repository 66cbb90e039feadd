-------------------------------- MODULE Atm --------------------------------
(***************************************************************************)
(* The cash machine of src/c1_state_machine/p3_atm.rs: a card that is      *)
(* swiped brings the hash of its PIN, digits are keyed in and closed by    *)
(* Enter, first the PIN, then the amount.  Amounts are words of Word       *)
(* values (u64) and wrap, as in a build without overflow checks.           *)
(***************************************************************************)
EXTENDS Integers, FiniteSetsExt, SequencesExt

CONSTANTS Digits,        \* the digit keys to explore, of One to Four
          Cards,         \* the hashes on cards
          CashInside,    \* what the machine may be filled with
          AtmWord           \* number of values of a u64

ASSUME AtmAssumption ==
    /\ Digits \subseteq {"One", "Two", "Three", "Four"}
    /\ AtmWord \in Nat \ {0}
    /\ CashInside \subseteq 0..AtmWord - 1

\* crate::hash of a Vec<Key>, free of collisions.
HashKeys(keys) == <<"keys", keys>>

Waiting == <<"Waiting">>
Authenticating(pin_hash) == <<"Authenticating", pin_hash>>
Authenticated == <<"Authenticated">>

SwipeCard(pin_hash) == <<"SwipeCard", pin_hash>>
PressKey(key) == <<"PressKey", key>>
Enter == PressKey("Enter")

AtmActions == {SwipeCard(c) : c \in Cards} \cup {PressKey(k) : k \in Digits} \cup {Enter}

Atm(cash, auth, keys) ==
    [cash_inside |-> cash, auth_status |-> auth, keystroke_register |-> keys]

\* Mutant of AfterSwipe: a new card keeps the session of the last one.
MutSwipeKeepsSession(atm, pin_hash) ==
    IF atm.auth_status = Authenticated THEN atm
    ELSE [atm EXCEPT !.auth_status = Authenticating(pin_hash)]

\* In every state; what was keyed in stays in the register.
AfterSwipe(atm, pin_hash) == [atm EXCEPT !.auth_status = Authenticating(pin_hash)]

AfterDigit(atm, key) == [atm EXCEPT !.keystroke_register = Append(@, key)]

\* Mutant of AfterPin: only a right PIN clears the register.
MutKeepWrongPin(atm) ==
    IF atm.auth_status = Authenticating(HashKeys(atm.keystroke_register))
    THEN Atm(atm.cash_inside, Authenticated, <<>>)
    ELSE [atm EXCEPT !.auth_status = Waiting]

AfterPin(atm) ==
    Atm(atm.cash_inside,
        IF atm.auth_status = Authenticating(HashKeys(atm.keystroke_register))
        THEN Authenticated ELSE Waiting,
        <<>>)

DigitOf == [One |-> 1, Two |-> 2, Three |-> 3, Four |-> 4]

Amount(keys) == FoldLeft(LAMBDA acc, key : (acc * 10 + DigitOf[key]) % AtmWord, 0, keys)

\* Mutant of AfterAmount: the cash inside is not looked at.
MutGiveOnCredit(atm) ==
    Atm(atm.cash_inside - Amount(atm.keystroke_register), Waiting, <<>>)

AfterAmount(atm) ==
    LET amount == Amount(atm.keystroke_register)
    IN Atm(IF amount <= atm.cash_inside THEN atm.cash_inside - amount ELSE atm.cash_inside,
           Waiting, <<>>)

\* Atm::next_state.  In the main menu no key does anything.
AtmNext(atm, t) ==
    IF t[1] = "SwipeCard" THEN AfterSwipe(atm, t[2])
    ELSE CASE atm.auth_status = Waiting                    -> atm
           [] atm.auth_status # Waiting /\ t # Enter       -> AfterDigit(atm, t[2])
           [] atm.auth_status[1] = "Authenticating" /\ t = Enter -> AfterPin(atm)
           [] atm.auth_status = Authenticated /\ t = Enter -> AfterAmount(atm)
=============================================================================
