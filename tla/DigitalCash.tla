---------------------------- MODULE DigitalCash ----------------------------
(***************************************************************************)
(* The paper cash of src/c1_state_machine/p5_digital_cash.rs: a set of     *)
(* bills, each spent as a whole.  `bills` and `next_serial` are the State  *)
(* of the machine; `issued`, every bill that was ever put in circulation,  *)
(* and `cash_minted`, all the money there may be, are history.  Serials    *)
(* are u64 and count up one by one, so that they do not overflow in any    *)
(* run.                                                                    *)
(***************************************************************************)
EXTENDS FiniteSetsExt, Functions, SequencesExt

CONSTANTS Owners,       \* enum User
          BillAmounts,  \* amounts on bills, 0 among them
          MaxSerial,    \* bounds of the exploration: bills ever issued
          MaxBills,     \* bills on each side of a transfer
          MaxWritten    \* and in a state that is written down

ASSUME CashAssumption ==
    /\ BillAmounts \subseteq Nat
    /\ MaxSerial \in Nat
    /\ MaxBills \in Nat
    /\ MaxWritten \in 0..MaxSerial

VARIABLES bills, next_serial, issued, cash_minted

cashVars == <<bills, next_serial, issued, cash_minted>>

Bill(owner, amount, serial) == [owner |-> owner, amount |-> amount, serial |-> serial]

\* Whatever users may write on the bills of a transfer.
Bills == {Bill(u, a, s) : u \in Owners, a \in BillAmounts, s \in 0..MaxSerial}

BillLists == BoundedSeq(Bills, MaxBills)

SumOfAmounts(bs) == MapThenSumSet(LAMBDA b : b.amount, bs)

\* State::from: a new state with add_bill of each.  The next serial is the number of
\* bills, whatever serials they carry.
StateFrom(bs) == [bills |-> Range(bs), next_serial |-> Len(bs)]

\* set_serial.
SetSerial(state, serial) == [state EXCEPT !.next_serial = serial]

\* A state written down, as the tests do it: bills with serials of their own, and
\* where these are not 0, 1, and so on, the next serial set above them.
Proper(state) ==
    /\ \A b \in state.bills : b.serial < state.next_serial
    /\ \A b, c \in state.bills : b.serial = c.serial => b = c

CashInit ==
    \E bs \in BoundedSeq(Bills, MaxWritten), serial \in 0..MaxSerial :
    \E state \in {StateFrom(bs), SetSerial(StateFrom(bs), serial)} :
        /\ Proper(state)
        /\ bills = state.bills /\ next_serial = state.next_serial
        /\ issued = bills
        /\ cash_minted = SumOfAmounts(bills)

\* Mutant of AddBills: one serial for all.
MutOneSerial(kept, new) ==
    /\ bills' = kept \cup Range(new)
    /\ next_serial' = next_serial + 1
    /\ issued' = issued \cup Range(new)

\* add_bill of each, on a copy of the state with these bills left.
AddBills(kept, new) ==
    /\ bills' = kept \cup Range(new)
    /\ next_serial' = next_serial + Len(new)
    /\ issued' = issued \cup Range(new)

MintBill(minter, amount) ==
    /\ next_serial < MaxSerial
    /\ AddBills(bills, <<Bill(minter, amount, next_serial)>>)
    /\ cash_minted' = cash_minted + amount

\* Mutant of Removable: a bill may be handed in twice.
MutTwice(spends) == \A i \in DOMAIN spends : spends[i].amount >= 1 /\ spends[i] \in bills

\* remove finds each of them, none a second time.
Removable(spends) ==
    /\ \A i \in DOMAIN spends : spends[i].amount >= 1 /\ spends[i] \in bills
    /\ IsInjective(spends)

\* Mutants of Numbered: serials are not checked; they are only compared with the
\* next one.
MutAnySerial(receives) == \A i \in DOMAIN receives : receives[i].amount >= 1
MutOldSerial(receives) ==
    \A i \in DOMAIN receives :
        receives[i].amount >= 1 /\ receives[i].serial < next_serial + i

\* Each carries the serial that is next when it is added.
Numbered(receives) ==
    \A i \in DOMAIN receives :
        receives[i].amount >= 1 /\ receives[i].serial = next_serial + i - 1

\* The sum of the amounts, in u128: it does not overflow.
Total(bs) == FoldLeft(LAMBDA n, b : n + b.amount, 0, bs)

\* A transfer that fails any of the checks leaves the state as it was.
TransferBills(spends) ==
    /\ Removable(spends)
    /\ \E receives \in BillLists :
        /\ Numbered(receives)
        /\ Total(receives) <= Total(spends)
        /\ next_serial + Len(receives) <= MaxSerial
        /\ AddBills(bills \ Range(spends), receives)
    /\ cash_minted' = cash_minted

CashNext == \/ \E u \in Owners, a \in BillAmounts : MintBill(u, a)
            \/ \E spends \in BillLists : TransferBills(spends)

CashSpec == CashInit /\ [][CashNext]_cashVars

-----------------------------------------------------------------------------
(* What the cash system promises *)

\* Bills in circulation were issued, with a serial below the next one.
CashTypeOK ==
    /\ next_serial \in Nat
    /\ bills \subseteq issued
    /\ issued \subseteq [owner : Owners, amount : BillAmounts, serial : 0..next_serial - 1]

\* "It also has serial number to ensure that each bill is unique" (p5:13-14): no
\* two bills ever issued share one, whether minted or received, in this transfer
\* or in an earlier one.
SerialsUnique == \A b, c \in issued : b.serial = c.serial => b = c

\* A bill that was spent never circulates again: no mint and no transfer, of
\* whatever bills, brings back one that is gone (p5:117-137).
NeverRespent == [][bills' \cap (issued \ bills) = {}]_cashVars

\* Money comes from minting only, or was there: a transfer cannot hand in a bill twice,
\* one that is gone or one of another amount, nor receive more than it spends.
CashIsBacked == SumOfAmounts(bills) <= cash_minted
=============================================================================
