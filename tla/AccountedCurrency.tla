------------------------- MODULE AccountedCurrency -------------------------
(***************************************************************************)
(* The account-based currency of src/c1_state_machine/p4_accounted_        *)
(* currency.rs as a pure transition function: a state is a map from the    *)
(* users that have an account to their balances (HashMap<User, u64>), and  *)
(* NextState is AccountedCurrency::next_state.  Balances are machine       *)
(* words: MaxBalance stands for u64::MAX, and the `+=` of the code wraps   *)
(* at it, as in a build without overflow checks.                           *)
(***************************************************************************)
EXTENDS Integers

CONSTANTS Users,       \* enum User
          MaxBalance   \* u64::MAX

ASSUME MaxBalanceAssumption == MaxBalance \in Nat

Balances == UNION {[owners -> 0..MaxBalance] : owners \in SUBSET Users}

\* BalancesB::default()
NoAccounts == [u \in {} |-> 0]

-----------------------------------------------------------------------------
(* AccountingTransaction *)

Mint(minter, amount) ==
    [kind |-> "Mint", minter |-> minter, amount |-> amount]

Burn(burner, amount) ==
    [kind |-> "Burn", burner |-> burner, amount |-> amount]

Transfer(sender, receiver, amount) ==
    [kind |-> "Transfer", sender |-> sender, receiver |-> receiver, amount |-> amount]

TransactionsOf(amounts) ==
    {Mint(u, a) : u \in Users, a \in amounts}
    \cup {Burn(u, a) : u \in Users, a \in amounts}
    \cup {Transfer(s, r, a) : s \in Users, r \in Users, a \in amounts}

-----------------------------------------------------------------------------
BalanceOf(b, u) == IF u \in DOMAIN b THEN b[u] ELSE 0

Wrap(n) == n % (MaxBalance + 1)

\* entry(u).and_modify(|e| *e += a).or_insert(a)
Credit(b, u, a) ==
    [v \in DOMAIN b \cup {u} |-> IF v = u THEN Wrap(BalanceOf(b, u) + a) ELSE b[v]]

\* Takes `a` of at least as much from u; an account left with 0 is removed.
Debit(b, u, a) ==
    IF b[u] = a THEN [v \in DOMAIN b \ {u} |-> b[v]]
                ELSE [b EXCEPT ![u] = @ - a]

AfterMint(b, minter, a) == IF a = 0 THEN b ELSE Credit(b, minter, a)

\* A burn of the whole balance or more removes the account from a copy of the
\* map that is then dropped, and returns the state it was given (l. 82-87).
AfterBurn(b, burner, a) ==
    IF burner \in DOMAIN b /\ b[burner] > a
    THEN [b EXCEPT ![burner] = @ - a]
    ELSE b

\* Mutants of AfterTransfer: the balance is not checked; both balances are read
\* before either is written; a receiver without an account is not given one;
\* the receiver pays the sender.
MutTransferUnchecked(b, sender, receiver, a) ==
    IF sender \in DOMAIN b THEN Credit(Debit(b, sender, a), receiver, a) ELSE b

MutTransferStaleRead(b, sender, receiver, a) ==
    IF sender \in DOMAIN b /\ b[sender] >= a
    THEN [v \in DOMAIN b \cup {receiver} |->
            CASE v = receiver -> Wrap(BalanceOf(b, receiver) + a)
              [] v = sender /\ v # receiver -> b[v] - a
              [] OTHER -> b[v]]
    ELSE b

MutTransferToNobody(b, sender, receiver, a) ==
    IF sender \in DOMAIN b /\ b[sender] >= a
    THEN IF receiver \in DOMAIN b THEN Credit(Debit(b, sender, a), receiver, a)
                                  ELSE Debit(b, sender, a)
    ELSE b

MutTransferBackwards(b, sender, receiver, a) ==
    IF receiver \in DOMAIN b /\ b[receiver] >= a
    THEN Credit(Debit(b, receiver, a), sender, a)
    ELSE b

AfterTransfer(b, sender, receiver, a) ==
    IF sender \in DOMAIN b /\ b[sender] >= a
    THEN Credit(Debit(b, sender, a), receiver, a)
    ELSE b

NextState(b, t) ==
    CASE t.kind = "Mint" -> AfterMint(b, t.minter, t.amount)
      [] t.kind = "Burn" -> AfterBurn(b, t.burner, t.amount)
      [] t.kind = "Transfer" -> AfterTransfer(b, t.sender, t.receiver, t.amount)
=============================================================================
