--------------------------- MODULE CurrencyLedger ---------------------------
(***************************************************************************)
(* The currency driven as the blocks of a chain drive it: one transition   *)
(* after another, in an order nobody controls, from the empty ledger.      *)
(* `balances` is the state of the machine; `lastTx` and `minted` are       *)
(* history: the transition just executed and the sum of the amounts of all *)
(* Mint transitions so far (a mathematical integer, bounded by MaxMinted   *)
(* to keep the state space finite).                                        *)
(***************************************************************************)
EXTENDS AccountedCurrency, Functions

CONSTANTS Amounts,    \* the amounts a transition may carry
          MaxMinted   \* bound of the exploration

ASSUME AmountsAssumption == Amounts \subseteq 0..MaxBalance

VARIABLES balances, lastTx, minted

ledgerVars == <<balances, lastTx, minted>>

Transactions == TransactionsOf(Amounts)

NoTx == [kind |-> "None"]

LedgerInit == /\ balances = NoAccounts
              /\ lastTx = NoTx
              /\ minted = 0

ExecuteTx(t) ==
    /\ balances' = NextState(balances, t)
    /\ lastTx' = t
    /\ minted' = minted + (IF t.kind = "Mint" THEN t.amount ELSE 0)
    /\ minted' <= MaxMinted

LedgerNext == \E u, v \in Users, a \in Amounts :
                 \/ ExecuteTx(Mint(u, a))
                 \/ ExecuteTx(Burn(u, a))
                 \/ ExecuteTx(Transfer(u, v, a))

LedgerSpec == LedgerInit /\ [][LedgerNext]_ledgerVars

-----------------------------------------------------------------------------
(* What the ledger promises *)

Supply == SumFunction(balances)

\* Type correctness: every account belongs to a user and holds a u64.
TypeOK == /\ balances \in Balances
          /\ lastTx \in Transactions \cup {NoTx}
          /\ minted \in Nat

\* Money comes from minting only: whatever the order of mints, burns and
\* transfers, self-transfers and wrapped balances included, the accounts
\* together never hold more than was ever minted (next_state, p4:63-128).
NoMoneyFromNothing == Supply <= minted

\* As long as no more than u64::MAX was ever minted, no transfer changes the
\* supply: not when it empties the sender, creates the receiver or goes to the
\* sender itself (p4:95-126).
TransfersConserve ==
    [][lastTx'.kind = "Transfer" /\ minted <= MaxBalance => Supply' = Supply]_ledgerVars

Payer(t) == CASE t.kind = "Burn" -> t.burner
              [] t.kind = "Transfer" -> t.sender
              [] OTHER -> NoTx

\* Whose account a transition adds to, and how much.
Payee(t) == CASE t.kind = "Mint" -> t.minter
              [] t.kind = "Transfer" -> t.receiver
              [] OTHER -> NoTx

\* Nobody loses money by somebody else's transition: a balance falls only when
\* its owner burns or sends, or when what the owner is paid carries the balance
\* over u64::MAX and it wraps.
OnlyOwnerPays ==
    [][\A u \in Users :
         BalanceOf(balances', u) < BalanceOf(balances, u)
           => \/ Payer(lastTx') = u
              \/ /\ Payee(lastTx') = u
                 /\ BalanceOf(balances, u) + lastTx'.amount > MaxBalance]_ledgerVars

-----------------------------------------------------------------------------
(* What the comments and tests of p4 say and the code does not do *)

\* The comment on Burn (p4:46-48): a burn of more than the balance burns all
\* of it and removes the account.
OverburnRemovesAccount ==
    [][lastTx'.kind = "Burn" /\ lastTx'.amount > BalanceOf(balances, lastTx'.burner)
         => lastTx'.burner \notin DOMAIN balances']_ledgerVars
=============================================================================
