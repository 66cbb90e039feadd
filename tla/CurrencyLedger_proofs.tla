----------------------- MODULE CurrencyLedger_proofs -----------------------
(***************************************************************************)
(* For any users, any word and any order of transitions: balances stay     *)
(* words of users, nobody's balance falls by another's transition, all     *)
(* accounts together hold no more than was minted, and a transfer changes  *)
(* nothing of that.                                                        *)
(***************************************************************************)
EXTENDS CurrencyLedger, Collections_proofs

-----------------------------------------------------------------------------
(* Words and maps *)

LEMMA Remainder == ASSUME NEW n \in Nat, NEW d \in Nat \ {0} PROVE n % d \in 0..d - 1
OBVIOUS

LEMMA WrapIsWord == ASSUME NEW n \in Nat PROVE Wrap(n) \in 0..MaxBalance
<1> DEFINE words == MaxBalance + 1
<1>1. words \in Nat \ {0} /\ words - 1 = MaxBalance
  BY MaxBalanceAssumption
<1> HIDE DEF words
<1>2. n % words \in 0..MaxBalance
  BY <1>1, Remainder
<1>. QED
  BY <1>2 DEF Wrap, words

LEMMA WrapOfWord == ASSUME NEW n \in 0..MaxBalance PROVE Wrap(n) = n
BY MaxBalanceAssumption DEF Wrap

LEMMA BalancesDef ==
    ASSUME NEW b
    PROVE  b \in Balances <=> /\ DOMAIN b \subseteq Users
                              /\ b \in [DOMAIN b -> 0..MaxBalance]
<1>1. ASSUME b \in Balances PROVE DOMAIN b \subseteq Users /\ b \in [DOMAIN b -> 0..MaxBalance]
  <2>1. PICK owners \in SUBSET Users : b \in [owners -> 0..MaxBalance]
    BY <1>1 DEF Balances
  <2>. QED
    BY <2>1
<1>2. ASSUME DOMAIN b \subseteq Users, b \in [DOMAIN b -> 0..MaxBalance] PROVE b \in Balances
  BY <1>2 DEF Balances
<1>. QED
  BY <1>1, <1>2

LEMMA BalanceIsWord ==
    ASSUME NEW b \in Balances, NEW u PROVE BalanceOf(b, u) \in 0..MaxBalance
BY BalancesDef, MaxBalanceAssumption DEF BalanceOf

\* A credit changes the balance of its receiver alone, to the sum cut to a word.
LEMMA CreditEffect ==
    ASSUME NEW b \in Balances, NEW u \in Users, NEW a \in 0..MaxBalance
    PROVE  /\ Credit(b, u, a) \in Balances
           /\ BalanceOf(Credit(b, u, a), u) = Wrap(BalanceOf(b, u) + a)
           /\ \A v : v # u => BalanceOf(Credit(b, u, a), v) = BalanceOf(b, v)
<1>1. Wrap(BalanceOf(b, u) + a) \in 0..MaxBalance
  BY BalanceIsWord, WrapIsWord, MaxBalanceAssumption
<1>2. DOMAIN Credit(b, u, a) = DOMAIN b \cup {u}
  BY DEF Credit
<1>3. DOMAIN b \subseteq Users /\ b \in [DOMAIN b -> 0..MaxBalance]
  BY BalancesDef
<1>4. Credit(b, u, a) \in [DOMAIN b \cup {u} -> 0..MaxBalance]
  BY <1>1, <1>3 DEF Credit
<1>5. Credit(b, u, a) \in Balances
  BY <1>2, <1>3, <1>4, BalancesDef
<1>6. BalanceOf(Credit(b, u, a), u) = Wrap(BalanceOf(b, u) + a)
  BY <1>2 DEF Credit, BalanceOf
<1>7. ASSUME NEW v, v # u PROVE BalanceOf(Credit(b, u, a), v) = BalanceOf(b, v)
  BY <1>2, <1>7 DEF Credit, BalanceOf
<1>. QED
  BY <1>5, <1>6, <1>7

\* A debit takes its amount from its payer alone.
LEMMA DebitEffect ==
    ASSUME NEW b \in Balances, NEW u \in DOMAIN b, NEW a \in 0..MaxBalance, b[u] >= a
    PROVE  /\ Debit(b, u, a) \in Balances
           /\ BalanceOf(Debit(b, u, a), u) = BalanceOf(b, u) - a
           /\ \A v : v # u => BalanceOf(Debit(b, u, a), v) = BalanceOf(b, v)
<1>1. DOMAIN b \subseteq Users /\ b \in [DOMAIN b -> 0..MaxBalance]
  BY BalancesDef
<1>2. b[u] \in 0..MaxBalance /\ BalanceOf(b, u) = b[u]
  BY <1>1 DEF BalanceOf
<1>3. CASE b[u] = a
  <2>1. Debit(b, u, a) = [v \in DOMAIN b \ {u} |-> b[v]]
    BY <1>3 DEF Debit
  <2>2. Debit(b, u, a) \in Balances
    BY <1>1, <2>1, BalancesDef
  <2>. QED
    BY <1>2, <1>3, <2>1, <2>2, MaxBalanceAssumption DEF BalanceOf
<1>4. CASE b[u] # a
  <2>1. Debit(b, u, a) = [b EXCEPT ![u] = @ - a]
    BY <1>4 DEF Debit
  <2>2. b[u] - a \in 0..MaxBalance
    BY <1>2, MaxBalanceAssumption
  <2>3. Debit(b, u, a) \in Balances
    BY <1>1, <2>1, <2>2, BalancesDef
  <2>. QED
    BY <1>2, <2>1, <2>3 DEF BalanceOf
<1>. QED
  BY <1>3, <1>4

-----------------------------------------------------------------------------
(* The three transitions *)

\* What a transition may do to balances: they stay words of users, and a balance
\* that falls is the payer's, or one that passed the largest word when it was paid.
Fair(b, c, payer, payee, a) ==
    /\ c \in Balances
    /\ \A u \in Users : BalanceOf(c, u) < BalanceOf(b, u)
         => u = payer \/ (u = payee /\ BalanceOf(b, u) + a > MaxBalance)

LEMMA CreditNeverLowers ==
    ASSUME NEW n \in 0..MaxBalance, NEW a \in 0..MaxBalance, n + a <= MaxBalance
    PROVE  Wrap(n + a) = n + a /\ Wrap(n + a) >= n
BY WrapOfWord, MaxBalanceAssumption

LEMMA MintIsFair ==
    ASSUME NEW b \in Balances, NEW u \in Users, NEW a \in 0..MaxBalance, NEW payer
    PROVE  Fair(b, AfterMint(b, u, a), payer, u, a)
<1>1. CASE a = 0
  <2>1. \A v : BalanceOf(b, v) \in Int
    BY BalanceIsWord, MaxBalanceAssumption
  <2>. QED
    BY <1>1, <2>1 DEF AfterMint, Fair
<1>2. CASE a # 0
  <2>1. AfterMint(b, u, a) = Credit(b, u, a)
    BY <1>2 DEF AfterMint
  <2>2. ASSUME NEW v \in Users, BalanceOf(Credit(b, u, a), v) < BalanceOf(b, v)
        PROVE  v = u /\ BalanceOf(b, v) + a > MaxBalance
    <3>1. BalanceOf(b, v) \in 0..MaxBalance
      BY BalanceIsWord
    <3>2. v = u
      BY <2>2, <3>1, CreditEffect, MaxBalanceAssumption
    <3>3. Wrap(BalanceOf(b, v) + a) < BalanceOf(b, v)
      BY <2>2, <3>2, CreditEffect
    <3>. QED
      BY <3>1, <3>2, <3>3, CreditNeverLowers, WrapIsWord, MaxBalanceAssumption
  <2>. QED
    BY <2>1, <2>2, CreditEffect DEF Fair
<1>. QED
  BY <1>1, <1>2

LEMMA BurnIsFair ==
    ASSUME NEW b \in Balances, NEW u \in Users, NEW a \in 0..MaxBalance, NEW payee
    PROVE  Fair(b, AfterBurn(b, u, a), u, payee, a)
<1>0. \A v : BalanceOf(b, v) \in Int
  BY BalanceIsWord, MaxBalanceAssumption
<1>1. CASE u \in DOMAIN b /\ b[u] > a
  <2>1. AfterBurn(b, u, a) = [b EXCEPT ![u] = @ - a]
    BY <1>1 DEF AfterBurn
  <2>2. DOMAIN b \subseteq Users /\ b \in [DOMAIN b -> 0..MaxBalance]
    BY BalancesDef
  <2>3. b[u] - a \in 0..MaxBalance
    BY <1>1, <2>2, MaxBalanceAssumption
  <2>4. AfterBurn(b, u, a) \in Balances
    BY <2>1, <2>2, <2>3, BalancesDef
  <2>5. \A v : v # u => BalanceOf(AfterBurn(b, u, a), v) = BalanceOf(b, v)
    BY <2>1 DEF BalanceOf
  <2>6. ASSUME NEW v \in Users, BalanceOf(AfterBurn(b, u, a), v) < BalanceOf(b, v) PROVE v = u
    BY <1>0, <2>5, <2>6
  <2>. QED
    BY <2>4, <2>6 DEF Fair
<1>2. CASE ~ (u \in DOMAIN b /\ b[u] > a)
  BY <1>0, <1>2 DEF AfterBurn, Fair
<1>. QED
  BY <1>1, <1>2

\* The sender may be the receiver: the credit is then to what the debit left.
LEMMA TransferIsFair ==
    ASSUME NEW b \in Balances, NEW s \in Users, NEW r \in Users, NEW a \in 0..MaxBalance
    PROVE  Fair(b, AfterTransfer(b, s, r, a), s, r, a)
<1>0. \A v : BalanceOf(b, v) \in 0..MaxBalance
  BY BalanceIsWord
<1>1. CASE s \in DOMAIN b /\ b[s] >= a
  <2> DEFINE d == Debit(b, s, a)
  <2>1. AfterTransfer(b, s, r, a) = Credit(d, r, a)
    BY <1>1 DEF AfterTransfer
  <2>2. /\ d \in Balances
        /\ \A v : v # s => BalanceOf(d, v) = BalanceOf(b, v)
    BY <1>1, DebitEffect
  <2> HIDE DEF d
  <2>3. /\ Credit(d, r, a) \in Balances
        /\ BalanceOf(Credit(d, r, a), r) = Wrap(BalanceOf(d, r) + a)
        /\ \A v : v # r => BalanceOf(Credit(d, r, a), v) = BalanceOf(d, v)
    BY <2>2, CreditEffect
  <2>4. ASSUME NEW v \in Users, v # s, BalanceOf(Credit(d, r, a), v) < BalanceOf(b, v)
        PROVE  v = r /\ BalanceOf(b, v) + a > MaxBalance
    <3>1. BalanceOf(d, v) = BalanceOf(b, v)
      BY <2>2, <2>4
    <3>2. v = r
      BY <1>0, <2>3, <2>4, <3>1, MaxBalanceAssumption
    <3>3. Wrap(BalanceOf(b, v) + a) < BalanceOf(b, v)
      BY <2>3, <2>4, <3>1, <3>2
    <3>. QED
      BY <1>0, <3>2, <3>3, CreditNeverLowers, WrapIsWord, MaxBalanceAssumption
  <2>. QED
    BY <2>1, <2>3, <2>4 DEF Fair
<1>2. CASE ~ (s \in DOMAIN b /\ b[s] >= a)
  BY <1>0, <1>2, MaxBalanceAssumption DEF AfterTransfer, Fair
<1>. QED
  BY <1>1, <1>2

-----------------------------------------------------------------------------
(* Steps *)

\* Every transition is fair to those whom it does not make pay.
LEMMA StepIsFair ==
    ASSUME TypeOK, LedgerNext
    PROVE  Fair(balances, balances', Payer(lastTx'), Payee(lastTx'), lastTx'.amount)
<1>. PICK u, v \in Users, a \in Amounts :
        ExecuteTx(Mint(u, a)) \/ ExecuteTx(Burn(u, a)) \/ ExecuteTx(Transfer(u, v, a))
  BY DEF LedgerNext
<1>0. a \in 0..MaxBalance /\ balances \in Balances
  BY AmountsAssumption DEF TypeOK
<1>1. CASE ExecuteTx(Mint(u, a))
  <2>1. /\ balances' = AfterMint(balances, u, a)
        /\ lastTx' = Mint(u, a)
    BY <1>1 DEF ExecuteTx, NextState, Mint
  <2>2. Payee(lastTx') = u /\ lastTx'.amount = a
    BY <2>1 DEF Payee, Mint
  <2>. QED
    BY <1>0, <2>1, <2>2, MintIsFair
<1>2. CASE ExecuteTx(Burn(u, a))
  <2>1. /\ balances' = AfterBurn(balances, u, a)
        /\ lastTx' = Burn(u, a)
    BY <1>2 DEF ExecuteTx, NextState, Burn
  <2>2. Payer(lastTx') = u /\ lastTx'.amount = a
    BY <2>1 DEF Payer, Burn
  <2>. QED
    BY <1>0, <2>1, <2>2, BurnIsFair
<1>3. CASE ExecuteTx(Transfer(u, v, a))
  <2>1. /\ balances' = AfterTransfer(balances, u, v, a)
        /\ lastTx' = Transfer(u, v, a)
    BY <1>3 DEF ExecuteTx, NextState, Transfer
  <2>2. Payer(lastTx') = u /\ Payee(lastTx') = v /\ lastTx'.amount = a
    BY <2>1 DEF Payer, Payee, Transfer
  <2>. QED
    BY <1>0, <2>1, <2>2, TransferIsFair
<1>. QED
  BY <1>1, <1>2, <1>3

LEMMA TypeInit == LedgerInit => TypeOK
<1>1. ASSUME LedgerInit PROVE TypeOK
  <2>1. balances = NoAccounts /\ DOMAIN NoAccounts = {}
    BY <1>1 DEF LedgerInit, NoAccounts
  <2>2. NoAccounts \in Balances
    BY <2>1, BalancesDef DEF NoAccounts
  <2>. QED
    BY <1>1, <2>1, <2>2 DEF LedgerInit, TypeOK
<1>. QED
  BY <1>1

LEMMA TypeStep == TypeOK /\ [LedgerNext]_ledgerVars => TypeOK'
<1>1. ASSUME TypeOK, LedgerNext PROVE TypeOK'
  <2>1. balances' \in Balances
    BY <1>1, StepIsFair DEF Fair
  <2>2. PICK t \in Transactions : ExecuteTx(t)
    BY <1>1 DEF LedgerNext, Transactions, TransactionsOf
  <2>3. t.kind = "Mint" => t.amount \in Nat
    BY AmountsAssumption, MaxBalanceAssumption
       DEF Transactions, TransactionsOf, Mint, Burn, Transfer
  <2>. QED
    BY <1>1, <2>1, <2>2, <2>3 DEF TypeOK, ExecuteTx
<1>2. ASSUME TypeOK, UNCHANGED ledgerVars PROVE TypeOK'
  BY <1>2 DEF TypeOK, ledgerVars
<1>. QED
  BY <1>1, <1>2

-----------------------------------------------------------------------------
(* The supply *)

\* The accounts of a ledger are finitely many, and their balances numbers: there is
\* a sum of them.
Summable(b) == b \in Balances /\ IsFiniteSet(DOMAIN b)

LEMMA SupplyIsSum ==
    ASSUME NEW b, Summable(b)
    PROVE  /\ SumFunction(b) = SumFunctionOnSet(b, DOMAIN b)
           /\ IsFiniteSet(DOMAIN b)
           /\ \A u \in DOMAIN b : b[u] \in Nat
           /\ SumFunction(b) \in Nat
<1>1. SumFunction(b) = SumFunctionOnSet(b, DOMAIN b)
  BY DEF SumFunction
<1>2. b \in [DOMAIN b -> 0..MaxBalance]
  BY BalancesDef DEF Summable
<1>3. \A u \in DOMAIN b : b[u] \in Nat
  BY <1>2, MaxBalanceAssumption
<1>. QED
  BY <1>1, <1>3, SumIsNat DEF Summable

\* Nobody has more than there is.
LEMMA PartOfSupply ==
    ASSUME NEW b, Summable(b), NEW u
    PROVE  BalanceOf(b, u) <= SumFunction(b)
<1>1. CASE u \in DOMAIN b
  BY <1>1, SupplyIsSum, PartOfSum DEF BalanceOf
<1>2. CASE u \notin DOMAIN b
  BY <1>2, SupplyIsSum DEF BalanceOf
<1>. QED
  BY <1>1, <1>2

\* A function of fewer or more accounts, one of them changed, added or removed.
LEMMA CreditSupply ==
    ASSUME NEW b, Summable(b), NEW u \in Users, NEW a \in 0..MaxBalance
    PROVE  /\ Summable(Credit(b, u, a))
           /\ SumFunction(Credit(b, u, a))
                = SumFunction(b) - BalanceOf(b, u) + Wrap(BalanceOf(b, u) + a)
<1>. DEFINE c == Credit(b, u, a)
            w == Wrap(BalanceOf(b, u) + a)
<1>1. c \in Balances
  BY CreditEffect DEF Summable
<1>2. /\ DOMAIN c = DOMAIN b \cup {u} /\ c[u] = w
      /\ \A v \in DOMAIN b : v # u => c[v] = b[v]
  BY DEF Credit
<1>3. IsFiniteSet(DOMAIN c)
  BY <1>2, FS_AddElement DEF Summable
<1>. HIDE DEF c, w
<1>4. Summable(c)
  BY <1>1, <1>3 DEF Summable
<1>5. /\ SumFunction(c) = SumFunctionOnSet(c, DOMAIN c)
      /\ \A v \in DOMAIN c : c[v] \in Int
      /\ SumFunction(b) = SumFunctionOnSet(b, DOMAIN b)
      /\ \A v \in DOMAIN b : b[v] \in Int
      /\ IsFiniteSet(DOMAIN b)
      /\ SumFunction(b) \in Int
  BY <1>4, SupplyIsSum
<1>6. CASE u \in DOMAIN b
  <2>1. DOMAIN c = DOMAIN b /\ BalanceOf(b, u) = b[u]
    BY <1>2, <1>6 DEF BalanceOf
  <2>2. SumFunctionOnSet(c, DOMAIN b) = SumFunctionOnSet(b, DOMAIN b) - b[u] + c[u]
    BY <1>2, <1>5, <1>6, <2>1, SumOfOneChanged
  <2>. QED
    BY <1>2, <1>4, <1>5, <2>1, <2>2 DEF c, w
<1>7. CASE u \notin DOMAIN b
  <2>1. BalanceOf(b, u) = 0
    BY <1>7 DEF BalanceOf
  <2>2. SumFunctionOnSet(c, DOMAIN b) = SumFunctionOnSet(b, DOMAIN b)
    BY <1>2, <1>5, <1>7, SumOfSame
  <2>3. u \in DOMAIN c /\ c[u] \in Int /\ \A v \in DOMAIN b : c[v] \in Int
    BY <1>2, <1>5
  <2>4. SumFunctionOnSet(c, DOMAIN b \cup {u}) = c[u] + SumFunctionOnSet(c, DOMAIN b)
    BY <1>5, <1>7, <2>3, SumOfOneMore
  <2>5. SumFunction(c) = SumFunction(b) - 0 + c[u]
    BY <1>2, <1>5, <2>2, <2>3, <2>4
  <2>. QED
    BY <1>2, <1>4, <2>1, <2>5 DEF c, w
<1>. QED
  BY <1>6, <1>7

LEMMA LessSupply ==
    ASSUME NEW b, Summable(b), NEW u \in DOMAIN b, NEW a \in 0..MaxBalance, b[u] >= a
    PROVE  /\ Summable([b EXCEPT ![u] = @ - a])
           /\ SumFunction([b EXCEPT ![u] = @ - a]) = SumFunction(b) - a
<1>. DEFINE c == [b EXCEPT ![u] = @ - a]
<1>1. DOMAIN b \subseteq Users /\ b \in [DOMAIN b -> 0..MaxBalance]
  BY BalancesDef DEF Summable
<1>2. b[u] - a \in 0..MaxBalance
  BY <1>1, MaxBalanceAssumption
<1>3. /\ DOMAIN c = DOMAIN b /\ c[u] = b[u] - a
      /\ \A v \in DOMAIN b : v # u => c[v] = b[v]
      /\ c \in [DOMAIN b -> 0..MaxBalance]
  BY <1>1, <1>2
<1>. HIDE DEF c
<1>4. Summable(c)
  BY <1>1, <1>3, BalancesDef DEF Summable
<1>5. /\ SumFunction(c) = SumFunctionOnSet(c, DOMAIN b)
      /\ \A v \in DOMAIN b : c[v] \in Int
      /\ SumFunction(b) = SumFunctionOnSet(b, DOMAIN b)
      /\ \A v \in DOMAIN b : b[v] \in Int
      /\ IsFiniteSet(DOMAIN b)
      /\ SumFunction(b) \in Int
  BY <1>3, <1>4, SupplyIsSum
<1>6. SumFunctionOnSet(c, DOMAIN b) = SumFunctionOnSet(b, DOMAIN b) - b[u] + c[u]
  BY <1>3, <1>5, SumOfOneChanged
<1>7. SumFunction(c) = SumFunction(b) - a
  BY <1>3, <1>5, <1>6, MaxBalanceAssumption
<1>. QED
  BY <1>4, <1>7 DEF c

LEMMA DebitSupply ==
    ASSUME NEW b, Summable(b), NEW u \in DOMAIN b, NEW a \in 0..MaxBalance, b[u] >= a
    PROVE  /\ Summable(Debit(b, u, a))
           /\ SumFunction(Debit(b, u, a)) = SumFunction(b) - a
<1>1. CASE b[u] = a
  <2>. DEFINE c == [v \in DOMAIN b \ {u} |-> b[v]]
  <2>1. Debit(b, u, a) = c
    BY <1>1 DEF Debit
  <2>2. DOMAIN c = DOMAIN b \ {u} /\ \A v \in DOMAIN c : c[v] = b[v]
    OBVIOUS
  <2>3. c \in Balances
    BY <2>1, DebitEffect DEF Summable
  <2>4. IsFiniteSet(DOMAIN c)
    BY <2>2, FS_Subset DEF Summable
  <2>. HIDE DEF c
  <2>5. Summable(c)
    BY <2>3, <2>4 DEF Summable
  <2>6. /\ SumFunction(c) = SumFunctionOnSet(c, DOMAIN c)
        /\ SumFunction(b) = SumFunctionOnSet(b, DOMAIN b)
        /\ \A v \in DOMAIN b : b[v] \in Int
        /\ IsFiniteSet(DOMAIN b)
        /\ SumFunction(c) \in Int
    BY <2>5, SupplyIsSum
  <2>7. SumFunctionOnSet(c, DOMAIN c) = SumFunctionOnSet(b, DOMAIN c)
    BY <2>2, <2>4, SumOfSame
  <2>8. SumFunctionOnSet(b, DOMAIN b) = b[u] + SumFunctionOnSet(b, DOMAIN b \ {u})
    BY <2>6, SumTakesAny
  <2>9. SumFunction(c) = SumFunction(b) - a
    BY <1>1, <2>2, <2>6, <2>7, <2>8, MaxBalanceAssumption
  <2>. QED
    BY <2>1, <2>5, <2>9
<1>2. CASE b[u] # a
  BY <1>2, LessSupply DEF Debit
<1>. QED
  BY <1>1, <1>2

\* What is wrapped is never more than it was.
LEMMA WrapLowers == ASSUME NEW n \in Nat PROVE Wrap(n) \in Nat /\ Wrap(n) <= n
<1>1. Wrap(n) \in 0..MaxBalance
  BY WrapIsWord
<1>2. CASE n <= MaxBalance
  BY <1>2, WrapOfWord, MaxBalanceAssumption
<1>3. CASE n > MaxBalance
  BY <1>1, <1>3, MaxBalanceAssumption
<1>. QED
  BY <1>2, <1>3, MaxBalanceAssumption

LEMMA MintSupply ==
    ASSUME NEW b, Summable(b), NEW u \in Users, NEW a \in 0..MaxBalance
    PROVE  /\ Summable(AfterMint(b, u, a))
           /\ SumFunction(AfterMint(b, u, a)) <= SumFunction(b) + a
<1>1. SumFunction(b) \in Nat /\ BalanceOf(b, u) \in Nat /\ a \in Nat
  BY SupplyIsSum, BalanceIsWord, MaxBalanceAssumption DEF Summable
<1>2. CASE a = 0
  BY <1>1, <1>2 DEF AfterMint
<1>3. CASE a # 0
  <2>1. /\ Summable(Credit(b, u, a))
        /\ SumFunction(Credit(b, u, a))
             = SumFunction(b) - BalanceOf(b, u) + Wrap(BalanceOf(b, u) + a)
    BY CreditSupply
  <2>2. Wrap(BalanceOf(b, u) + a) \in Nat /\ Wrap(BalanceOf(b, u) + a) <= BalanceOf(b, u) + a
    BY <1>1, WrapLowers
  <2>. QED
    BY <1>1, <1>3, <2>1, <2>2 DEF AfterMint
<1>. QED
  BY <1>2, <1>3

LEMMA BurnSupply ==
    ASSUME NEW b, Summable(b), NEW u \in Users, NEW a \in 0..MaxBalance
    PROVE  /\ Summable(AfterBurn(b, u, a))
           /\ SumFunction(AfterBurn(b, u, a)) <= SumFunction(b)
<1>1. SumFunction(b) \in Nat
  BY SupplyIsSum
<1>2. CASE u \in DOMAIN b /\ b[u] > a
  <2>1. b[u] \in Nat /\ a \in Nat
    BY <1>2, SupplyIsSum, MaxBalanceAssumption
  <2>2. b[u] >= a
    BY <1>2, <2>1
  <2>3. AfterBurn(b, u, a) = [b EXCEPT ![u] = @ - a]
    BY <1>2 DEF AfterBurn
  <2>4. /\ Summable([b EXCEPT ![u] = @ - a])
        /\ SumFunction([b EXCEPT ![u] = @ - a]) = SumFunction(b) - a
    BY <1>2, <2>2, LessSupply
  <2>. QED
    BY <1>1, <2>1, <2>3, <2>4
<1>3. CASE ~ (u \in DOMAIN b /\ b[u] > a)
  BY <1>1, <1>3 DEF AfterBurn
<1>. QED
  BY <1>2, <1>3

\* A transfer loses money only if there is more than a word of it: otherwise the
\* receiver, who cannot have more than all the rest, is not paid past the largest word.
LEMMA TransferSupply ==
    ASSUME NEW b, Summable(b), NEW s \in Users, NEW r \in Users, NEW a \in 0..MaxBalance
    PROVE  /\ Summable(AfterTransfer(b, s, r, a))
           /\ SumFunction(AfterTransfer(b, s, r, a)) <= SumFunction(b)
           /\ SumFunction(b) <= MaxBalance
                => SumFunction(AfterTransfer(b, s, r, a)) = SumFunction(b)
<1>1. SumFunction(b) \in Nat /\ a \in Nat
  BY SupplyIsSum, MaxBalanceAssumption
<1>2. CASE s \in DOMAIN b /\ b[s] >= a
  <2>. DEFINE d == Debit(b, s, a)
  <2>1. Summable(d) /\ SumFunction(d) = SumFunction(b) - a
    BY <1>2, DebitSupply
  <2>2. AfterTransfer(b, s, r, a) = Credit(d, r, a)
    BY <1>2 DEF AfterTransfer
  <2>. HIDE DEF d
  <2>3. BalanceOf(d, r) \in Nat /\ BalanceOf(d, r) <= SumFunction(d)
    BY <2>1, PartOfSupply, BalanceIsWord, MaxBalanceAssumption DEF Summable
  <2>4. /\ Summable(Credit(d, r, a))
        /\ SumFunction(Credit(d, r, a)) = SumFunction(d) - BalanceOf(d, r) + Wrap(BalanceOf(d, r) + a)
    BY <2>1, CreditSupply
  <2>5. Wrap(BalanceOf(d, r) + a) \in Nat /\ Wrap(BalanceOf(d, r) + a) <= BalanceOf(d, r) + a
    BY <1>1, <2>3, WrapLowers
  <2>6. SumFunction(Credit(d, r, a)) <= SumFunction(b)
    BY <1>1, <2>1, <2>3, <2>4, <2>5
  <2>7. ASSUME SumFunction(b) <= MaxBalance
        PROVE  SumFunction(Credit(d, r, a)) = SumFunction(b)
    <3>1. BalanceOf(d, r) + a \in 0..MaxBalance
      BY <1>1, <2>1, <2>3, <2>7, MaxBalanceAssumption
    <3>2. Wrap(BalanceOf(d, r) + a) = BalanceOf(d, r) + a
      BY <3>1, WrapOfWord
    <3>. QED
      BY <1>1, <2>1, <2>3, <2>4, <3>2
  <2>. QED
    BY <2>2, <2>4, <2>6, <2>7
<1>3. CASE ~ (s \in DOMAIN b /\ b[s] >= a)
  BY <1>1, <1>3 DEF AfterTransfer
<1>. QED
  BY <1>2, <1>3

\* What was minted bounds what there is.  Sums need finitely many accounts: there are
\* no more than transitions.
Backed ==
    /\ IsFiniteSet(DOMAIN balances)
    /\ NoMoneyFromNothing

LEMMA StepBacked ==
    ASSUME TypeOK, Backed, LedgerNext
    PROVE  /\ Backed'
           /\ lastTx'.kind = "Transfer" /\ minted <= MaxBalance => Supply' = Supply
<1>. PICK u, v \in Users, a \in Amounts :
        ExecuteTx(Mint(u, a)) \/ ExecuteTx(Burn(u, a)) \/ ExecuteTx(Transfer(u, v, a))
  BY DEF LedgerNext
<1>0. /\ a \in 0..MaxBalance /\ a \in Nat /\ minted \in Nat /\ Summable(balances)
      /\ SumFunction(balances) \in Nat /\ SumFunction(balances) <= minted
  <2>1. Summable(balances)
    BY DEF TypeOK, Backed, Summable
  <2>. QED
    BY <2>1, SupplyIsSum, AmountsAssumption, MaxBalanceAssumption
       DEF TypeOK, Backed, NoMoneyFromNothing, Supply
<1>1. CASE ExecuteTx(Mint(u, a))
  <2>1. /\ balances' = AfterMint(balances, u, a)
        /\ minted' = minted + a
        /\ lastTx'.kind = "Mint"
    BY <1>1 DEF ExecuteTx, NextState, Mint
  <2>2. Summable(balances') /\ SumFunction(balances') <= SumFunction(balances) + a
    BY <1>0, <2>1, MintSupply
  <2>3. SumFunction(balances') \in Nat
    BY <2>2, SupplyIsSum
  <2>. QED
    BY <1>0, <2>1, <2>2, <2>3 DEF Backed, NoMoneyFromNothing, Supply, Summable
<1>2. CASE ExecuteTx(Burn(u, a))
  <2>1. /\ balances' = AfterBurn(balances, u, a)
        /\ minted' = minted + 0
        /\ lastTx'.kind = "Burn"
    BY <1>2 DEF ExecuteTx, NextState, Burn
  <2>2. Summable(balances') /\ SumFunction(balances') <= SumFunction(balances)
    BY <1>0, <2>1, BurnSupply
  <2>3. SumFunction(balances') \in Nat
    BY <2>2, SupplyIsSum
  <2>. QED
    BY <1>0, <2>1, <2>2, <2>3 DEF Backed, NoMoneyFromNothing, Supply, Summable
<1>3. CASE ExecuteTx(Transfer(u, v, a))
  <2>1. /\ balances' = AfterTransfer(balances, u, v, a)
        /\ minted' = minted + 0
    BY <1>3 DEF ExecuteTx, NextState, Transfer
  <2>2. /\ Summable(balances')
        /\ SumFunction(balances') <= SumFunction(balances)
        /\ SumFunction(balances) <= MaxBalance => SumFunction(balances') = SumFunction(balances)
    BY <1>0, <2>1, TransferSupply
  <2>3. SumFunction(balances') \in Nat
    BY <2>2, SupplyIsSum
  <2>4. minted <= MaxBalance => SumFunction(balances) <= MaxBalance
    BY <1>0, MaxBalanceAssumption
  <2>. QED
    BY <1>0, <2>1, <2>2, <2>3, <2>4 DEF Backed, NoMoneyFromNothing, Supply, Summable
<1>. QED
  BY <1>1, <1>2, <1>3

LEMMA AlwaysBacked == LedgerSpec => [](TypeOK /\ Backed)
<1>1. LedgerInit => Backed
  <2>1. ASSUME LedgerInit PROVE Backed
    <3>1. balances = NoAccounts /\ DOMAIN balances = {} /\ minted = 0
      BY <2>1 DEF LedgerInit, NoAccounts
    <3>2. IsFiniteSet(DOMAIN balances)
      BY <3>1, FS_EmptySet
    <3>3. SumFunction(balances) = 0
      BY <3>1, <3>2, SumByChoice DEF SumFunction
    <3>. QED
      BY <3>1, <3>2, <3>3 DEF Backed, NoMoneyFromNothing, Supply
  <2>. QED
    BY <2>1
<1>2. TypeOK /\ Backed /\ [LedgerNext]_ledgerVars => Backed'
  <2>1. ASSUME UNCHANGED ledgerVars, Backed PROVE Backed'
    BY <2>1 DEF ledgerVars, Backed, NoMoneyFromNothing, Supply
  <2>. QED
    BY <2>1, StepBacked
<1>. QED
  BY <1>1, <1>2, TypeInit, TypeStep, PTL DEF LedgerSpec

-----------------------------------------------------------------------------
(* Theorems *)

\* Whatever is minted, burnt and sent, every account holds a u64 and belongs to a
\* user: in particular no sequence of transitions overdraws an account.
THEOREM TypeCorrect == LedgerSpec => []TypeOK
BY TypeInit, TypeStep, PTL DEF LedgerSpec

\* A balance falls only if its owner burns or sends, or when it is paid past the
\* largest u64.
THEOREM NobodyPaysForOthers == LedgerSpec => OnlyOwnerPays
<1> DEFINE Step ==
        \A u \in Users :
            BalanceOf(balances', u) < BalanceOf(balances, u)
              => \/ Payer(lastTx') = u
                 \/ /\ Payee(lastTx') = u
                    /\ BalanceOf(balances, u) + lastTx'.amount > MaxBalance
<1>1. TypeOK /\ [LedgerNext]_ledgerVars => [Step]_ledgerVars
  BY StepIsFair DEF Fair
<1>. QED
  BY <1>1, TypeCorrect, PTL DEF LedgerSpec, OnlyOwnerPays

\* The accounts together never hold more than was minted, whoever transfers to whom,
\* himself included, and whatever wraps.
THEOREM MoneyIsMinted == LedgerSpec => []NoMoneyFromNothing
BY AlwaysBacked, PTL DEF Backed

\* While no more than the largest u64 was ever minted, a transfer moves money and
\* neither makes nor loses any.
THEOREM NothingLostInTransfer == LedgerSpec => TransfersConserve
<1> DEFINE Step == lastTx'.kind = "Transfer" /\ minted <= MaxBalance => Supply' = Supply
<1>1. TypeOK /\ Backed /\ [LedgerNext]_ledgerVars => [Step]_ledgerVars
  BY StepBacked
<1>. QED
  BY <1>1, AlwaysBacked, PTL DEF LedgerSpec, TransfersConserve
=============================================================================
