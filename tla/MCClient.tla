------------------------------ MODULE MCClient ------------------------------
(* The client of the repository's tests and one whose engine cannot seal every block. *)
EXTENDS Nodes

mint == Currency!Mint("Alice", 2)
pay == Currency!Transfer("Alice", "Bob", 1)
burn == Currency!Burn("Alice", 1)

MCTxs == {mint, pay, burn}
MCDefaultState == Currency!NoAccounts
MCGenesisStates == {Currency!Credit(MCDefaultState, "Bob", 3)}
MCNodes == {TestClient(TRUE), EvenClient(FALSE)}
MCOddStates == {b \in Currency!Balances : DOMAIN b = {"Alice"}}
MCNonces == {0, 2}
MCBodies == {<<>>, <<mint>>, <<mint, pay>>}
MCOfferedDigests == {1, 2}
MCDefaultDigest == 0
=============================================================================
