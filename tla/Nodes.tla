------------------------------- MODULE Nodes -------------------------------
(***************************************************************************)
(* Clients put together from the parts that the repository has: engines of *)
(* module Consensus, the account-based currency, the fork choice rules and *)
(* the pools.                                                              *)
(***************************************************************************)
EXTENDS Client

CONSTANTS Nonces,       \* what rand::random::<u32>() may draw
          Threshold,    \* of the proof of work, u64::MAX / 10
          OddStates     \* the states whose root is an odd number

Engines == INSTANCE Consensus WITH MaxSlot <- 0

Currency == INSTANCE AccountedCurrency WITH Users <- {"Alice", "Bob"}, MaxBalance <- 3

NextBalances(s, t) == Currency!NextState(s, t)

-----------------------------------------------------------------------------
(* Engines.  Their digests are numbers: the nonces. *)

\* A header as engines see it.
Shown(h) ==
    Engines!Header(h.height, IF h.state_root \in {HashState(s) : s \in OddStates} THEN 1 ELSE 0,
                   Engines!Work(h.consensus_digest))

NodeValidate(engine, parentDigest, h) ==
    Engines!Validates(engine, Engines!Work(parentDigest), Shown(h))

NodeSeals(engine, parentDigest, partial) ==
    {d[2] : d \in Engines!Seals(engine, Engines!Work(parentDigest), Shown(partial))}

-----------------------------------------------------------------------------
(* Pools *)

\* prioritizer.
Priority(t) == CASE t.kind = "Transfer" -> 6 [] t.kind = "Mint" -> 5 [] t.kind = "Burn" -> 4

PriorityPool(minimum) == [kind |-> "PriorityPool", minimum_priority |-> minimum]
CensoringPool(kinds) == [kind |-> "CensoringPool", might_be_terrorist |-> kinds]

NodeTryInsert(p, q, t) ==
    CASE p.kind = "PriorityPool" ->
           IF Priority(t) < p.minimum_priority THEN q
           ELSE PriorityInsert(q, t, {i \in DOMAIN q : Priority(q[i]) < Priority(t)})
      [] p.kind = "CensoringPool" ->
           IF t.kind \in p.might_be_terrorist THEN q ELSE PushBack(q, t)

-----------------------------------------------------------------------------
\* init_client_for_test, whose tests show the rule their first block.
TestClient(shown) ==
    [engine |-> Engines!Pow(Threshold), rule |-> "Ghost", pool |-> PriorityPool(4),
     shown |-> shown]

\* One whose engine cannot seal every block.
EvenClient(shown) ==
    [engine |-> Engines!EvenOnly(Engines!Pow(Threshold)), rule |-> "LongestChain",
     pool |-> CensoringPool({"Burn"}), shown |-> shown]
=============================================================================
