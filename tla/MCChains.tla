------------------------------ MODULE MCChains ------------------------------
(* Chains of up to four blocks, one of them changed, left out, repeated or swapped. *)
EXTENDS Chains

MCExtrinsics == {1, 2}
MCBodies == {<<>>, <<1>>, <<2, 1>>}
MCNonces == {0, 1, 2, 3}
MCStartStates(l) ==
    CASE l = "header_chain" -> {Unit}
      [] SumInHeader(l) -> {0}
      [] l = "rich_state" -> {[sum |-> 0, product |-> 1]}
      [] l = "client" -> {1}
MCBuiltLengths == {3}
MCDefaultDigest == 0

\* Any function of a header would do.  At each height one in two nonces hashes low,
\* and those low hashes differ in their parity and their work.
MCLowHash(h) == (h.consensus_digest + h.height) % 2 = 0
MCEvenHash(h) == h.consensus_digest \in {0, 3}
MCWork(h) == h.consensus_digest + 1

\* The state machine of the client's chains: not commutative.
MCNextOf(s, x) == (2 * s + x) % Word
=============================================================================
