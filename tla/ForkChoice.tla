----------------------------- MODULE ForkChoice -----------------------------
(***************************************************************************)
(* The four fork choice rules of src/c4_client/p3_fork_choice.rs: what     *)
(* each remembers, what import_hook makes of it and which block best_block *)
(* names.  A BTreeMap is a function from its finite set of keys.  Weights  *)
(* are natural numbers: the code adds u64 (l. 104, 219), but the rule is   *)
(* shown sealed blocks, whose work is below 2^32 (c3 p1:36), so that it    *)
(* takes at least 2^32 of them for a sum to wrap.                          *)
(***************************************************************************)
EXTENDS Hashing, Maps, Integers, SequencesExt

EmptyMap == [w \in {} |-> NoBlock]

\* iter().last(): the value at the greatest key.
AtGreatestKey(m) == m[Max(DOMAIN m)]

-----------------------------------------------------------------------------
(* LongestChain *)

LongestInit == [best_header_height |-> 0, best_header_hash |-> ZeroHash]

LongestBest(fc) == fc.best_header_hash

\* Mutants of LongestHook: the last block of the greatest height wins; the last
\* block of any height does.
MutLongestLatest(fc, b) ==
    IF b.header.height >= fc.best_header_height
    THEN [best_header_height |-> b.header.height, best_header_hash |-> HashBlock(b)]
    ELSE fc

MutLongestAny(fc, b) ==
    [best_header_height |-> b.header.height, best_header_hash |-> HashBlock(b)]

LongestHook(fc, b) ==
    IF b.header.height > fc.best_header_height
    THEN [best_header_height |-> b.header.height, best_header_hash |-> HashBlock(b)]
    ELSE fc

-----------------------------------------------------------------------------
(* HeaviestChain and MostAliceSigs: weight -> hash of the chain's last block *)

\* The keys of the chains that end in this block.
EndingIn(fc, hash) == {w \in DOMAIN fc : fc[w] = hash}

\* best_block of HeaviestChain and of MostAliceSigs.
HeaviestBest(fc) == IF fc = EmptyMap THEN NoBlock ELSE AtGreatestKey(fc)

\* Mutant of HeaviestHook: the parent's work is counted twice.
MutHeaviestTwice(fc, b) ==
    LET ends == EndingIn(fc, b.header.parent)
        weight == Min(ends)
    IN IF ends = {}
       THEN Put(fc, b.header.consensus_digest, HashBlock(b))
       ELSE Put(Del(fc, weight), 2 * weight + b.header.consensus_digest, HashBlock(b))

HeaviestHook(fc, b) ==
    LET ends == EndingIn(fc, b.header.parent)
        weight == Min(ends)
    IN IF ends = {}
       THEN Put(fc, b.header.consensus_digest, HashBlock(b))
       ELSE Put(Del(fc, weight), weight + b.header.consensus_digest, HashBlock(b))

Alice == "Alice"

\* Mutant of MostAliceHook: a block of somebody else's restarts the count.
MutAliceRestarts(fc, b) ==
    LET ends == EndingIn(fc, b.header.parent)
        sigs == Min(ends)
    IN CASE ends = {} ->
              Put(fc, IF b.header.consensus_digest = Alice THEN 1 ELSE 0, HashBlock(b))
         [] ends # {} /\ b.header.consensus_digest = Alice ->
              Put(Del(fc, sigs), sigs + 1, HashBlock(b))
         [] ends # {} /\ b.header.consensus_digest # Alice ->
              Put(Del(fc, sigs), 0, HashBlock(b))

\* A child of somebody else's than Alice leaves its parent in place (l. 151-153).
MostAliceHook(fc, b) ==
    LET ends == EndingIn(fc, b.header.parent)
        sigs == Min(ends)
    IN CASE ends = {} ->
              Put(fc, IF b.header.consensus_digest = Alice THEN 1 ELSE 0, HashBlock(b))
         [] ends # {} /\ b.header.consensus_digest = Alice ->
              Put(Del(fc, sigs), sigs + 1, HashBlock(b))
         [] ends # {} /\ b.header.consensus_digest # Alice -> fc

-----------------------------------------------------------------------------
(* Ghost: cumulative weight -> the hashes counted in it, in the order they came *)

Containing(fc, hash) == {w \in DOMAIN fc : \E i \in DOMAIN fc[w] : fc[w][i] = hash}

GhostBest(fc) == IF fc = EmptyMap THEN NoBlock ELSE Last(AtGreatestKey(fc))

\* Mutant of GhostHook: the heaviest list grows, wherever the parent is.
MutGhostWrongList(fc, b) ==
    LET found == Containing(fc, b.header.parent)
        weight == Max(DOMAIN fc)
    IN IF found = {}
       THEN Put(fc, b.header.consensus_digest, <<HashBlock(b)>>)
       ELSE Put(Del(fc, weight), weight + b.header.consensus_digest,
                Append(fc[weight], HashBlock(b)))

GhostHook(fc, b) ==
    LET found == Containing(fc, b.header.parent)
        weight == Min(found)
    IN IF found = {}
       THEN Put(fc, b.header.consensus_digest, <<HashBlock(b)>>)
       ELSE Put(Del(fc, weight), weight + b.header.consensus_digest,
                Append(fc[weight], HashBlock(b)))

-----------------------------------------------------------------------------
(* The trait ForkChoice: its implementations by name *)

Rules == {"LongestChain", "HeaviestChain", "MostAliceSigs", "Ghost"}

DefaultOf(rule) == IF rule = "LongestChain" THEN LongestInit ELSE EmptyMap

ImportHook(rule, fc, b) ==
    CASE rule = "LongestChain" -> LongestHook(fc, b)
      [] rule = "HeaviestChain" -> HeaviestHook(fc, b)
      [] rule = "MostAliceSigs" -> MostAliceHook(fc, b)
      [] rule = "Ghost" -> GhostHook(fc, b)

BestBlock(rule, fc) ==
    CASE rule = "LongestChain" -> LongestBest(fc)
      [] rule \in {"HeaviestChain", "MostAliceSigs"} -> HeaviestBest(fc)
      [] rule = "Ghost" -> GhostBest(fc)
=============================================================================
