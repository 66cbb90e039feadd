----------------------------- MODULE Consensus -----------------------------
(***************************************************************************)
(* The consensus engines of src/c3_consensus: for each, whether `validate` *)
(* takes a header after a parent digest, and which digests `seal` may put  *)
(* on a partial header (none when it returns None or never returns).       *)
(*                                                                         *)
(* An engine is a record of its fields.  A header is what engines look at: *)
(* its height, its state root (a number, for its parity) and its digest.   *)
(* Digests carry their type: "u64" and "authority" are the plain ones,     *)
(* "Pow" and "Poa" the variants of PowOrPoaDigest.                         *)
(***************************************************************************)
EXTENDS Integers, SequencesExt

CONSTANTS Nonces,    \* what rand::random::<u32>() may draw
          MaxSlot    \* u64::MAX, for slot numbers

ASSUME NoncesAssumption == Nonces \subseteq Nat /\ MaxSlot \in Nat

Work(n) == <<"u64", n>>
Signature(a) == <<"authority", a>>
SlotDigest(slot, a) == <<"slot", slot, a>>
UnitDigest == <<"()">>

Header(height, root, digest) ==
    [height |-> height, state_root |-> root, consensus_digest |-> digest]

-----------------------------------------------------------------------------
(* (), Pow, DictatorConsensus, SimplePoa *)

Unit == [kind |-> "()", digest |-> "()"]
Pow(threshold) == [kind |-> "Pow", digest |-> "u64", threshold |-> threshold]
Dictator(a) == [kind |-> "DictatorConsensus", digest |-> "authority", dictator |-> a]
SimplePoa(authorities) ==
    [kind |-> "SimplePoa", digest |-> "authority", authorities |-> authorities]

\* The digest is compared with the threshold, not the hash of the header ...
PowValidates(e, h) == h.consensus_digest[2] < e.threshold

\* ... while seal looks for a low hash: any nonce that is drawn may have one.
PowSeals(e) == IF e.threshold = 0 THEN {} ELSE {Work(n) : n \in Nonces}

DictatorValidates(e, h) == h.consensus_digest = Signature(e.dictator)
DictatorSeals(e) == {Signature(e.dictator)}

SimplePoaValidates(e, h) == h.consensus_digest[2] \in Range(e.authorities)
SimplePoaSeals(e) == {Signature(e.authorities[1])}

-----------------------------------------------------------------------------
(* PoaRoundRobinByHeight *)

ByHeight(authorities) ==
    [kind |-> "PoaRoundRobinByHeight", digest |-> "authority", authorities |-> authorities]

\* Mutant of TurnAt: `height % len`, as if heights started at 0, with the last
\* authority skipped.
MutTurnSkipsLast(authorities, height) ==
    IF Len(authorities) = 1 THEN authorities[1]
    ELSE authorities[((height - 1) % (Len(authorities) - 1)) + 1]

TurnAt(authorities, height) == authorities[((height - 1) % Len(authorities)) + 1]

ByHeightValidates(e, h) == h.consensus_digest = Signature(TurnAt(e.authorities, h.height))
ByHeightSeals(e, partial) == {Signature(TurnAt(e.authorities, partial.height))}

-----------------------------------------------------------------------------
(* PoaRoundRobinBySlot *)

BySlot(authorities) ==
    [kind |-> "PoaRoundRobinBySlot", digest |-> "slot", authorities |-> authorities]

\* The authority after the parent's, not the one whose slot it is.
NextAuthority(authorities, a) ==
    LET pos == SelectInSeq(authorities, LAMBDA x : x = a)
    IN IF pos = Len(authorities) THEN authorities[1] ELSE authorities[pos + 1]

\* Mutant of BySlotValidates: a slot may be used twice.
MutSlotAgain(e, parentDigest, h) ==
    /\ parentDigest[2] <= h.consensus_digest[2]
    /\ h.consensus_digest[3] = NextAuthority(e.authorities, parentDigest[3])

BySlotValidates(e, parentDigest, h) ==
    /\ parentDigest[2] < h.consensus_digest[2]
    /\ h.consensus_digest[3] = NextAuthority(e.authorities, parentDigest[3])

BySlotSeals(e, parentDigest) ==
    {SlotDigest((parentDigest[2] + 1) % (MaxSlot + 1),
                NextAuthority(e.authorities, parentDigest[3]))}

-----------------------------------------------------------------------------
(* AlternatingPowPoa, on PowOrPoaDigest *)

Alternating(pow, poa) ==
    [kind |-> "AlternatingPowPoa", digest |-> "PowOrPoa", pow |-> pow, poa |-> poa]

\* TryFrom: the digest d as one of the given type, if it is one.
TryFrom(type, d) ==
    CASE d[1] = type -> {d}
      [] d[1] = "Pow" /\ type = "u64" -> {Work(d[2])}
      [] d[1] = "Poa" /\ type = "authority" -> {Signature(d[2])}
      [] d[1] \in {"Pow", "Poa"} /\ type = "PowOrPoa" -> {d}
      [] OTHER -> {}

\* From, its inverse.
From(type, d) ==
    CASE d[1] = "u64" /\ type = "PowOrPoa" -> <<"Pow", d[2]>>
      [] d[1] = "authority" /\ type = "PowOrPoa" -> <<"Poa", d[2]>>
      [] OTHER -> d

WithDigest(h, digest) == [h EXCEPT !.consensus_digest = digest]

\* Mutant of AlternatingValidates: the header's digest decides, not the parent's.
MutAnyKind(e, parentDigest, h) ==
    IF h.consensus_digest[1] = "Poa"
    THEN \E d \in TryFrom("authority", h.consensus_digest) : SimplePoaValidates(e.poa, WithDigest(h, d))
    ELSE \E d \in TryFrom("u64", h.consensus_digest) : PowValidates(e.pow, WithDigest(h, d))

AlternatingValidates(e, parentDigest, h) ==
    IF parentDigest[1] = "Pow"
    THEN \E d \in TryFrom("authority", h.consensus_digest) : SimplePoaValidates(e.poa, WithDigest(h, d))
    ELSE \E d \in TryFrom("u64", h.consensus_digest) : PowValidates(e.pow, WithDigest(h, d))

AlternatingSeals(e, parentDigest) ==
    {From("PowOrPoa", d) :
        d \in IF parentDigest[1] = "Pow" THEN SimplePoaSeals(e.poa) ELSE PowSeals(e.pow)}

-----------------------------------------------------------------------------
(* The engines above by name *)

ValidatesPlain(e, parentDigest, h) ==
    CASE e.kind = "()" -> TRUE
      [] e.kind = "Pow" -> PowValidates(e, h)
      [] e.kind = "DictatorConsensus" -> DictatorValidates(e, h)
      [] e.kind = "SimplePoa" -> SimplePoaValidates(e, h)
      [] e.kind = "PoaRoundRobinByHeight" -> ByHeightValidates(e, h)
      [] e.kind = "PoaRoundRobinBySlot" -> BySlotValidates(e, parentDigest, h)
      [] e.kind = "AlternatingPowPoa" -> AlternatingValidates(e, parentDigest, h)

SealsPlain(e, parentDigest, partial) ==
    CASE e.kind = "()" -> {UnitDigest}
      [] e.kind = "Pow" -> PowSeals(e)
      [] e.kind = "DictatorConsensus" -> DictatorSeals(e)
      [] e.kind = "SimplePoa" -> SimplePoaSeals(e)
      [] e.kind = "PoaRoundRobinByHeight" -> ByHeightSeals(e, partial)
      [] e.kind = "PoaRoundRobinBySlot" -> BySlotSeals(e, parentDigest)
      [] e.kind = "AlternatingPowPoa" -> AlternatingSeals(e, parentDigest)

-----------------------------------------------------------------------------
(* EvenOnly, over one of them *)

EvenOnly(inner) == [kind |-> "EvenOnly", digest |-> inner.digest, inner |-> inner]

IsEven(root) == root % 2 = 0

EvenValidates(e, parentDigest, h) ==
    IF e.kind = "EvenOnly"
    THEN IsEven(h.state_root) /\ ValidatesPlain(e.inner, parentDigest, h)
    ELSE ValidatesPlain(e, parentDigest, h)

\* Mutant of EvenSeals: seal leaves the check to validate.
MutSealsOdd(e, parentDigest, partial) ==
    SealsPlain(IF e.kind = "EvenOnly" THEN e.inner ELSE e, parentDigest, partial)

EvenSeals(e, parentDigest, partial) ==
    IF e.kind = "EvenOnly"
    THEN IF IsEven(partial.state_root) THEN SealsPlain(e.inner, parentDigest, partial) ELSE {}
    ELSE SealsPlain(e, parentDigest, partial)

-----------------------------------------------------------------------------
(* Forked, from one engine to another, and the four forks that are built of it *)

Forked(type, forkHeight, before, after) ==
    [kind |-> "Forked", digest |-> type, fork_height |-> forkHeight,
     before |-> before, after |-> after]

ChangeAuthorities(forkHeight, initial, final) ==
    Forked("authority", forkHeight, ByHeight(initial), ByHeight(final))

ChangeDifficulty(forkHeight, initial, final) ==
    Forked("u64", forkHeight, Pow(initial), Pow(final))

EvenAfterGivenHeight(forkHeight, original) ==
    Forked(original.digest, forkHeight, original, EvenOnly(original))

PowToPoa(forkHeight, difficulty, authorities) ==
    Forked("PowOrPoa", forkHeight, Pow(difficulty), ByHeight(authorities))

\* Which engine is asked.
RulesAt(e, height) == IF height < e.fork_height THEN e.before ELSE e.after

\* From the fork on, the result of `after` is dropped and the answer is no.
ForkedValidates(e, parentDigest, h) ==
    /\ h.height < e.fork_height
    /\ \E p \in TryFrom(e.before.digest, parentDigest), d \in TryFrom(e.before.digest, h.consensus_digest) :
          EvenValidates(e.before, p, WithDigest(h, d))

\* Mutants of ForkedSeals: seal drops the result of `after`, as validate does; the
\* fork comes one block late.
MutDropsAfter(e, parentDigest, partial) ==
    IF partial.height >= e.fork_height THEN {}
    ELSE {From(e.digest, d) :
            d \in UNION {EvenSeals(e.before, p, partial) :
                            p \in TryFrom(e.before.digest, parentDigest)}}

MutForksLate(e, parentDigest, partial) ==
    LET rules == RulesAt(e, partial.height - 1)
    IN {From(e.digest, d) :
            d \in UNION {EvenSeals(rules, p, partial) : p \in TryFrom(rules.digest, parentDigest)}}

ForkedSeals(e, parentDigest, partial) ==
    LET rules == RulesAt(e, partial.height)
    IN {From(e.digest, d) :
            d \in UNION {EvenSeals(rules, p, partial) : p \in TryFrom(rules.digest, parentDigest)}}

-----------------------------------------------------------------------------
(* The trait Consensus *)

Validates(e, parentDigest, h) ==
    IF e.kind = "Forked" THEN ForkedValidates(e, parentDigest, h)
                         ELSE EvenValidates(e, parentDigest, h)

Seals(e, parentDigest, partial) ==
    IF e.kind = "Forked" THEN ForkedSeals(e, parentDigest, partial)
                         ELSE EvenSeals(e, parentDigest, partial)

\* Every header is validated after the one given digest, the first one's parent's.
VerifySubChain(e, parentDigest, chain) ==
    \A i \in DOMAIN chain : Validates(e, parentDigest, chain[i])

\* Digest::default() of each digest type.
DigestOfGenesis(e) ==
    CASE e.digest = "()" -> UnitDigest
      [] e.digest = "u64" -> Work(0)
      [] e.digest = "authority" -> Signature("Alice")
      [] e.digest = "slot" -> SlotDigest(0, "Alice")
      [] e.digest = "PowOrPoa" -> <<"Pow", 0>>
=============================================================================
