------------------------- MODULE SealedChain_proofs -------------------------
(***************************************************************************)
(* For every set of engines, whatever their authorities, thresholds and    *)
(* fork heights, and every length of chain: heights count, what is sealed  *)
(* is valid, turns by height are taken, slots go up, kinds of seals        *)
(* alternate, the rules in force are obeyed, and the fork from work to     *)
(* signatures is never crossed.                                            *)
(***************************************************************************)
EXTENDS SealedChain, TLAPS

-----------------------------------------------------------------------------
(* Engines *)

\* The types of digests.
LEMMA EngineTypes ==
    ASSUME NEW e, IsEngine(e)
    PROVE  e.digest \in {"()", "u64", "authority", "slot", "PowOrPoa"}
BY DEF IsEngine, IsPlain, PlainKinds, DigestType

LEMMA EnginesDoNotFork ==
    ASSUME NEW e, IsEngine(e)
    PROVE  e.kind # "Forked"
BY DEF IsEngine, IsPlain, PlainKinds

\* What the assumption says of engines of two kinds of digests and of forks.
LEMMA EngineFacts ==
    ASSUME NEW e \in Engines
    PROVE  /\ e.kind = "AlternatingPowPoa" => e.digest = "PowOrPoa"
           /\ e.kind = "Forked" => IsFork(e) /\ 0 < e.fork_height
           /\ e.kind = "Forked" /\ e.digest # e.before.digest =>
                 /\ e.digest = "PowOrPoa"
                 /\ e.before.kind = "Pow" /\ e.before.digest = "u64"
                 /\ e.after.kind = "PoaRoundRobinByHeight" /\ e.after.digest = "authority"
<1>1. CASE IsEngine(e)
  BY <1>1 DEF IsEngine, IsPlain, PlainKinds, DigestType
<1>2. CASE IsFork(e)
  <2>1. e.kind = "Forked" /\ 0 < e.fork_height
    BY <1>2 DEF IsFork
  <2>2. ASSUME e.digest # e.before.digest
        PROVE  /\ e.digest = "PowOrPoa"
               /\ e.before.kind = "Pow" /\ e.before.digest = "u64"
               /\ e.after.kind = "PoaRoundRobinByHeight" /\ e.after.digest = "authority"
    <3>1. /\ e.digest = "PowOrPoa" /\ IsEngine(e.before) /\ IsEngine(e.after)
          /\ e.before.kind = "Pow" /\ e.after.kind = "PoaRoundRobinByHeight"
      BY <1>2, <2>2 DEF IsFork
    <3>. QED  BY <3>1 DEF IsEngine, IsPlain, DigestType
  <2>. QED  BY <1>2, <2>1, <2>2
<1>. QED
  BY <1>1, <1>2, ChainAssumption

LEMMA Authorities ==
    ASSUME NEW auth, IsAuthorities(auth)
    PROVE  Len(auth) \in Nat \ {0} /\ DOMAIN auth = 1..Len(auth)
<1>1. PICK S : auth \in Seq(S)
  BY DEF IsAuthorities
<1>2. Len(auth) > 0
  BY DEF IsAuthorities
<1>. QED
  BY <1>1, <1>2

-----------------------------------------------------------------------------
(* Digests and their types *)

\* A digest of the given type; slots are u64.
HasType(type, d) ==
    /\ d[1] \in IF type = "PowOrPoa" THEN {"Pow", "Poa"} ELSE {type}
    /\ d[1] = "slot" => d[2] \in 0..MaxSlot

\* The digest of genesis is of the engine's type.
LEMMA GenesisTyped ==
    ASSUME NEW e \in Engines
    PROVE  HasType(e.digest, DigestOfGenesis(e))
<1>1. e.digest \in {"()", "u64", "authority", "slot", "PowOrPoa"}
  BY ChainAssumption, EngineTypes DEF IsFork
<1>2. 0 \in 0..MaxSlot
  BY NoncesAssumption
<1>. QED
  BY <1>1, <1>2 DEF HasType, DigestOfGenesis, UnitDigest, Work, Signature, SlotDigest

\* TryFrom and From keep what a digest carries, and From undoes TryFrom.
LEMMA Converts ==
    ASSUME NEW type, NEW d, NEW q \in TryFrom(type, d)
    PROVE  q[2] = d[2] /\ (q = d \/ d[1] \in {"Pow", "Poa"})
BY DEF TryFrom, Work, Signature

LEMMA FromKeepsType ==
    ASSUME NEW type \in {"()", "u64", "authority", "slot", "PowOrPoa"}, NEW d, HasType(type, d)
    PROVE  From(type, d) = d /\ TryFrom(type, d) = {d}
<1>1. CASE type = "PowOrPoa"
  <2>1. d[1] \in {"Pow", "Poa"}
    BY <1>1 DEF HasType
  <2>. QED  BY <1>1, <2>1 DEF From, TryFrom
<1>2. CASE type # "PowOrPoa"
  <2>1. d[1] = type
    BY <1>2 DEF HasType
  <2>. QED  BY <1>2, <2>1 DEF From, TryFrom
<1>. QED
  BY <1>1, <1>2

\* The slot after the last one is 0.
LEMMA SlotSuccessor ==
    ASSUME NEW k \in 0..MaxSlot
    PROVE  /\ (k + 1) % (MaxSlot + 1) \in 0..MaxSlot
           /\ k # MaxSlot => k < (k + 1) % (MaxSlot + 1)
<1>1. MaxSlot \in Nat
  BY NoncesAssumption
<1>2. CASE k = MaxSlot
  BY <1>1, <1>2
<1>3. CASE k # MaxSlot
  <2>1. k + 1 < MaxSlot + 1 /\ k + 1 \in Nat
    BY <1>1, <1>3
  <2>2. (k + 1) % (MaxSlot + 1) = k + 1
    BY <1>1, <2>1
  <2>. QED  BY <1>1, <2>1, <2>2
<1>. QED
  BY <1>2, <1>3

\* seal of an engine that wraps no other gives digests of the engine's type.
LEMMA PlainSealsTyped ==
    ASSUME NEW e, IsPlain(e), NEW p, HasType(e.digest, p), NEW partial,
           NEW d \in SealsPlain(e, p, partial)
    PROVE  HasType(e.digest, d)
<1>1. e.kind \in PlainKinds /\ e.digest = DigestType(e.kind)
  BY DEF IsPlain
<1>2. CASE e.kind = "()"
  BY <1>1, <1>2 DEF SealsPlain, UnitDigest, HasType, DigestType
<1>3. CASE e.kind = "Pow"
  <2>1. \E n : d = Work(n)
    BY <1>3 DEF SealsPlain, PowSeals
  <2>. QED  BY <1>1, <1>3, <2>1 DEF Work, HasType, DigestType
<1>4. CASE e.kind \in {"DictatorConsensus", "SimplePoa", "PoaRoundRobinByHeight"}
  <2>1. \E a : d = Signature(a)
    BY <1>4 DEF SealsPlain, DictatorSeals, SimplePoaSeals, ByHeightSeals
  <2>. QED  BY <1>1, <1>4, <2>1 DEF Signature, HasType, DigestType
<1>5. CASE e.kind = "PoaRoundRobinBySlot"
  <2>1. p[2] \in 0..MaxSlot
    BY <1>1, <1>5 DEF HasType, DigestType
  <2>2. \E a : d = SlotDigest((p[2] + 1) % (MaxSlot + 1), a)
    BY <1>5 DEF SealsPlain, BySlotSeals
  <2>. QED  BY <1>1, <1>5, <2>1, <2>2, SlotSuccessor DEF SlotDigest, HasType, DigestType
<1>6. CASE e.kind = "AlternatingPowPoa"
  <2>1. (\E a : d = From("PowOrPoa", Signature(a))) \/ (\E n : d = From("PowOrPoa", Work(n)))
    BY <1>6 DEF SealsPlain, AlternatingSeals, SimplePoaSeals, PowSeals
  <2>2. (\E a : d = <<"Poa", a>>) \/ (\E n : d = <<"Pow", n>>)
    BY <2>1 DEF From, Signature, Work
  <2>. QED  BY <1>1, <1>6, <2>2 DEF HasType, DigestType
<1>. QED
  BY <1>1, <1>2, <1>3, <1>4, <1>5, <1>6 DEF PlainKinds

\* So does one that wants even roots as well.
LEMMA EngineSealsTyped ==
    ASSUME NEW e, IsEngine(e), NEW p, HasType(e.digest, p), NEW partial,
           NEW d \in EvenSeals(e, p, partial)
    PROVE  HasType(e.digest, d)
<1>1. CASE IsPlain(e)
  <2>1. e.kind # "EvenOnly"
    BY <1>1 DEF IsPlain, PlainKinds
  <2>. QED  BY <1>1, <2>1, PlainSealsTyped DEF EvenSeals
<1>2. CASE e.kind = "EvenOnly" /\ e.digest = e.inner.digest /\ IsPlain(e.inner)
  <2>1. d \in SealsPlain(e.inner, p, partial)
    BY <1>2 DEF EvenSeals
  <2>. QED  BY <1>2, <2>1, PlainSealsTyped
<1>. QED
  BY <1>1, <1>2 DEF IsEngine

\* seal of any engine gives digests of the engine's type.
LEMMA SealsTyped ==
    ASSUME NEW e \in Engines, NEW p, HasType(e.digest, p), NEW partial,
           NEW d \in Seals(e, p, partial)
    PROVE  HasType(e.digest, d)
<1>1. CASE IsEngine(e)
  <2>1. e.kind # "Forked"
    BY <1>1 DEF IsEngine, IsPlain, PlainKinds
  <2>. QED  BY <1>1, <2>1, EngineSealsTyped DEF Seals
<1>2. CASE IsFork(e)
  <2>. DEFINE rules == RulesAt(e, partial.height)
  <2>0. PICK q \in TryFrom(rules.digest, p) :
           \E w \in EvenSeals(rules, q, partial) : d = From(e.digest, w)
    BY <1>2 DEF Seals, ForkedSeals, IsFork
  <2>1. PICK w \in EvenSeals(rules, q, partial) : d = From(e.digest, w)
    BY <2>0
  <2>2. rules = e.before \/ rules = e.after
    BY DEF RulesAt
  <2>3. IsEngine(rules)
    BY <1>2, <2>2 DEF IsFork
  <2>. HIDE DEF rules
  <2>4. CASE e.digest = rules.digest
    <3>1. q = p
      BY <2>1, <2>3, <2>4, EngineTypes, FromKeepsType
    <3>2. HasType(rules.digest, w)
      BY <2>1, <2>3, <2>4, <3>1, EngineSealsTyped
    <3>. QED  BY <2>1, <2>3, <2>4, <3>2, EngineTypes, FromKeepsType
  <2>5. CASE /\ e.digest = "PowOrPoa"
             /\ rules.kind \in {"Pow", "PoaRoundRobinByHeight"}
    <3>1. (\E n : w = Work(n)) \/ (\E a : w = Signature(a))
      BY <2>1, <2>5 DEF EvenSeals, SealsPlain, PowSeals, ByHeightSeals
    <3>. QED  BY <2>1, <2>5, <3>1 DEF From, Work, Signature, HasType
  <2>. QED  BY <1>2, <2>2, <2>4, <2>5 DEF IsFork
<1>. QED
  BY <1>1, <1>2, ChainAssumption

-----------------------------------------------------------------------------
(* What seal makes, validate accepts *)

\* Slots do not run out after this digest.
MoreSlots(p) == ~ (p[1] = "slot" /\ p[2] = MaxSlot)

LEMMA PlainSealsValidate ==
    ASSUME NEW e, IsPlain(e), NEW p, HasType(e.digest, p), MoreSlots(p), Lenient(e),
           NEW height, NEW root, NEW g, NEW d \in SealsPlain(e, p, Header(height, root, g))
    PROVE  ValidatesPlain(e, p, Header(height, root, d))
<1>. DEFINE h == Header(height, root, d)
            partial == Header(height, root, g)
<1>1. e.kind \in PlainKinds /\ e.digest = DigestType(e.kind)
  BY DEF IsPlain
<1>2. h.height = height /\ partial.height = height /\ h.consensus_digest = d
  BY DEF Header
<1>3. \A x : WithDigest(h, x).consensus_digest = x
  BY DEF WithDigest, Header
<1>4. d \in SealsPlain(e, p, partial)
  OBVIOUS
<1>. HIDE DEF h, partial
<1>5. CASE e.kind = "()"
  BY <1>5 DEF ValidatesPlain, h
<1>6. CASE e.kind = "Pow"
  <2>1. PICK n \in Nonces : d = Work(n)
    BY <1>4, <1>6 DEF SealsPlain, PowSeals
  <2>2. n < e.threshold
    BY <1>6 DEF Lenient
  <2>3. PowValidates(e, h)
    BY <1>2, <2>1, <2>2 DEF PowValidates, Work
  <2>. QED  BY <1>6, <2>3 DEF ValidatesPlain, h
<1>7. CASE e.kind = "DictatorConsensus"
  <2>1. DictatorValidates(e, h)
    BY <1>2, <1>4, <1>7 DEF SealsPlain, DictatorSeals, DictatorValidates
  <2>. QED  BY <1>7, <2>1 DEF ValidatesPlain, h
<1>8. ASSUME NEW x, IsAuthorities(x.authorities), NEW k, k.consensus_digest \in SimplePoaSeals(x)
      PROVE  SimplePoaValidates(x, k)
  <2>1. x.authorities[1] \in Range(x.authorities)
    BY <1>8 DEF IsAuthorities, Range
  <2>. QED  BY <1>8, <2>1 DEF SimplePoaSeals, SimplePoaValidates, Signature
<1>9. CASE e.kind = "SimplePoa"
  <2>1. SimplePoaValidates(e, h)
    BY <1>2, <1>4, <1>8, <1>9 DEF SealsPlain, IsPlain
  <2>. QED  BY <1>9, <2>1 DEF ValidatesPlain, h
<1>10. CASE e.kind = "PoaRoundRobinByHeight"
  <2>1. ByHeightValidates(e, h)
    BY <1>2, <1>4, <1>10 DEF SealsPlain, ByHeightSeals, ByHeightValidates
  <2>. QED  BY <1>10, <2>1 DEF ValidatesPlain, h
<1>11. CASE e.kind = "PoaRoundRobinBySlot"
  <2>1. p[1] = "slot" /\ p[2] \in 0..MaxSlot /\ p[2] # MaxSlot
    BY <1>1, <1>11 DEF HasType, DigestType, MoreSlots
  <2>2. d = SlotDigest((p[2] + 1) % (MaxSlot + 1), NextAuthority(e.authorities, p[3]))
    BY <1>4, <1>11 DEF SealsPlain, BySlotSeals
  <2>3. d[2] = (p[2] + 1) % (MaxSlot + 1) /\ d[3] = NextAuthority(e.authorities, p[3])
    BY <2>2 DEF SlotDigest
  <2>4. BySlotValidates(e, p, h)
    BY <1>2, <2>1, <2>3, SlotSuccessor DEF BySlotValidates
  <2>. QED  BY <1>11, <2>4 DEF ValidatesPlain, h
<1>12. CASE e.kind = "AlternatingPowPoa"
  <2>1. CASE p[1] = "Pow"
    <3>1. PICK w \in SimplePoaSeals(e.poa) : d = From("PowOrPoa", w)
      BY <1>4, <1>12, <2>1 DEF SealsPlain, AlternatingSeals
    <3>2. w \in TryFrom("authority", d)
      BY <3>1 DEF SimplePoaSeals, Signature, From, TryFrom
    <3>3. SimplePoaValidates(e.poa, WithDigest(h, w))
      BY <1>3, <1>8, <1>12, <3>1 DEF IsPlain
    <3>4. AlternatingValidates(e, p, h)
      BY <1>2, <2>1, <3>2, <3>3 DEF AlternatingValidates
    <3>. QED  BY <1>12, <3>4 DEF ValidatesPlain, h
  <2>2. CASE p[1] # "Pow"
    <3>1. PICK w \in PowSeals(e.pow) : d = From("PowOrPoa", w)
      BY <1>4, <1>12, <2>2 DEF SealsPlain, AlternatingSeals
    <3>2. PICK n \in Nonces : w = Work(n)
      BY <3>1 DEF PowSeals
    <3>3. w \in TryFrom("u64", d)
      BY <3>1, <3>2 DEF Work, From, TryFrom
    <3>4. n < e.pow.threshold
      BY <1>12 DEF Lenient
    <3>5. PowValidates(e.pow, WithDigest(h, w))
      BY <1>3, <3>2, <3>4 DEF PowValidates, Work
    <3>6. AlternatingValidates(e, p, h)
      BY <1>2, <2>2, <3>3, <3>5 DEF AlternatingValidates
    <3>. QED  BY <1>12, <3>6 DEF ValidatesPlain, h
  <2>. QED  BY <2>1, <2>2
<1>. QED
  BY <1>1, <1>5, <1>6, <1>7, <1>9, <1>10, <1>11, <1>12 DEF PlainKinds

LEMMA EngineSealsValidate ==
    ASSUME NEW e, IsEngine(e), NEW p, HasType(e.digest, p), MoreSlots(p), Lenient(Inner(e)),
           NEW height, NEW root, NEW g, NEW d \in EvenSeals(e, p, Header(height, root, g))
    PROVE  EvenValidates(e, p, Header(height, root, d))
<1>1. CASE IsPlain(e)
  <2>1. e.kind # "EvenOnly"
    BY <1>1 DEF IsPlain, PlainKinds
  <2>2. ValidatesPlain(e, p, Header(height, root, d))
    BY <1>1, <2>1, PlainSealsValidate DEF EvenSeals, Inner
  <2>. QED  BY <2>1, <2>2 DEF EvenValidates
<1>2. CASE e.kind = "EvenOnly" /\ e.digest = e.inner.digest /\ IsPlain(e.inner)
  <2>1. /\ IsEven(Header(height, root, g).state_root)
        /\ d \in SealsPlain(e.inner, p, Header(height, root, g))
    BY <1>2 DEF EvenSeals
  <2>2. ValidatesPlain(e.inner, p, Header(height, root, d))
    BY <1>2, <2>1, PlainSealsValidate DEF Inner
  <2>3. IsEven(Header(height, root, d).state_root)
    BY <2>1 DEF Header
  <2>. QED  BY <1>2, <2>2, <2>3 DEF EvenValidates
<1>. QED
  BY <1>1, <1>2 DEF IsEngine

LEMMA Redigested ==
    ASSUME NEW height, NEW root, NEW d, NEW w
    PROVE  WithDigest(Header(height, root, d), w) = Header(height, root, w)
BY DEF WithDigest, Header

LEMMA ForkSealsValidate ==
    ASSUME NEW e, IsFork(e), NEW p, HasType(e.digest, p), MoreSlots(p),
           Lenient(Inner(e.before)), NEW height, height < e.fork_height,
           NEW root, NEW g, NEW d \in ForkedSeals(e, p, Header(height, root, g))
    PROVE  ForkedValidates(e, p, Header(height, root, d))
<1>. DEFINE partial == Header(height, root, g)
            h == Header(height, root, d)
            b == e.before
<1>1. partial.height = height /\ h.height = height /\ h.consensus_digest = d
  BY DEF Header
<1>2. RulesAt(e, partial.height) = b
  BY <1>1 DEF RulesAt
<1>3. PICK q \in TryFrom(b.digest, p) : \E w \in EvenSeals(b, q, partial) : d = From(e.digest, w)
  BY <1>2 DEF ForkedSeals
<1>4. PICK w \in EvenSeals(b, q, partial) : d = From(e.digest, w)
  BY <1>3
<1>5. IsEngine(b)
  BY DEF IsFork
<1>6. HasType(b.digest, q) /\ MoreSlots(q) /\ w \in TryFrom(b.digest, d)
  <2>1. CASE e.digest = b.digest
    <3>1. q = p
      BY <1>3, <1>5, <2>1, EngineTypes, FromKeepsType
    <3>2. HasType(b.digest, w)
      BY <1>4, <1>5, <2>1, <3>1, EngineSealsTyped
    <3>3. d = w /\ TryFrom(b.digest, w) = {w}
      BY <1>4, <1>5, <2>1, <3>2, EngineTypes, FromKeepsType
    <3>. QED  BY <2>1, <3>1, <3>3
  <2>2. CASE e.digest = "PowOrPoa" /\ b.kind = "Pow"
    <3>1. b.digest = "u64"
      BY <1>5, <2>2 DEF IsEngine, IsPlain, DigestType
    <3>2. p[1] \in {"Pow", "Poa"}
      BY <2>2 DEF HasType
    <3>3. q = Work(p[2])
      BY <1>3, <3>1, <3>2 DEF TryFrom
    <3>4. PICK n : w = Work(n)
      BY <1>4, <2>2 DEF EvenSeals, SealsPlain, PowSeals
    <3>5. d = <<"Pow", n>>
      BY <1>4, <2>2, <3>4 DEF From, Work
    <3>6. w \in TryFrom("u64", d)
      BY <3>4, <3>5 DEF TryFrom, Work
    <3>7. HasType("u64", q) /\ MoreSlots(q)
      BY <3>3 DEF HasType, MoreSlots, Work
    <3>. QED  BY <3>1, <3>6, <3>7
  <2>. QED  BY <2>1, <2>2 DEF IsFork
<1>7. EvenValidates(b, q, Header(height, root, w))
  BY <1>4, <1>5, <1>6, EngineSealsValidate
<1>8. EvenValidates(b, q, WithDigest(h, w))
  BY <1>7, Redigested
<1>. HIDE DEF h, partial, b
<1>9. q \in TryFrom(b.digest, p) /\ w \in TryFrom(b.digest, h.consensus_digest)
  BY <1>1, <1>3, <1>6
<1>10. ForkedValidates(e, p, h)
  BY <1>1, <1>8, <1>9 DEF ForkedValidates, b
<1>. QED
  BY <1>10 DEF h

-----------------------------------------------------------------------------
(* The rules in force *)

\* What an engine that does not fork seals or accepts obeys it.
LEMMA EngineObeys ==
    ASSUME NEW e, IsEngine(e), NEW p, NEW height, NEW root, NEW g, NEW d,
           \/ d \in EvenSeals(e, p, Header(height, root, g))
           \/ EvenValidates(e, p, Header(height, root, d))
    PROVE  /\ e.kind = "EvenOnly" => IsEven(root)
           /\ Inner(e).kind = "PoaRoundRobinByHeight" =>
                 d[2] = TurnAt(Inner(e).authorities, height)
<1>. DEFINE partial == Header(height, root, g)
            h == Header(height, root, d)
<1>1. /\ partial.height = height /\ partial.state_root = root
      /\ h.height = height /\ h.state_root = root /\ h.consensus_digest = d
  BY DEF Header
<1>2. d \in EvenSeals(e, p, partial) \/ EvenValidates(e, p, h)
  OBVIOUS
<1>. HIDE DEF partial, h
<1>3. e.kind = "EvenOnly" => IsEven(root)
  BY <1>1, <1>2 DEF EvenSeals, EvenValidates
<1>4. ASSUME Inner(e).kind = "PoaRoundRobinByHeight"
      PROVE  d[2] = TurnAt(Inner(e).authorities, height)
  <2>1. d \in SealsPlain(Inner(e), p, partial) \/ ValidatesPlain(Inner(e), p, h)
    BY <1>2 DEF EvenSeals, EvenValidates, Inner
  <2>2. d \in ByHeightSeals(Inner(e), partial) \/ ByHeightValidates(Inner(e), h)
    BY <1>4, <2>1 DEF SealsPlain, ValidatesPlain
  <2>3. d = Signature(TurnAt(Inner(e).authorities, height))
    BY <1>1, <2>2 DEF ByHeightSeals, ByHeightValidates
  <2>. QED  BY <2>3 DEF Signature
<1>. QED
  BY <1>3, <1>4

\* What one that forks seals or accepts obeys the engine asked at that height.
LEMMA ForkObeys ==
    ASSUME NEW e, IsFork(e), NEW p, NEW height, NEW root, NEW g, NEW d,
           \/ d \in ForkedSeals(e, p, Header(height, root, g))
           \/ ForkedValidates(e, p, Header(height, root, d))
    PROVE  LET rules == RulesAt(e, height)
           IN /\ rules.kind = "EvenOnly" => IsEven(root)
              /\ Inner(rules).kind = "PoaRoundRobinByHeight" =>
                    d[2] = TurnAt(Inner(rules).authorities, height)
<1>. DEFINE rules == RulesAt(e, height)
<1>1. IsEngine(rules)
  BY DEF RulesAt, IsFork
<1>2. CASE d \in ForkedSeals(e, p, Header(height, root, g))
  <2>1. Header(height, root, g).height = height
    BY DEF Header
  <2>2. \E q : \E w \in EvenSeals(rules, q, Header(height, root, g)) : d = From(e.digest, w)
    BY <1>2, <2>1 DEF ForkedSeals
  <2>3. PICK q, w : w \in EvenSeals(rules, q, Header(height, root, g)) /\ d = From(e.digest, w)
    BY <2>2
  <2>. HIDE DEF rules
  <2>4. d[2] = w[2]
    BY <2>3 DEF From
  <2>5. /\ rules.kind = "EvenOnly" => IsEven(root)
        /\ Inner(rules).kind = "PoaRoundRobinByHeight" =>
              w[2] = TurnAt(Inner(rules).authorities, height)
    BY <1>1, <2>3, EngineObeys
  <2>. QED  BY <2>4, <2>5 DEF rules
<1>3. CASE ForkedValidates(e, p, Header(height, root, d))
  <2>1. /\ Header(height, root, d).height = height
        /\ Header(height, root, d).consensus_digest = d
    BY DEF Header
  <2>2. height < e.fork_height
    BY <1>3, <2>1 DEF ForkedValidates
  <2>3. rules = e.before
    BY <2>2 DEF RulesAt
  <2>4. \E q : \E w \in TryFrom(e.before.digest, d) :
           EvenValidates(e.before, q, WithDigest(Header(height, root, d), w))
    BY <1>3, <2>1 DEF ForkedValidates
  <2>5. PICK q, w : /\ w \in TryFrom(e.before.digest, d)
                    /\ EvenValidates(e.before, q, Header(height, root, w))
    BY <2>4, Redigested
  <2>6. d[2] = w[2]
    BY <2>5, Converts
  <2>. HIDE DEF rules
  <2>7. /\ rules.kind = "EvenOnly" => IsEven(root)
        /\ Inner(rules).kind = "PoaRoundRobinByHeight" =>
              w[2] = TurnAt(Inner(rules).authorities, height)
    BY <1>1, <2>3, <2>5, EngineObeys
  <2>. QED  BY <2>6, <2>7 DEF rules
<1>. QED
  BY <1>2, <1>3

-----------------------------------------------------------------------------
(* The kinds of digests *)

\* What seal and validate of the alternating engine let follow a digest.
LEMMA AlternatingFollows ==
    ASSUME NEW e, NEW p, p[1] \in {"Pow", "Poa"},
           NEW h, h.consensus_digest[1] \in {"Pow", "Poa"},
           h.consensus_digest \in AlternatingSeals(e, p) \/ AlternatingValidates(e, p, h)
    PROVE  h.consensus_digest[1] # p[1]
<1>. DEFINE d == h.consensus_digest
<1>. HIDE DEF d
<1>0. d = h.consensus_digest
  BY DEF d
<1>. SUFFICES d[1] # p[1]
  BY <1>0
<1>1. CASE AlternatingValidates(e, p, h)
  <2>1. CASE p[1] = "Pow"
    <3>1. TryFrom("authority", d) # {}
      BY <1>0, <1>1, <2>1 DEF AlternatingValidates
    <3>. QED  BY <1>0, <2>1, <3>1 DEF TryFrom
  <2>2. CASE p[1] # "Pow"
    <3>1. TryFrom("u64", d) # {}
      BY <1>0, <1>1, <2>2 DEF AlternatingValidates
    <3>. QED  BY <1>0, <2>2, <3>1 DEF TryFrom
  <2>. QED  BY <2>1, <2>2
<1>2. CASE d \in AlternatingSeals(e, p)
  <2>1. CASE p[1] = "Pow"
    <3>1. \E a : d = From("PowOrPoa", Signature(a))
      BY <1>2, <2>1 DEF AlternatingSeals, SimplePoaSeals
    <3>. QED  BY <2>1, <3>1 DEF From, Signature
  <2>2. CASE p[1] # "Pow"
    <3>1. \E n : d = From("PowOrPoa", Work(n))
      BY <1>2, <2>2 DEF AlternatingSeals, PowSeals
    <3>. QED  BY <2>2, <3>1 DEF From, Work
  <2>. QED  BY <2>1, <2>2
<1>. QED
  BY <1>0, <1>1, <1>2

\* The alternating engine has digests of either kind, with even roots or without.
LEMMA AlternatingDigest ==
    ASSUME NEW e, IsEngine(e), Inner(e).kind = "AlternatingPowPoa"
    PROVE  e.digest = "PowOrPoa"
BY DEF Inner, IsEngine, IsPlain, PlainKinds, DigestType

\* Even roots or not, the kinds of digests alternate.
LEMMA EngineAlternates ==
    ASSUME NEW e, IsEngine(e), Inner(e).kind = "AlternatingPowPoa",
           NEW p, HasType(e.digest, p), NEW h, NEW d, HasType(e.digest, d),
           h.consensus_digest = d, NEW partial,
           d \in EvenSeals(e, p, partial) \/ EvenValidates(e, p, h)
    PROVE  d[1] # p[1]
<1>. DEFINE alternating == Inner(e)
<1>1. p[1] \in {"Pow", "Poa"} /\ d[1] \in {"Pow", "Poa"}
  BY AlternatingDigest DEF HasType
<1>2. d \in SealsPlain(alternating, p, partial) \/ ValidatesPlain(alternating, p, h)
  BY DEF EvenSeals, EvenValidates, Inner
<1>3. alternating.kind = "AlternatingPowPoa"
  OBVIOUS
<1>. HIDE DEF alternating
<1>4. d \in AlternatingSeals(alternating, p) \/ AlternatingValidates(alternating, p, h)
  BY <1>2, <1>3 DEF SealsPlain, ValidatesPlain
<1>5. h.consensus_digest = d
  OBVIOUS
<1>. QED
  BY ONLY <1>1, <1>4, <1>5, AlternatingFollows

\* So they do under a fork, while the engine asked alternates: its digests are then of
\* the fork's own type.
LEMMA ForkAlternates ==
    ASSUME NEW e, IsFork(e), NEW p, HasType(e.digest, p), NEW height, NEW root, NEW g,
           NEW d, HasType(e.digest, d), Inner(RulesAt(e, height)).kind = "AlternatingPowPoa",
           \/ d \in ForkedSeals(e, p, Header(height, root, g))
           \/ ForkedValidates(e, p, Header(height, root, d))
    PROVE  d[1] # p[1]
<1>. DEFINE rules == RulesAt(e, height)
            partial == Header(height, root, g)
            h == Header(height, root, d)
<1>1. IsEngine(rules)
  BY DEF RulesAt, IsFork
<1>2. rules.digest = "PowOrPoa" /\ e.digest = "PowOrPoa"
  <2>1. rules.digest = "PowOrPoa"
    BY <1>1, AlternatingDigest
  <2>2. rules.kind \notin {"Pow", "PoaRoundRobinByHeight"}
    BY DEF Inner
  <2>. QED  BY <2>1, <2>2 DEF IsFork, RulesAt
<1>3. TryFrom(rules.digest, p) = {p} /\ TryFrom(rules.digest, d) = {d}
  BY <1>2, FromKeepsType
<1>4. /\ partial.height = height
      /\ h.height = height /\ h.consensus_digest = d /\ WithDigest(h, d) = h
  BY Redigested DEF Header
<1>5. CASE d \in ForkedSeals(e, p, partial)
  <2>1. PICK w \in EvenSeals(rules, p, partial) : d = From(e.digest, w)
    BY <1>3, <1>4, <1>5 DEF ForkedSeals
  <2>. HIDE DEF rules, partial, h
  <2>2. HasType(rules.digest, w)
    BY <1>1, <1>2, <2>1, EngineSealsTyped
  <2>3. d = w
    BY <1>2, <2>1, <2>2, FromKeepsType
  <2>. QED  BY <1>1, <1>2, <1>4, <2>1, <2>3, EngineAlternates DEF rules
<1>6. CASE ForkedValidates(e, p, h)
  <2>1. height < e.fork_height
    BY <1>4, <1>6 DEF ForkedValidates
  <2>2. rules = e.before
    BY <2>1 DEF RulesAt
  <2>. HIDE DEF rules, partial, h
  <2>3. EvenValidates(rules, p, h)
    BY <1>3, <1>4, <1>6, <2>2 DEF ForkedValidates
  <2>. QED  BY <1>1, <1>2, <1>4, <2>3, EngineAlternates DEF rules
<1>. QED
  BY <1>5, <1>6

\* What the engine of pow_to_poa lets follow a digest of work is work, and nothing
\* from the fork on: there the digest of the parent does not convert.
LEMMA PowToPoaFollows ==
    ASSUME NEW e \in Engines, e.kind = "Forked", e.digest # e.before.digest,
           NEW p, p[1] = "Pow", NEW h, NEW d, NEW partial,
           h.consensus_digest = d, d[1] \in {"Pow", "Poa"}, partial.height = h.height,
           d \in Seals(e, p, partial) \/ Validates(e, p, h)
    PROVE  d[1] = "Pow" /\ h.height < e.fork_height
<1>1. /\ e.before.kind = "Pow" /\ e.before.digest = "u64"
      /\ e.after.digest = "authority" /\ e.digest = "PowOrPoa"
  BY EngineFacts
<1>2. CASE Validates(e, p, h)
  <2>1. ForkedValidates(e, p, h)
    BY <1>2 DEF Validates
  <2>2. h.height < e.fork_height /\ TryFrom("u64", d) # {}
    BY <1>1, <2>1 DEF ForkedValidates
  <2>. QED  BY <2>2 DEF TryFrom
<1>3. CASE d \in Seals(e, p, partial)
  <2>1. d \in ForkedSeals(e, p, partial)
    BY <1>3 DEF Seals
  <2>2. h.height < e.fork_height
    <3>1. SUFFICES ASSUME ~ (h.height < e.fork_height) PROVE FALSE
      OBVIOUS
    <3>2. RulesAt(e, partial.height) = e.after
      BY <3>1 DEF RulesAt
    <3>3. TryFrom("authority", p) = {}
      BY DEF TryFrom
    <3>. QED  BY <1>1, <2>1, <3>2, <3>3 DEF ForkedSeals
  <2>3. RulesAt(e, partial.height) = e.before
    BY <2>2 DEF RulesAt
  <2>4. \E q : \E w \in EvenSeals(e.before, q, partial) : d = From("PowOrPoa", w)
    BY <1>1, <2>1, <2>3 DEF ForkedSeals
  <2>5. \E n : d = From("PowOrPoa", Work(n))
    BY <1>1, <2>4 DEF EvenSeals, SealsPlain, PowSeals
  <2>. QED  BY <2>2, <2>5 DEF From, Work
<1>. QED
  BY <1>2, <1>3

-----------------------------------------------------------------------------
(* Remainders *)

\* Two numbers less than n apart have different remainders.
LEMMA DifferentRemainders ==
    ASSUME NEW n \in Nat \ {0}, NEW a \in Nat, NEW b \in Nat, a < b, b - a < n
    PROVE  a % n # b % n
<1>. SUFFICES ASSUME a % n = b % n PROVE FALSE
  OBVIOUS
<1>. DEFINE qa == a \div n
            qb == b \div n
            r == a % n
<1>1. qa \in Int /\ qb \in Int /\ r \in 0..n - 1
  OBVIOUS
<1>2. a = n * qa + r /\ b = n * qb + r
  OBVIOUS
<1>. HIDE DEF qa, qb, r
<1>3. n * (qb - qa) = b - a
  BY <1>1, <1>2
<1>4. CASE qb - qa <= 0
  BY <1>1, <1>3, <1>4
<1>5. CASE qb - qa >= 1
  BY <1>1, <1>3, <1>5
<1>. QED
  BY <1>1, <1>4, <1>5

-----------------------------------------------------------------------------
(* Heights *)

\* The chain is a sequence that starts at genesis.
IsChain == (\E S : chain \in Seq(S)) /\ Len(chain) \in Nat \ {0}

\* Appending keeps a sequence's elements where they are.
LEMMA AppendElements ==
    ASSUME NEW S, NEW s \in Seq(S), NEW e
    PROVE  /\ Append(s, e) \in Seq(S \cup {e})
           /\ Len(Append(s, e)) = Len(s) + 1
           /\ DOMAIN Append(s, e) = 1..Len(s) + 1
           /\ \A i \in 1..Len(s) : Append(s, e)[i] = s[i]
           /\ Append(s, e)[Len(s) + 1] = e
<1>1. s \in Seq(S \cup {e})
  OBVIOUS
<1>. QED
  BY <1>1

\* A header that the engine of the chain sealed, or accepted from others, after p.
Follows(h, p, from) ==
    LET d == h.consensus_digest
    IN /\ h = Header(h.height, h.state_root, d)
       /\ \/ /\ from = "sealed"
             /\ d \in Seals(engine, p, Header(h.height, h.state_root, DigestOfGenesis(engine)))
          \/ /\ from = "imported"
             /\ d \in OfType(engine.digest)
             /\ Validates(engine, p, h)

LEMMA StepFollows ==
    ASSUME IsChain, SealNext
    PROVE  /\ engine' = engine
           /\ \E h : \E from : /\ Follows(h, Tip.consensus_digest, from)
                               /\ h.height = Tip.height + 1 /\ h.state_root \in StateRoots
                               /\ chain' = Append(chain, h)
                               /\ origin' = Append(origin, from)
<1>1. ASSUME NEW root \in StateRoots, Seal(root)
      PROVE  /\ engine' = engine
             /\ \E h : \E from : /\ Follows(h, Tip.consensus_digest, from)
                                 /\ h.height = Tip.height + 1 /\ h.state_root \in StateRoots
                                 /\ chain' = Append(chain, h)
                                 /\ origin' = Append(origin, from)
  <2>. DEFINE partial == Header(Tip.height + 1, root, DigestOfGenesis(engine))
  <2>1. PICK d \in Seals(engine, Tip.consensus_digest, partial) :
           Extend(WithDigest(partial, d), "sealed")
    BY <1>1 DEF Seal
  <2>. DEFINE h == Header(Tip.height + 1, root, d)
  <2>2. WithDigest(partial, d) = h
    BY Redigested
  <2>3. h.height = Tip.height + 1 /\ h.state_root = root /\ h.consensus_digest = d
    BY DEF Header
  <2>4. Extend(h, "sealed")
    BY <2>1, <2>2
  <2>5. h = Header(h.height, h.state_root, h.consensus_digest)
    BY <2>3
  <2>. HIDE DEF h
  <2>6. Follows(h, Tip.consensus_digest, "sealed")
    BY <2>1, <2>3, <2>5 DEF Follows
  <2>. QED  BY <2>3, <2>4, <2>6 DEF Extend
<1>2. ASSUME NEW root \in StateRoots, NEW d \in OfType(engine.digest), ImportHeader(root, d)
      PROVE  /\ engine' = engine
             /\ \E h : \E from : /\ Follows(h, Tip.consensus_digest, from)
                                 /\ h.height = Tip.height + 1 /\ h.state_root \in StateRoots
                                 /\ chain' = Append(chain, h)
                                 /\ origin' = Append(origin, from)
  <2>. DEFINE h == Header(Tip.height + 1, root, d)
  <2>1. Validates(engine, Tip.consensus_digest, h) /\ Extend(h, "imported")
    BY <1>2 DEF ImportHeader
  <2>2. h.height = Tip.height + 1 /\ h.state_root = root /\ h.consensus_digest = d
    BY DEF Header
  <2>3. h = Header(h.height, h.state_root, h.consensus_digest)
    BY <2>2
  <2>. HIDE DEF h
  <2>4. Follows(h, Tip.consensus_digest, "imported")
    BY <2>1, <2>2, <2>3 DEF Follows
  <2>. QED  BY <2>1, <2>2, <2>4 DEF Extend
<1>. QED
  BY <1>1, <1>2 DEF SealNext

IInv == IsChain /\ (\E S : origin \in Seq(S)) /\ SealTypeOK

LEMMA InitInv == SealInit => IInv
<1>. SUFFICES ASSUME SealInit PROVE IInv
  OBVIOUS
<1>1. PICK root \in StateRoots : chain = <<Header(0, root, DigestOfGenesis(engine))>>
  BY DEF SealInit
<1>. DEFINE g == Header(0, root, DigestOfGenesis(engine))
<1>2. g.height = 0 /\ g.state_root = root
  BY DEF Header
<1>. HIDE DEF g
<1>3. chain \in Seq({g}) /\ Len(chain) = 1 /\ chain[1] = g /\ DOMAIN chain = 1..1
  BY <1>1 DEF g
<1>4. origin \in Seq({"genesis"}) /\ Len(origin) = 1
  BY DEF SealInit
<1>5. engine \in Engines
  BY DEF SealInit
<1>. QED
  BY <1>2, <1>3, <1>4, <1>5 DEF IInv, IsChain, SealTypeOK

LEMMA InvStep == IInv /\ [SealNext]_sealVars => IInv'
<1>. SUFFICES ASSUME IInv, [SealNext]_sealVars PROVE IInv'
  OBVIOUS
<1>1. CASE UNCHANGED sealVars
  BY <1>1 DEF sealVars, IInv, IsChain, SealTypeOK
<1>2. CASE SealNext
  <2>1. engine' = engine /\ engine \in Engines
    BY <1>2, StepFollows DEF IInv, SealTypeOK
  <2>2. PICK h, from : /\ h.height = Tip.height + 1 /\ h.state_root \in StateRoots
                       /\ chain' = Append(chain, h)
                       /\ origin' = Append(origin, from)
    BY <1>2, StepFollows DEF IInv
  <2>4. PICK S : chain \in Seq(S)
    BY DEF IInv, IsChain
  <2>5. PICK O : origin \in Seq(O)
    BY DEF IInv
  <2>. DEFINE n == Len(chain)
  <2>6. n \in Nat \ {0} /\ DOMAIN chain = 1..n /\ Len(origin) = n
    BY <2>4 DEF IInv, IsChain, SealTypeOK
  <2>7. /\ chain' \in Seq(S \cup {h}) /\ Len(chain') = n + 1 /\ DOMAIN chain' = 1..n + 1
        /\ \A i \in 1..n : chain'[i] = chain[i]
        /\ chain'[n + 1] = h
    BY <2>2, <2>4, AppendElements
  <2>8. origin' \in Seq(O \cup {from}) /\ Len(origin') = n + 1
    BY <2>2, <2>5, <2>6, AppendElements
  <2>. HIDE DEF n
  <2>9. h.height = (n + 1) - 1 /\ h.state_root \in StateRoots
    <3>1. Tip.height = n - 1
      BY <2>6 DEF Tip, IInv, SealTypeOK, n
    <3>. QED  BY <2>2, <2>6, <3>1
  <2>10. \A i \in 1..n + 1 : chain'[i].height = i - 1 /\ chain'[i].state_root \in StateRoots
    <3>1. \A i \in 1..n : chain[i].height = i - 1 /\ chain[i].state_root \in StateRoots
      BY <2>6 DEF IInv, SealTypeOK
    <3>. QED  BY <2>6, <2>7, <2>9, <3>1
  <2>. QED  BY <2>1, <2>6, <2>7, <2>8, <2>10 DEF IInv, IsChain, SealTypeOK
<1>. QED
  BY <1>1, <1>2

\* Every header has the height of its place and a state root of the chain's.
THEOREM TypeCorrect == SealSpec => []SealTypeOK
<1>1. IInv => SealTypeOK
  BY DEF IInv
<1>. QED
  BY <1>1, InitInv, InvStep, PTL DEF SealSpec

-----------------------------------------------------------------------------
(* Every header follows the one before it *)

\* What the promises below follow from.
EachFollows ==
    /\ \A i \in DOMAIN chain : HasType(engine.digest, DigestAt(i))
    /\ \A i \in Added : Follows(chain[i], DigestAt(i - 1), origin[i])

\* What follows a digest has a digest of the same type.
LEMMA FollowsTyped ==
    ASSUME engine \in Engines, NEW h, NEW p, HasType(engine.digest, p), NEW from, Follows(h, p, from)
    PROVE  HasType(engine.digest, h.consensus_digest)
<1>1. CASE h.consensus_digest \in Seals(engine, p, Header(h.height, h.state_root, DigestOfGenesis(engine)))
  BY <1>1, SealsTyped
<1>2. CASE h.consensus_digest \in OfType(engine.digest)
  BY <1>2, ChainAssumption DEF OfType, HasType
<1>. QED
  BY <1>1, <1>2 DEF Follows

LEMMA FollowsInit == SealInit => EachFollows
<1>. SUFFICES ASSUME SealInit PROVE EachFollows
  OBVIOUS
<1>1. PICK root \in StateRoots : chain = <<Header(0, root, DigestOfGenesis(engine))>>
  BY DEF SealInit
<1>2. DOMAIN chain = 1..1 /\ Len(chain) = 1 /\ chain[1] = Header(0, root, DigestOfGenesis(engine))
  BY <1>1
<1>3. HasType(engine.digest, DigestAt(1))
  BY <1>2, GenesisTyped DEF DigestAt, Header, SealInit
<1>4. Added = {}
  BY <1>2 DEF Added
<1>. QED
  BY <1>2, <1>3, <1>4 DEF EachFollows

LEMMA FollowsStep == IInv /\ EachFollows /\ [SealNext]_sealVars => EachFollows'
<1>. SUFFICES ASSUME IInv, EachFollows, [SealNext]_sealVars PROVE EachFollows'
  OBVIOUS
<1>1. CASE UNCHANGED sealVars
  BY <1>1 DEF sealVars, EachFollows, Added, DigestAt, Follows, OfType
<1>2. CASE SealNext
  <2>1. engine' = engine /\ engine \in Engines
    BY <1>2, StepFollows DEF IInv, SealTypeOK
  <2>2. PICK h, from : /\ Follows(h, Tip.consensus_digest, from)
                       /\ chain' = Append(chain, h)
                       /\ origin' = Append(origin, from)
    BY <1>2, StepFollows DEF IInv
  <2>3. PICK S : chain \in Seq(S)
    BY DEF IInv, IsChain
  <2>4. PICK O : origin \in Seq(O)
    BY DEF IInv
  <2>. DEFINE n == Len(chain)
  <2>5. n \in Nat \ {0} /\ DOMAIN chain = 1..n /\ Len(origin) = n
    BY <2>3 DEF IInv, IsChain, SealTypeOK
  <2>6. /\ DOMAIN chain' = 1..n + 1 /\ Len(chain') = n + 1
        /\ \A i \in 1..n : chain'[i] = chain[i]
        /\ chain'[n + 1] = h
    BY <2>2, <2>3, AppendElements
  <2>7. /\ \A i \in 1..n : origin'[i] = origin[i]
        /\ origin'[n + 1] = from
    BY <2>2, <2>4, <2>5, AppendElements
  <2>8. Tip.consensus_digest = DigestAt(n)
    BY DEF Tip, DigestAt
  <2>9. HasType(engine.digest, h.consensus_digest)
    BY <2>1, <2>2, <2>5, <2>8, FollowsTyped DEF EachFollows
  <2>10. Added = 2..n /\ Added' = 2..n + 1
    BY <2>6 DEF Added
  <2>. HIDE DEF n
  <2>11. \A i \in 1..n + 1 : HasType(engine.digest, DigestAt(i)')
    BY <2>5, <2>6, <2>9 DEF EachFollows, DigestAt
  <2>12. \A i \in 2..n + 1 : Follows(chain'[i], DigestAt(i - 1)', origin'[i])
    <3>. SUFFICES ASSUME NEW i \in 2..n + 1
                  PROVE  Follows(chain'[i], DigestAt(i - 1)', origin'[i])
      OBVIOUS
    <3>1. i - 1 \in 1..n /\ DigestAt(i - 1)' = DigestAt(i - 1)
      BY <2>5, <2>6 DEF DigestAt
    <3>2. CASE i \in 2..n
      <4>1. chain'[i] = chain[i] /\ origin'[i] = origin[i]
        BY <2>5, <2>6, <2>7, <3>2
      <4>. QED  BY <2>10, <3>1, <3>2, <4>1 DEF EachFollows
    <3>3. CASE i = n + 1
      BY <2>2, <2>5, <2>6, <2>7, <2>8, <3>1, <3>3
    <3>. QED  BY <2>5, <3>2, <3>3
  <2>. QED  BY <2>1, <2>6, <2>10, <2>11, <2>12 DEF EachFollows, Follows
<1>. QED
  BY <1>1, <1>2

LEMMA FollowsAlways == SealSpec => [](IInv /\ EachFollows)
  BY InitInv, InvStep, FollowsInit, FollowsStep, PTL DEF SealSpec

\* The shape of the chain, and of its engine.
LEMMA Shape ==
    ASSUME IInv
    PROVE  /\ engine \in Engines /\ (IsEngine(engine) \/ IsFork(engine))
           /\ \A i \in Added :
                 /\ i \in Nat /\ i - 1 \in DOMAIN chain /\ i \in DOMAIN chain
                 /\ chain[i].height = i - 1
<1>1. PICK S : chain \in Seq(S)
  BY DEF IInv, IsChain
<1>2. DOMAIN chain = 1..Len(chain) /\ Len(chain) \in Nat
  BY <1>1
<1>. QED
  BY <1>2, ChainAssumption DEF IInv, SealTypeOK, Added

-----------------------------------------------------------------------------
(* The promises of all engines *)

\* Under every engine, whatever its parameters, validate accepts what seal makes,
\* but for the exceptions of SealedValidate.
THEOREM WhatIsSealedIsValid == SealSpec => []SealedValidate
<1>1. IInv /\ EachFollows => SealedValidate
  <2>. SUFFICES ASSUME IInv, EachFollows, NEW i \in Added,
                       origin[i] # "imported",
                       engine.kind = "Forked" => ~ (chain[i].height >= engine.fork_height),
                       Lenient(InForce(chain[i].height)),
                       ~ AfterLastSlot(i)
                PROVE  Validates(engine, DigestAt(i - 1), chain[i])
    BY DEF SealedValidate
  <2>. DEFINE h == chain[i]
              p == DigestAt(i - 1)
              d == h.consensus_digest
              partial == Header(h.height, h.state_root, DigestOfGenesis(engine))
  <2>1. /\ i - 1 \in DOMAIN chain /\ h.height = i - 1 /\ i \in Nat
        /\ IsEngine(engine) \/ IsFork(engine)
    BY Shape
  <2>2. HasType(engine.digest, p) /\ Follows(h, p, origin[i])
    BY <2>1 DEF EachFollows
  <2>3. h = Header(h.height, h.state_root, d) /\ d \in Seals(engine, p, partial)
    BY <2>2 DEF Follows
  <2>4. MoreSlots(p)
    BY DEF MoreSlots, AfterLastSlot
  <2>. HIDE DEF h, p, d
  <2>5. CASE IsEngine(engine)
    <3>1. engine.kind # "Forked"
      BY <2>5, EnginesDoNotFork
    <3>2. d \in EvenSeals(engine, p, partial)
      BY <2>3, <3>1 DEF Seals
    <3>3. Lenient(Inner(engine))
      BY <3>1 DEF InForce
    <3>4. EvenValidates(engine, p, Header(h.height, h.state_root, d))
      BY <2>2, <2>4, <2>5, <3>2, <3>3, EngineSealsValidate
    <3>5. Validates(engine, p, h)
      BY <2>3, <3>1, <3>4 DEF Validates
    <3>. QED  BY <3>5 DEF h, p
  <2>6. CASE IsFork(engine)
    <3>1. engine.kind = "Forked" /\ engine.fork_height \in Nat
      BY <2>6 DEF IsFork
    <3>2. h.height < engine.fork_height
      BY <2>1, <3>1 DEF h
    <3>3. Lenient(Inner(engine.before))
      BY <3>1, <3>2 DEF InForce, RulesAt, h
    <3>4. d \in ForkedSeals(engine, p, partial)
      BY <2>3, <3>1 DEF Seals
    <3>5. ForkedValidates(engine, p, Header(h.height, h.state_root, d))
      BY <2>2, <2>4, <2>6, <3>2, <3>3, <3>4, ForkSealsValidate
    <3>6. Validates(engine, p, h)
      BY <2>3, <3>1, <3>5 DEF Validates
    <3>. QED  BY <3>6 DEF h, p
  <2>. QED  BY <2>1, <2>5, <2>6
<1>. QED
  BY <1>1, FollowsAlways, PTL

\* Sealed or imported, every header obeys the rules that are in force at its height.
THEOREM RulesAreObeyed == SealSpec => []RulesInForce
<1>1. IInv /\ EachFollows => RulesInForce
  <2>. SUFFICES ASSUME IInv, EachFollows, NEW i \in Added
                PROVE  /\ WantsEven(chain[i].height) => IsEven(chain[i].state_root)
                       /\ InForce(chain[i].height).kind = "PoaRoundRobinByHeight" =>
                             DigestAt(i)[2] =
                               TurnAt(InForce(chain[i].height).authorities, chain[i].height)
    BY DEF RulesInForce
  <2>. DEFINE h == chain[i]
              p == DigestAt(i - 1)
              d == h.consensus_digest
              partial == Header(h.height, h.state_root, DigestOfGenesis(engine))
  <2>1. IsEngine(engine) \/ IsFork(engine)
    BY Shape
  <2>2. Follows(h, p, origin[i])
    BY DEF EachFollows
  <2>3. /\ h = Header(h.height, h.state_root, d)
        /\ d \in Seals(engine, p, partial) \/ Validates(engine, p, h)
    BY <2>2 DEF Follows
  <2>4. DigestAt(i) = d
    BY DEF DigestAt
  <2>. HIDE DEF h, p, d
  <2>5. CASE IsEngine(engine)
    <3>1. engine.kind # "Forked"
      BY <2>5, EnginesDoNotFork
    <3>2. \/ d \in EvenSeals(engine, p, partial)
          \/ EvenValidates(engine, p, Header(h.height, h.state_root, d))
      BY <2>3, <3>1 DEF Seals, Validates
    <3>3. /\ engine.kind = "EvenOnly" => IsEven(h.state_root)
          /\ Inner(engine).kind = "PoaRoundRobinByHeight" =>
                d[2] = TurnAt(Inner(engine).authorities, h.height)
      BY <2>5, <3>2, EngineObeys
    <3>. QED  BY <2>4, <3>1, <3>3 DEF InForce, WantsEven, h
  <2>6. CASE IsFork(engine)
    <3>1. engine.kind = "Forked"
      BY <2>6 DEF IsFork
    <3>2. \/ d \in ForkedSeals(engine, p, partial)
          \/ ForkedValidates(engine, p, Header(h.height, h.state_root, d))
      BY <2>3, <3>1 DEF Seals, Validates
    <3>3. LET rules == RulesAt(engine, h.height)
          IN /\ rules.kind = "EvenOnly" => IsEven(h.state_root)
             /\ Inner(rules).kind = "PoaRoundRobinByHeight" =>
                   d[2] = TurnAt(Inner(rules).authorities, h.height)
      BY <2>6, <3>2, ForkObeys
    <3>. QED  BY <2>4, <3>1, <3>3 DEF InForce, WantsEven, h
  <2>. QED  BY <2>1, <2>5, <2>6
<1>. QED
  BY <1>1, FollowsAlways, PTL

-----------------------------------------------------------------------------
(* Work and signatures *)

\* Whoever seals the headers, work and signatures alternate along every chain on which
\* the rules of the alternating engine are in force, forks to even roots included.
THEOREM AlternatesAlways == SealSpec => []Alternates
<1>1. IInv /\ EachFollows => Alternates
  <2>. SUFFICES ASSUME IInv, EachFollows, NEW i \in Added,
                       InForce(chain[i].height).kind = "AlternatingPowPoa"
                PROVE  DigestAt(i)[1] # DigestAt(i - 1)[1]
    BY DEF Alternates
  <2>. DEFINE h == chain[i]
              p == DigestAt(i - 1)
              d == h.consensus_digest
              partial == Header(h.height, h.state_root, DigestOfGenesis(engine))
  <2>1. /\ IsEngine(engine) \/ IsFork(engine)
        /\ i \in DOMAIN chain /\ i - 1 \in DOMAIN chain
    BY Shape
  <2>2. /\ HasType(engine.digest, p) /\ HasType(engine.digest, DigestAt(i))
        /\ Follows(h, p, origin[i])
    BY <2>1 DEF EachFollows
  <2>3. /\ h = Header(h.height, h.state_root, d)
        /\ d \in Seals(engine, p, partial) \/ Validates(engine, p, h)
    BY <2>2 DEF Follows
  <2>4. DigestAt(i) = d
    BY DEF DigestAt
  <2>5. Inner(IF engine.kind = "Forked" THEN RulesAt(engine, h.height) ELSE engine).kind
          = "AlternatingPowPoa"
    BY DEF InForce
  <2>. HIDE DEF h, p, d
  <2>6. CASE IsEngine(engine)
    <3>1. engine.kind # "Forked"
      BY <2>6, EnginesDoNotFork
    <3>2. d \in EvenSeals(engine, p, partial) \/ EvenValidates(engine, p, h)
      BY <2>3, <3>1 DEF Seals, Validates
    <3>3. d[1] # p[1]
      BY <2>2, <2>4, <2>5, <2>6, <3>1, <3>2, EngineAlternates DEF d
    <3>. QED  BY <2>4, <3>3 DEF p
  <2>7. CASE IsFork(engine)
    <3>1. engine.kind = "Forked"
      BY <2>7 DEF IsFork
    <3>2. \/ d \in ForkedSeals(engine, p, partial)
          \/ ForkedValidates(engine, p, Header(h.height, h.state_root, d))
      BY <2>3, <3>1 DEF Seals, Validates
    <3>3. d[1] # p[1]
      BY <2>2, <2>4, <2>5, <2>7, <3>1, <3>2, ForkAlternates
    <3>. QED  BY <2>4, <3>3 DEF p
  <2>. QED  BY <2>1, <2>6, <2>7
<1>. QED
  BY <1>1, FollowsAlways, PTL

\* In a chain of pow_to_poa every digest is work, and every height below the fork.
OnlyWork ==
    IsPowToPoa => \A i \in DOMAIN chain :
        chain[i].height < engine.fork_height /\ DigestAt(i)[1] = "Pow"

LEMMA OnlyWorkInit == SealInit => OnlyWork
<1>. SUFFICES ASSUME SealInit PROVE OnlyWork
  OBVIOUS
<1>1. PICK root \in StateRoots : chain = <<Header(0, root, DigestOfGenesis(engine))>>
  BY DEF SealInit
<1>2. DOMAIN chain = 1..1 /\ chain[1] = Header(0, root, DigestOfGenesis(engine))
  BY <1>1
<1>3. engine.digest = "PowOrPoa" => DigestAt(1)[1] = "Pow"
  BY <1>2 DEF DigestAt, Header, DigestOfGenesis
<1>4. chain[1].height = 0
  BY <1>2 DEF Header
<1>5. engine \in Engines
  BY DEF SealInit
<1>7. engine.kind = "Forked" => 0 < engine.fork_height
  BY <1>5, EngineFacts
<1>8. IsPowToPoa => engine.digest = "PowOrPoa"
  BY <1>5, EngineFacts DEF IsPowToPoa
<1>. QED
  BY <1>2, <1>3, <1>4, <1>7, <1>8 DEF OnlyWork, IsPowToPoa

LEMMA OnlyWorkStep == IInv /\ OnlyWork /\ [SealNext]_sealVars => OnlyWork'
<1>. SUFFICES ASSUME IInv, OnlyWork, [SealNext]_sealVars PROVE OnlyWork'
  OBVIOUS
<1>1. CASE UNCHANGED sealVars
  BY <1>1 DEF sealVars, OnlyWork, IsPowToPoa, DigestAt
<1>2. CASE SealNext
  <2>1. engine' = engine /\ engine \in Engines
    BY <1>2, StepFollows DEF IInv, SealTypeOK
  <2>2. PICK h, from : /\ Follows(h, Tip.consensus_digest, from)
                       /\ h.height = Tip.height + 1
                       /\ chain' = Append(chain, h)
    BY <1>2, StepFollows DEF IInv
  <2>4. PICK S : chain \in Seq(S)
    BY DEF IInv, IsChain
  <2>. DEFINE n == Len(chain)
              p == Tip.consensus_digest
              d == h.consensus_digest
              partial == Header(h.height, h.state_root, DigestOfGenesis(engine))
  <2>5. n \in Nat \ {0} /\ DOMAIN chain = 1..n
    BY <2>4 DEF IInv, IsChain
  <2>6. /\ DOMAIN chain' = 1..n + 1
        /\ \A i \in 1..n : chain'[i] = chain[i]
        /\ chain'[n + 1] = h
    BY <2>2, <2>4, AppendElements
  <2>7. Tip = chain[n] /\ Tip.height = n - 1
    BY <2>5 DEF Tip, IInv, SealTypeOK
  <2>8. /\ h.consensus_digest = d /\ h.height = Tip.height + 1 /\ partial.height = h.height
        /\ d \in Seals(engine, p, partial) \/ (d \in OfType(engine.digest) /\ Validates(engine, p, h))
    BY <2>2 DEF Follows, Header
  <2>. HIDE DEF n, p, d, partial
  <2>10. IsPowToPoa => d[1] = "Pow" /\ h.height < engine.fork_height
    <3>. SUFFICES ASSUME IsPowToPoa
                  PROVE  d[1] = "Pow" /\ h.height < engine.fork_height
      OBVIOUS
    <3>1. p[1] = "Pow"
      BY <2>5, <2>7 DEF OnlyWork, DigestAt, p
    <3>2. d[1] \in {"Pow", "Poa"}
      <4>1. CASE d \in Seals(engine, p, partial)
        <5>1. d \in ForkedSeals(engine, p, partial)
          BY <4>1 DEF Seals, IsPowToPoa
        <5>2. /\ engine.before.kind = "Pow" /\ engine.after.kind = "PoaRoundRobinByHeight"
              /\ engine.digest = "PowOrPoa"
          BY <2>1, EngineFacts DEF IsPowToPoa
        <5>3. \E e \in {engine.before, engine.after} : \E q : \E w \in EvenSeals(e, q, partial) :
                 d = From("PowOrPoa", w)
          BY <5>1, <5>2 DEF ForkedSeals, RulesAt
        <5>4. (\E a : d = From("PowOrPoa", Signature(a))) \/ (\E w : d = From("PowOrPoa", Work(w)))
          BY <5>2, <5>3 DEF EvenSeals, SealsPlain, PowSeals, ByHeightSeals
        <5>. QED  BY <5>4 DEF From, Signature, Work
      <4>2. CASE d \in OfType(engine.digest)
        BY <2>1, <4>2, EngineFacts DEF OfType, IsPowToPoa
      <4>. QED  BY <2>8, <4>1, <4>2
    <3>. QED  BY <2>1, <2>8, <3>1, <3>2, PowToPoaFollows DEF IsPowToPoa
  <2>12. (IsPowToPoa => \A i \in DOMAIN chain :
            chain[i].height < engine.fork_height /\ DigestAt(i)[1] = "Pow")'
    <3>. SUFFICES ASSUME IsPowToPoa, NEW i \in 1..n + 1
                  PROVE  chain'[i].height < engine.fork_height /\ DigestAt(i)'[1] = "Pow"
      BY <2>1, <2>6 DEF IsPowToPoa
    <3>1. CASE i \in 1..n
      BY <2>5, <2>6, <3>1 DEF OnlyWork, DigestAt
    <3>2. CASE i = n + 1
      BY <2>6, <2>8, <2>10, <3>2 DEF DigestAt
    <3>. QED  BY <2>5, <3>1, <3>2
  <2>. QED  BY <2>12 DEF OnlyWork
<1>. QED
  BY <1>1, <1>2

\* Whatever the difficulty, the authorities and the fork height, no chain of
\* pow_to_poa ever reaches its fork: why SwitchesToPoa cannot be.
StopsAtFork ==
    IsPowToPoa => \A i \in DOMAIN chain : chain[i].height < engine.fork_height

THEOREM NeverCrossesFork == SealSpec => []StopsAtFork
<1>1. OnlyWork => StopsAtFork
  BY DEF OnlyWork, StopsAtFork
<1>. QED
  BY <1>1, InitInv, InvStep, OnlyWorkInit, OnlyWorkStep, PTL DEF SealSpec

-----------------------------------------------------------------------------
(* Slots *)

\* Under an engine that takes turns by slot, what may follow a slot.
LEMMA SlotFollows ==
    ASSUME engine \in Engines, Inner(engine).kind = "PoaRoundRobinBySlot",
           NEW h, NEW p, HasType(engine.digest, p), NEW from, Follows(h, p, from)
    PROVE  /\ engine.digest = "slot"
           /\ p[2] < h.consensus_digest[2] \/ p[2] = MaxSlot
           /\ h.consensus_digest[3] = NextAuthority(Inner(engine).authorities, p[3])
<1>. DEFINE d == h.consensus_digest
            partial == Header(h.height, h.state_root, DigestOfGenesis(engine))
            e == Inner(engine)
<1>1. IsEngine(engine) /\ engine.kind # "Forked"
  BY ChainAssumption, EnginesDoNotFork DEF IsFork, Inner
<1>2. engine.digest = "slot"
  BY <1>1 DEF Inner, IsEngine, IsPlain, PlainKinds, DigestType
<1>3. p[2] \in 0..MaxSlot
  BY <1>2 DEF HasType
<1>4. d \in Seals(engine, p, partial) \/ Validates(engine, p, h)
  BY DEF Follows
<1>5. d \in SealsPlain(e, p, partial) \/ ValidatesPlain(e, p, h)
  BY <1>1, <1>4 DEF Seals, Validates, EvenSeals, EvenValidates, Inner
<1>6. d \in BySlotSeals(e, p) \/ BySlotValidates(e, p, h)
  BY <1>5 DEF SealsPlain, ValidatesPlain
<1>7. CASE d \in BySlotSeals(e, p)
  <2>1. d[2] = (p[2] + 1) % (MaxSlot + 1) /\ d[3] = NextAuthority(e.authorities, p[3])
    BY <1>7 DEF BySlotSeals, SlotDigest
  <2>. QED  BY <1>2, <1>3, <2>1, SlotSuccessor
<1>8. CASE BySlotValidates(e, p, h)
  BY <1>2, <1>8 DEF BySlotValidates
<1>. QED
  BY <1>6, <1>7, <1>8

\* Whoever seals, every slot is later than the one before, up to the last of all.
THEOREM SlotsGoUp == SealSpec => []SlotsIncrease
<1>1. IInv /\ EachFollows => SlotsIncrease
  <2>. SUFFICES ASSUME IInv, EachFollows, Inner(engine).kind = "PoaRoundRobinBySlot", NEW i \in Added
                PROVE  DigestAt(i - 1)[2] < DigestAt(i)[2] \/ AfterLastSlot(i)
    BY DEF SlotsIncrease
  <2>1. engine \in Engines /\ i - 1 \in DOMAIN chain
    BY Shape
  <2>2. HasType(engine.digest, DigestAt(i - 1)) /\ Follows(chain[i], DigestAt(i - 1), origin[i])
    BY <2>1 DEF EachFollows
  <2>3. /\ engine.digest = "slot"
        /\ DigestAt(i - 1)[2] < DigestAt(i)[2] \/ DigestAt(i - 1)[2] = MaxSlot
    BY <2>1, <2>2, SlotFollows DEF DigestAt
  <2>. QED  BY <2>2, <2>3 DEF HasType, AfterLastSlot
<1>. QED
  BY <1>1, FollowsAlways, PTL

-----------------------------------------------------------------------------
(* Turns *)

\* Whoever seals: different authorities sign in turns by height.
THEOREM TurnsTaken == SealSpec => []TurnsAreTaken
<1>1. IInv /\ RulesInForce => TurnsAreTaken
  <2>. DEFINE auth == Inner(engine).authorities
  <2>. SUFFICES ASSUME IInv, RulesInForce,
                       Inner(engine).kind = "PoaRoundRobinByHeight", IsInjective(auth),
                       NEW i \in Added, NEW j \in Added, i < j, j - i < Len(auth)
                PROVE  DigestAt(i)[2] # DigestAt(j)[2]
    BY DEF TurnsAreTaken
  <2>1. /\ engine \in Engines /\ engine.kind # "Forked"
        /\ i \in Nat /\ j \in Nat /\ i - 1 >= 1 /\ j - 1 >= 1
        /\ chain[i].height = i - 1 /\ chain[j].height = j - 1
    BY Shape DEF Inner, Added
  <2>2. IsAuthorities(auth)
    <3>1. IsEngine(engine)
      BY <2>1, ChainAssumption DEF IsFork
    <3>. QED  BY <3>1 DEF Inner, IsEngine, IsPlain, PlainKinds
  <2>3. Len(auth) \in Nat \ {0} /\ DOMAIN auth = 1..Len(auth)
    BY <2>2, Authorities
  <2>4. DigestAt(i)[2] = TurnAt(auth, i - 1) /\ DigestAt(j)[2] = TurnAt(auth, j - 1)
    BY <2>1 DEF RulesInForce, InForce
  <2>. DEFINE a == (i - 1) - 1
              b == (j - 1) - 1
  <2>5. a \in Nat /\ b \in Nat /\ a < b /\ b - a < Len(auth)
    BY <2>1
  <2>. HIDE DEF a, b, auth
  <2>6. a % Len(auth) # b % Len(auth)
    BY <2>3, <2>5, DifferentRemainders
  <2>7. (a % Len(auth)) + 1 \in 1..Len(auth) /\ (b % Len(auth)) + 1 \in 1..Len(auth)
    BY <2>3, <2>5
  <2>8. (a % Len(auth)) + 1 # (b % Len(auth)) + 1
    BY <2>3, <2>5, <2>6
  <2>9. auth[(a % Len(auth)) + 1] # auth[(b % Len(auth)) + 1]
    BY <2>3, <2>7, <2>8 DEF IsInjective, auth
  <2>. QED  BY <2>4, <2>9 DEF TurnAt, a, b
<1>2. SealSpec => []IInv
  BY InitInv, InvStep, PTL DEF SealSpec
<1>. QED
  BY <1>1, <1>2, RulesAreObeyed, PTL
=============================================================================
