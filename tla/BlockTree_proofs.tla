-------------------------- MODULE BlockTree_proofs --------------------------
(***************************************************************************)
(* Theorems about the fork choice rules, for any sets of nonces,           *)
(* authorities and roots and trees of any size: what LongestChain and      *)
(* Ghost name, that the best weight of the others never falls, and that    *)
(* no weight, of a chain or of a subtree, is more than its blocks carry.   *)
(***************************************************************************)
EXTENDS BlockTree, Collections_proofs

LEMMA OnlyOne ==
    ASSUME NEW w \in Nat
    PROVE  Min({w}) = w /\ Max({w}) = w /\ Cardinality({w}) = 1
<1>1. Min({w}) = w /\ Max({w}) = w
  BY DEF Min, Max
<1>. QED  BY <1>1, FS_Singleton

-----------------------------------------------------------------------------
(* What holds of the tree under every rule *)

Grown ==
    /\ \A b \in stored : b.header.height \in Nat
    /\ hooked \in Seq(stored)

\* What a call puts on a parent: one higher than it, and not genesis.
LEMMA BlockOnParent ==
    ASSUME NEW p, p.header.height \in Nat, NEW hash, NEW root, NEW digest
    PROVE  LET b == BlockOn(hash, p.header.height + 1, root, digest)
           IN /\ b.header.height = p.header.height + 1
              /\ b.header.parent = hash
              /\ b.header.consensus_digest = digest
              /\ b.header.height \in Nat \ {0}
              /\ b # GenesisBlock
BY DEF BlockOn, GenesisBlock

\* What was shown when one more block is.
LEMMA ShownToo ==
    ASSUME Grown, NEW b, hooked' = Append(hooked, b)
    PROVE  Hooked' = Hooked \cup {b} /\ Hooked \subseteq stored
<1>0. PICK n \in Nat : n = Len(hooked)
  BY DEF Grown
<1>1. /\ DOMAIN hooked = 1..n /\ DOMAIN hooked' = 1..n + 1
      /\ hooked'[n + 1] = b /\ \A j \in 1..n : hooked'[j] = hooked[j]
  BY <1>0 DEF Grown
<1>2. Hooked \subseteq stored
  BY <1>1 DEF Hooked, Range, Grown
<1>3. ASSUME NEW x \in Hooked \cup {b} PROVE x \in Hooked'
  <2>1. n + 1 \in 1..n + 1 /\ \A j \in 1..n : j \in 1..n + 1
    OBVIOUS
  <2>. QED  BY <1>1, <1>3, <2>1 DEF Hooked, Range
<1>4. ASSUME NEW j \in 1..n + 1 PROVE hooked'[j] \in Hooked \cup {b}
  <2>1. j \in 1..n \/ j = n + 1
    OBVIOUS
  <2>. QED  BY <1>1, <2>1 DEF Hooked, Range
<1>5. Hooked' \subseteq Hooked \cup {b}
  BY <1>1, <1>4 DEF Hooked, Range
<1>. QED  BY <1>2, <1>3, <1>5

\* Hashes of different blocks differ.
LEMMA BlockOfHash == ASSUME NEW b \in Hooked PROVE BlockOf(HashBlock(b)) = b
BY DEF BlockOf, HashBlock

LEMMA TreeGrows == TreeSpec => []Grown
<1>1. TreeInit => Grown
  <2>. SUFFICES ASSUME TreeInit PROVE Grown
    OBVIOUS
  <2>1. GenesisBlock.header.height \in Nat
    BY DEF GenesisBlock, BlockOn
  <2>2. stored = {GenesisBlock} /\ (hooked = <<>> \/ hooked = <<GenesisBlock>>)
    BY DEF TreeInit
  <2>3. <<>> \in Seq(stored) /\ <<GenesisBlock>> \in Seq(stored)
    <3>. HIDE DEF GenesisBlock
    <3>. QED  BY <2>2
  <2>4. hooked \in Seq(stored)
    BY <2>2, <2>3
  <2>. QED  BY <2>1, <2>2, <2>4 DEF Grown
<1>2. Grown /\ [TreeNext]_treeVars => Grown'
  <2>. SUFFICES ASSUME Grown, [TreeNext]_treeVars PROVE Grown'
    OBVIOUS
  <2>1. ASSUME NEW p \in stored, NEW root \in TreeRoots, NEW digest \in Digests,
               Author(p, root, digest)
        PROVE  Grown'
    <3>. DEFINE b == BlockOn(HashBlock(p), p.header.height + 1, root, digest)
    <3>1. b.header.height \in Nat
      BY BlockOnParent DEF Grown
    <3>2. stored' = stored \cup {b} /\ hooked' = Append(hooked, b)
      BY <2>1 DEF Author
    <3>. HIDE DEF b
    <3>3. hooked \in Seq(stored \cup {b})
      BY DEF Grown
    <3>. QED  BY <3>1, <3>2, <3>3 DEF Grown
  <2>2. ASSUME NEW p \in stored, NEW root \in TreeRoots, NEW digest \in Digests,
               Import(p, root, digest)
        PROVE  Grown'
    <3>. DEFINE b == BlockOn(HashHeader(p.header), p.header.height + 1, root, digest)
    <3>1. b.header.height \in Nat
      BY BlockOnParent DEF Grown
    <3>2. stored' = stored \cup {b} /\ hooked' = hooked
      BY <2>2 DEF Import
    <3>. HIDE DEF b
    <3>3. hooked \in Seq(stored \cup {b})
      BY DEF Grown
    <3>. QED  BY <3>1, <3>2, <3>3 DEF Grown
  <2>3. CASE UNCHANGED treeVars
    BY <2>3 DEF Grown, treeVars
  <2>. QED  BY <2>1, <2>2, <2>3 DEF TreeNext
<1>. QED  BY <1>1, <1>2, PTL DEF TreeSpec

-----------------------------------------------------------------------------
(* LongestChain *)

\* The rule remembers the first of the highest blocks it was shown, or that
\* there was none above height 0.
FirstHighest(k) ==
    /\ k \in DOMAIN hooked
    /\ fc = [best_header_height |-> hooked[k].header.height,
             best_header_hash |-> HashBlock(hooked[k])]
    /\ hooked[k].header.height > 0
    /\ \A j \in 1..k - 1 : hooked[j].header.height < hooked[k].header.height

Remembered ==
    rule = "LongestChain" =>
        /\ fc.best_header_height \in Nat
        /\ \A j \in DOMAIN hooked : hooked[j].header.height <= fc.best_header_height
        /\ fc = LongestInit \/ \E k \in DOMAIN hooked : FirstHighest(k)

LEMMA RemembersFirst == TreeSpec => []Remembered
<1>1. TreeInit => Remembered
  <2>. SUFFICES ASSUME TreeInit, rule = "LongestChain" PROVE Remembered
    BY DEF Remembered
  <2>1. GenesisBlock.header.height = 0
    BY DEF GenesisBlock, BlockOn
  <2>2. ImportHook("LongestChain", LongestInit, GenesisBlock) = LongestInit
    BY <2>1 DEF ImportHook, LongestHook, LongestInit
  <2>3. fc = LongestInit /\ (hooked = <<>> \/ hooked = <<GenesisBlock>>)
    BY <2>2 DEF TreeInit, DefaultOf
  <2>. QED  BY <2>1, <2>3 DEF Remembered, LongestInit
<1>2. Grown /\ Remembered /\ [TreeNext]_treeVars => Remembered'
  <2>. SUFFICES ASSUME Grown, Remembered, [TreeNext]_treeVars, rule' = "LongestChain"
                PROVE  Remembered'
    BY DEF Remembered
  <2>1. ASSUME NEW p \in stored, NEW root \in TreeRoots, NEW digest \in Digests,
               Author(p, root, digest)
        PROVE  Remembered'
    <3>. DEFINE b == BlockOn(HashBlock(p), p.header.height + 1, root, digest)
    <3>0. PICK n \in Nat : n = Len(hooked) + 1
      BY DEF Grown
    <3>1. b.header.height \in Nat \ {0}
      BY BlockOnParent DEF Grown
    <3>2. rule = "LongestChain" /\ hooked' = Append(hooked, b) /\ fc' = LongestHook(fc, b)
      BY <2>1 DEF Author, ImportHook
    <3>. HIDE DEF b
    <3>3. /\ n \in Nat \ {0} /\ DOMAIN hooked = 1..n - 1 /\ DOMAIN hooked' = 1..n
          /\ hooked'[n] = b /\ \A j \in 1..n - 1 : hooked'[j] = hooked[j]
      BY <3>0, <3>2 DEF Grown
    <3>4. \A j \in 1..n - 1 : hooked[j].header.height \in Nat
      BY <3>3 DEF Grown
    <3>5. CASE b.header.height > fc.best_header_height
      <4>1. fc' = [best_header_height |-> b.header.height, best_header_hash |-> HashBlock(b)]
        BY <3>2, <3>5 DEF LongestHook
      <4>2. \A j \in 1..n - 1 : hooked[j].header.height < b.header.height
        BY <3>1, <3>2, <3>3, <3>4, <3>5 DEF Remembered
      <4>3. FirstHighest(n)'
        BY <3>1, <3>3, <4>1, <4>2 DEF FirstHighest
      <4>4. \A j \in DOMAIN hooked' : hooked'[j].header.height <= b.header.height
        BY <3>1, <3>3, <3>4, <4>2
      <4>5. n \in DOMAIN hooked'
        BY <3>3
      <4>. QED  BY <3>1, <4>1, <4>3, <4>4, <4>5 DEF Remembered
    <3>6. CASE ~ (b.header.height > fc.best_header_height)
      <4>1. fc' = fc
        BY <3>2, <3>6 DEF LongestHook
      <4>2. \A j \in DOMAIN hooked' : hooked'[j].header.height <= fc.best_header_height
        BY <3>1, <3>2, <3>3, <3>6 DEF Remembered
      <4>3. ASSUME NEW k \in DOMAIN hooked, FirstHighest(k)
            PROVE  k \in DOMAIN hooked' /\ FirstHighest(k)'
        <5>1. k \in 1..n - 1 /\ k \in 1..n /\ \A j \in 1..k - 1 : j \in 1..n - 1
          BY <3>3, <4>3
        <5>2. hooked'[k] = hooked[k] /\ \A j \in 1..k - 1 : hooked'[j] = hooked[j]
          BY <3>3, <5>1
        <5>. QED  BY <3>3, <4>1, <4>3, <5>1, <5>2 DEF FirstHighest
      <4>. QED  BY <3>2, <4>1, <4>2, <4>3 DEF Remembered
    <3>. QED  BY <3>5, <3>6
  <2>2. ASSUME NEW p \in stored, NEW root \in TreeRoots, NEW digest \in Digests,
               Import(p, root, digest)
        PROVE  Remembered'
    BY <2>2 DEF Import, Remembered, FirstHighest
  <2>3. CASE UNCHANGED treeVars
    BY <2>3 DEF treeVars, Remembered, FirstHighest
  <2>. QED  BY <2>1, <2>2, <2>3 DEF TreeNext
<1>. QED  BY <1>1, <1>2, TreeGrows, PTL DEF TreeSpec

\* LongestChain names the first block of the greatest height, at every moment
\* and on every tree (p3:52-57).
THEOREM FirstOfTheHighest == TreeSpec => []FirstHighestIsBest
<1>1. Grown /\ Remembered => FirstHighestIsBest
  <2>. SUFFICES ASSUME Grown, Remembered, rule = "LongestChain", NEW i \in DOMAIN hooked
                PROVE  Best = HashBlock(hooked[i]) <=>
                         /\ hooked[i].header.height > 0
                         /\ \A j \in DOMAIN hooked :
                              hooked[j].header.height <= hooked[i].header.height
                         /\ \E k \in 1..i :
                              /\ hooked[k] = hooked[i]
                              /\ \A j \in 1..k - 1 :
                                   hooked[j].header.height < hooked[i].header.height
    BY DEF FirstHighestIsBest
  <2>1. DOMAIN hooked = 1..Len(hooked) /\ Len(hooked) \in Nat
    BY DEF Grown
  <2>2. \A j \in DOMAIN hooked : hooked[j].header.height \in Nat
    BY <2>1 DEF Grown
  <2>3. Best = fc.best_header_hash
    BY DEF Best, BestBlock, LongestBest
  <2>4. CASE fc = LongestInit
    <3>1. Best # HashBlock(hooked[i])
      BY <2>3, <2>4 DEF LongestInit, ZeroHash, HashBlock
    <3>2. hooked[i].header.height <= 0
      BY <2>4 DEF Remembered, LongestInit
    <3>. QED  BY <2>2, <3>1, <3>2
  <2>5. ASSUME NEW k \in DOMAIN hooked, FirstHighest(k)
        PROVE  Best = HashBlock(hooked[i]) <=>
                         /\ hooked[i].header.height > 0
                         /\ \A j \in DOMAIN hooked :
                              hooked[j].header.height <= hooked[i].header.height
                         /\ \E l \in 1..i :
                              /\ hooked[l] = hooked[i]
                              /\ \A j \in 1..l - 1 :
                                   hooked[j].header.height < hooked[i].header.height
    <3>1. Best = HashBlock(hooked[k])
      BY <2>3, <2>5 DEF FirstHighest
    <3>2. Best = HashBlock(hooked[i]) <=> hooked[i] = hooked[k]
      BY <3>1 DEF HashBlock
    <3>3. \A j \in DOMAIN hooked : hooked[j].header.height <= hooked[k].header.height
      BY <2>5 DEF Remembered, FirstHighest
    <3>4. /\ hooked[k].header.height > 0
          /\ \A j \in 1..k - 1 : hooked[j].header.height < hooked[k].header.height
      BY <2>5 DEF FirstHighest
    <3>5. ASSUME hooked[i] = hooked[k]
          PROVE  \E l \in 1..i : /\ hooked[l] = hooked[i]
                                 /\ \A j \in 1..l - 1 :
                                      hooked[j].header.height < hooked[i].header.height
      <4>1. CASE k <= i
        <5>1. k \in 1..i
          BY <2>1, <4>1
        <5>. QED  BY <3>4, <3>5, <5>1
      <4>2. CASE i < k
        <5>1. i \in 1..k - 1
          BY <2>1, <4>2
        <5>2. hooked[i].header.height < hooked[k].header.height
          BY <3>4, <5>1
        <5>. QED  BY <2>2, <3>5, <5>2
      <4>. QED  BY <2>1, <4>1, <4>2
    <3>6. ASSUME \A j \in DOMAIN hooked : hooked[j].header.height <= hooked[i].header.height,
                 NEW l \in 1..i, hooked[l] = hooked[i],
                 \A j \in 1..l - 1 : hooked[j].header.height < hooked[i].header.height
          PROVE  hooked[i] = hooked[k]
      <4>1. hooked[i].header.height = hooked[k].header.height
        BY <2>2, <3>3, <3>6
      <4>2. l \in Nat /\ k \in Nat /\ l >= 1 /\ k >= 1
        BY <2>1
      <4>3. ~ (l < k)
        <5>. SUFFICES ASSUME l < k PROVE FALSE
          OBVIOUS
        <5>1. l \in 1..k - 1
          BY <4>2
        <5>2. hooked[l].header.height < hooked[k].header.height
          BY <3>4, <5>1
        <5>. QED  BY <2>2, <3>6, <4>1, <5>2
      <4>4. ~ (k < l)
        <5>. SUFFICES ASSUME k < l PROVE FALSE
          OBVIOUS
        <5>1. k \in 1..l - 1
          BY <4>2
        <5>2. hooked[k].header.height < hooked[i].header.height
          BY <3>6, <5>1
        <5>. QED  BY <2>2, <4>1, <5>2
      <4>5. l = k
        BY <4>2, <4>3, <4>4
      <4>. QED  BY <3>6, <4>5
    <3>. QED  BY <3>2, <3>3, <3>4, <3>5, <3>6
  <2>. QED  BY <2>4, <2>5 DEF Remembered
<1>. QED  BY <1>1, TreeGrows, RemembersFirst, PTL

-----------------------------------------------------------------------------
(* The rules that keep weights *)

Weighted == rule \in Rules /\ (rule # "LongestChain" => DOMAIN fc \in SUBSET Nat)

\* No weight that was there falls, and weights stay naturals.
Heavier(m, n) ==
    /\ DOMAIN n \in SUBSET Nat
    /\ \A w \in DOMAIN m : \E v \in DOMAIN n : w <= v

\* Adding to what one entry weighs, and giving a new entry a weight.
LEMMA OneGrows ==
    ASSUME NEW m, DOMAIN m \in SUBSET Nat, NEW w \in DOMAIN m, NEW d \in Nat, NEW v
    PROVE  Heavier(m, Put(Del(m, w), w + d, v))
<1>1. DOMAIN Put(Del(m, w), w + d, v) = (DOMAIN m \ {w}) \cup {w + d}
  BY DEF Put, Del
<1>2. w \in Nat /\ w + d \in Nat /\ w <= w + d
  OBVIOUS
<1>3. ASSUME NEW u \in DOMAIN m
      PROVE  \E x \in (DOMAIN m \ {w}) \cup {w + d} : u <= x
  <2>1. CASE u = w
    BY <1>2, <2>1
  <2>2. CASE u # w
    BY <2>2
  <2>. QED  BY <2>1, <2>2
<1>. QED  BY <1>1, <1>2, <1>3 DEF Heavier

LEMMA OneMore ==
    ASSUME NEW m, DOMAIN m \in SUBSET Nat, NEW d \in Nat, NEW v
    PROVE  Heavier(m, Put(m, d, v))
<1>1. DOMAIN Put(m, d, v) = DOMAIN m \cup {d}
  BY DEF Put
<1>. QED  BY <1>1 DEF Heavier

LEMMA HookIsHeavier ==
    ASSUME NEW r \in Rules \ {"LongestChain"}, NEW m, DOMAIN m \in SUBSET Nat, NEW b,
           r # "MostAliceSigs" => b.header.consensus_digest \in Nat
    PROVE  Heavier(m, ImportHook(r, m, b))
<1>1. CASE r = "HeaviestChain"
  <2>. DEFINE ends == EndingIn(m, b.header.parent)
  <2>1. ends \in SUBSET Nat /\ ends \subseteq DOMAIN m
    BY DEF EndingIn
  <2>2. ImportHook(r, m, b) = HeaviestHook(m, b) /\ b.header.consensus_digest \in Nat
    BY <1>1 DEF ImportHook
  <2>3. CASE ends = {}
    <3>1. HeaviestHook(m, b) = Put(m, b.header.consensus_digest, HashBlock(b))
      BY <2>3 DEF HeaviestHook
    <3>. QED  BY <2>2, <3>1, OneMore
  <2>4. CASE ends # {}
    <3>1. Min(ends) \in DOMAIN m
      BY <2>1, <2>4, MinOfNats
    <3>2. HeaviestHook(m, b) =
              Put(Del(m, Min(ends)), Min(ends) + b.header.consensus_digest, HashBlock(b))
      BY <2>4 DEF HeaviestHook
    <3>. QED  BY <2>2, <3>1, <3>2, OneGrows
  <2>. QED  BY <2>3, <2>4
<1>2. CASE r = "Ghost"
  <2>. DEFINE found == Containing(m, b.header.parent)
  <2>1. found \in SUBSET Nat /\ found \subseteq DOMAIN m
    BY DEF Containing
  <2>2. ImportHook(r, m, b) = GhostHook(m, b) /\ b.header.consensus_digest \in Nat
    BY <1>2 DEF ImportHook
  <2>3. CASE found = {}
    <3>1. GhostHook(m, b) = Put(m, b.header.consensus_digest, <<HashBlock(b)>>)
      BY <2>3 DEF GhostHook
    <3>. QED  BY <2>2, <3>1, OneMore
  <2>4. CASE found # {}
    <3>1. Min(found) \in DOMAIN m
      BY <2>1, <2>4, MinOfNats
    <3>2. GhostHook(m, b) =
              Put(Del(m, Min(found)), Min(found) + b.header.consensus_digest,
                  Append(m[Min(found)], HashBlock(b)))
      BY <2>4 DEF GhostHook
    <3>. QED  BY <2>2, <3>1, <3>2, OneGrows
  <2>. QED  BY <2>3, <2>4
<1>3. CASE r = "MostAliceSigs"
  <2>. DEFINE ends == EndingIn(m, b.header.parent)
              signed == IF b.header.consensus_digest = Alice THEN 1 ELSE 0
  <2>1. ends \in SUBSET Nat /\ ends \subseteq DOMAIN m
    BY DEF EndingIn
  <2>2. ImportHook(r, m, b) = MostAliceHook(m, b)
    BY <1>3 DEF ImportHook
  <2>3. CASE ends = {}
    <3>1. MostAliceHook(m, b) = Put(m, signed, HashBlock(b)) /\ signed \in Nat
      BY <2>3 DEF MostAliceHook
    <3>. HIDE DEF signed
    <3>. QED  BY <2>2, <3>1, OneMore
  <2>4. CASE ends # {} /\ b.header.consensus_digest = Alice
    <3>1. Min(ends) \in DOMAIN m
      BY <2>1, <2>4, MinOfNats
    <3>2. MostAliceHook(m, b) = Put(Del(m, Min(ends)), Min(ends) + 1, HashBlock(b))
      BY <2>4 DEF MostAliceHook
    <3>. QED  BY <2>2, <3>1, <3>2, OneGrows
  <2>5. CASE ends # {} /\ b.header.consensus_digest # Alice
    <3>1. MostAliceHook(m, b) = m
      BY <2>5 DEF MostAliceHook
    <3>. QED  BY <2>2, <3>1 DEF Heavier
  <2>. QED  BY <2>3, <2>4, <2>5
<1>. QED  BY <1>1, <1>2, <1>3 DEF Rules

LEMMA StepIsHeavier ==
    ASSUME Weighted, [TreeNext]_treeVars
    PROVE  rule' = rule /\ (rule # "LongestChain" => Heavier(fc, fc'))
<1>. USE DigestsAssumption
<1>1. ASSUME rule # "LongestChain", fc' = fc
      PROVE  Heavier(fc, fc')
  BY <1>1 DEF Weighted, Heavier
<1>2. ASSUME NEW p \in stored, NEW root \in TreeRoots, NEW digest \in Digests,
             Author(p, root, digest)
      PROVE  rule' = rule /\ (rule # "LongestChain" => Heavier(fc, fc'))
  <2>. DEFINE b == BlockOn(HashBlock(p), p.header.height + 1, root, digest)
  <2>1. b.header.consensus_digest = digest
    BY DEF BlockOn
  <2>2. rule # "MostAliceSigs" => digest \in Nat
    BY DEF Digests
  <2>3. rule' = rule /\ fc' = ImportHook(rule, fc, b)
    BY <1>2 DEF Author
  <2>. HIDE DEF b
  <2>. QED  BY <2>1, <2>2, <2>3, HookIsHeavier DEF Weighted
<1>3. ASSUME NEW p \in stored, NEW root \in TreeRoots, NEW digest \in Digests,
             Import(p, root, digest)
      PROVE  rule' = rule /\ (rule # "LongestChain" => Heavier(fc, fc'))
  BY <1>1, <1>3 DEF Import
<1>4. CASE UNCHANGED treeVars
  BY <1>1, <1>4 DEF treeVars
<1>. QED  BY <1>2, <1>3, <1>4 DEF TreeNext

LEMMA GenesisWeighs ==
    ASSUME TreeInit
    PROVE  Weighted
<1>1. rule \in Rules
  BY DigestsAssumption DEF TreeInit
<1>2. ASSUME rule # "LongestChain"
      PROVE  DOMAIN fc \in SUBSET Nat
  <2>1. DefaultOf(rule) = EmptyMap /\ DOMAIN EmptyMap \in SUBSET Nat
    BY <1>2 DEF DefaultOf, EmptyMap
  <2>2. rule # "MostAliceSigs" => GenesisBlock.header.consensus_digest \in Nat
    BY DEF GenesisBlock, BlockOn
  <2>3. Heavier(EmptyMap, ImportHook(rule, EmptyMap, GenesisBlock))
    BY <1>1, <1>2, <2>1, <2>2, HookIsHeavier
  <2>. QED  BY <2>1, <2>3 DEF TreeInit, Heavier
<1>. QED  BY <1>1, <1>2 DEF Weighted

LEMMA AlwaysWeighted == TreeSpec => []Weighted
<1>1. Weighted /\ [TreeNext]_treeVars => Weighted'
  BY StepIsHeavier DEF Weighted, Heavier
<1>. QED  BY <1>1, GenesisWeighs, PTL DEF TreeSpec

\* The weight of the best chain never falls, for any digests and however many
\* chains collide on a weight (p3:100-108, p3:153-170, p3:221-229).
THEOREM WeightNeverFalls == TreeSpec => BestWeightNeverFalls
<1>1. Weighted /\ [TreeNext]_treeVars =>
          [rule # "LongestChain" => \A w \in DOMAIN fc : \E v \in DOMAIN fc' : w <= v]_treeVars
  BY StepIsHeavier DEF Heavier
<1>. QED  BY <1>1, AlwaysWeighted, PTL DEF TreeSpec, BestWeightNeverFalls

-----------------------------------------------------------------------------
(* Ghost *)

\* One list, of all blocks shown, in the order they were.
OneList(w) ==
    /\ DOMAIN fc = {w}
    /\ fc[w] = [i \in 1..Len(hooked) |-> HashBlock(hooked[i])]

InOneList ==
    rule = "Ghost" /\ hooked # <<>> /\ EverythingShown => \E w \in Nat : OneList(w)

\* What was shown before the last block was shown without it, too.
LEMMA ShownBefore ==
    ASSUME Grown, NEW b, hooked' = Append(hooked, b), rule' = rule,
           EverythingShown', b # GenesisBlock
    PROVE  /\ EverythingShown
           /\ \E j \in 1..Len(hooked) : b.header.parent = HashBlock(hooked[j])
<1>0. PICK n \in Nat : n = Len(hooked)
  BY DEF Grown
<1>1. /\ DOMAIN hooked = 1..n /\ DOMAIN hooked' = 1..n + 1
      /\ hooked'[n + 1] = b /\ \A j \in 1..n : hooked'[j] = hooked[j]
  BY <1>0 DEF Grown
<1>2. \A i \in 1..n + 1 : \/ hooked'[i] = GenesisBlock
                          \/ \E j \in 1..i - 1 : hooked'[i].header.parent = HashBlock(hooked'[j])
  <2>1. GenesisBlock' = GenesisBlock
    BY DEF GenesisBlock, BlockOn
  <2>2. \A i \in DOMAIN hooked' :
            \/ hooked'[i] = GenesisBlock
            \/ \E j \in 1..i - 1 : hooked'[i].header.parent = HashBlock(hooked'[j])
    BY <2>1 DEF EverythingShown
  <2>. QED  BY <1>1, <2>2
<1>3. \E j \in 1..n : b.header.parent = HashBlock(hooked[j])
  <2>1. n + 1 \in 1..n + 1 /\ (n + 1) - 1 = n
    OBVIOUS
  <2>2. \E j \in 1..n : hooked'[n + 1].header.parent = HashBlock(hooked'[j])
    BY <1>1, <1>2, <2>1
  <2>. QED  BY <1>1, <2>2
<1>4. ASSUME NEW i \in 1..n
      PROVE  \/ hooked[i] = GenesisBlock
             \/ \E j \in 1..i - 1 : hooked[i].header.parent = HashBlock(hooked[j])
  <2>1. i \in 1..n + 1 /\ \A j \in 1..i - 1 : j \in 1..n
    OBVIOUS
  <2>2. hooked'[i] = hooked[i] /\ \A j \in 1..i - 1 : hooked'[j] = hooked[j]
    BY <1>1, <2>1
  <2>. QED  BY <1>2, <2>1, <2>2
<1>. QED  BY <1>0, <1>1, <1>3, <1>4 DEF EverythingShown

LEMMA AlwaysOneList == TreeSpec => []InOneList
<1>1. TreeInit => InOneList
  <2>. SUFFICES ASSUME TreeInit, rule = "Ghost", hooked # <<>> PROVE \E w \in Nat : OneList(w)
    BY DEF InOneList
  <2>1. GenesisBlock.header.consensus_digest = 0
    BY DEF GenesisBlock, BlockOn
  <2>2. hooked = <<GenesisBlock>> /\ fc = GhostHook(EmptyMap, GenesisBlock)
    BY DEF TreeInit, DefaultOf, ImportHook
  <2>3. Containing(EmptyMap, GenesisBlock.header.parent) = {}
    BY DEF Containing, EmptyMap
  <2>4. fc = Put(EmptyMap, 0, <<HashBlock(GenesisBlock)>>)
    BY <2>1, <2>2, <2>3 DEF GhostHook
  <2>5. DOMAIN fc = {0} /\ fc[0] = <<HashBlock(GenesisBlock)>>
    BY <2>4 DEF Put, EmptyMap
  <2>6. fc[0] = [i \in 1..Len(hooked) |-> HashBlock(hooked[i])]
    <3>. HIDE DEF GenesisBlock
    <3>1. Len(hooked) = 1 /\ hooked[1] = GenesisBlock
      BY <2>2
    <3>2. fc[0] = [i \in 1..1 |-> HashBlock(GenesisBlock)]
      BY <2>5
    <3>. QED  BY <3>1, <3>2
  <2>. QED  BY <2>5, <2>6 DEF OneList
<1>2. Grown /\ InOneList /\ [TreeNext]_treeVars => InOneList'
  <2>. SUFFICES ASSUME Grown, InOneList, [TreeNext]_treeVars,
                       rule' = "Ghost", hooked' # <<>>, EverythingShown'
                PROVE  \E w \in Nat : OneList(w)'
    BY DEF InOneList
  <2>1. ASSUME rule' = rule, fc' = fc, hooked' = hooked
        PROVE  \E w \in Nat : OneList(w)'
    <3>1. EverythingShown
      BY <2>1 DEF EverythingShown, GenesisBlock, BlockOn
    <3>. QED  BY <2>1, <3>1 DEF InOneList, OneList
  <2>2. ASSUME NEW p \in stored, NEW root \in TreeRoots, NEW digest \in Digests,
               Author(p, root, digest)
        PROVE  \E w \in Nat : OneList(w)'
    <3>. DEFINE b == BlockOn(HashBlock(p), p.header.height + 1, root, digest)
    <3>0. b.header.consensus_digest = digest
      BY DEF BlockOn
    <3>1. b # GenesisBlock
      BY BlockOnParent DEF Grown
    <3>2. rule = "Ghost" /\ rule' = rule /\ hooked' = Append(hooked, b) /\ fc' = GhostHook(fc, b)
      BY <2>2 DEF Author, ImportHook
    <3>3. digest \in Nat
      BY <3>2, DigestsAssumption DEF Digests
    <3>. HIDE DEF b
    <3>4. PICK j \in 1..Len(hooked) : b.header.parent = HashBlock(hooked[j])
      BY <3>1, <3>2, ShownBefore
    <3>5. hooked # <<>> /\ EverythingShown
      <4>1. hooked # <<>>
        BY <3>4 DEF Grown
      <4>. QED  BY <4>1, <3>1, <3>2, ShownBefore
    <3>6. PICK w \in Nat : OneList(w)
      BY <3>2, <3>5 DEF InOneList
    <3>7. Containing(fc, b.header.parent) = {w}
      BY <3>4, <3>6 DEF Containing, OneList
    <3>8. fc' = Put(Del(fc, w), w + digest, Append(fc[w], HashBlock(b)))
      BY <3>0, <3>2, <3>7, OnlyOne DEF GhostHook
    <3>9. DOMAIN fc' = {w + digest} /\ fc'[w + digest] = Append(fc[w], HashBlock(b))
      BY <3>6, <3>8 DEF OneList, Put, Del
    <3>10. Append(fc[w], HashBlock(b)) = [i \in 1..Len(hooked') |-> HashBlock(hooked'[i])]
      <4>0. PICK n \in Nat : n = Len(hooked)
        BY DEF Grown
      <4>1. /\ Len(hooked') = n + 1 /\ hooked'[n + 1] = b
            /\ \A i \in 1..n : hooked'[i] = hooked[i]
        BY <3>2, <4>0 DEF Grown
      <4>2. fc[w] = [i \in 1..n |-> HashBlock(hooked[i])]
        BY <3>6, <4>0 DEF OneList
      <4>. DEFINE hashes == {HashBlock(x) : x \in {hooked'[i] : i \in 1..n + 1}}
      <4>3. HashBlock(b) \in hashes /\ \A i \in 1..n : HashBlock(hooked[i]) \in hashes
        <5>1. n + 1 \in 1..n + 1 /\ \A i \in 1..n : i \in 1..n + 1
          OBVIOUS
        <5>2. b \in {hooked'[i] : i \in 1..n + 1}
          BY <4>1, <5>1
        <5>3. \A i \in 1..n : hooked[i] \in {hooked'[k] : k \in 1..n + 1}
          BY <4>1, <5>1
        <5>. QED  BY <5>2, <5>3
      <4>. HIDE DEF hashes
      <4>4. fc[w] \in Seq(hashes) /\ Len(fc[w]) = n
        BY <4>2, <4>3
      <4>5. \A i \in 1..n : fc[w][i] = HashBlock(hooked[i])
        BY <4>2
      <4>6. /\ Append(fc[w], HashBlock(b)) \in Seq(hashes)
            /\ Len(Append(fc[w], HashBlock(b))) = n + 1
            /\ Append(fc[w], HashBlock(b))[n + 1] = HashBlock(b)
            /\ \A i \in 1..n : Append(fc[w], HashBlock(b))[i] = fc[w][i]
        BY <4>3, <4>4, AppendProperties
      <4>7. \A i \in 1..n + 1 : Append(fc[w], HashBlock(b))[i] = HashBlock(hooked'[i])
        BY <4>1, <4>5, <4>6
      <4>8. Append(fc[w], HashBlock(b)) =
                [i \in 1..n + 1 |-> Append(fc[w], HashBlock(b))[i]]
        BY <4>6
      <4>. QED  BY <4>1, <4>7, <4>8
    <3>11. w + digest \in Nat /\ OneList(w + digest)'
      BY <3>3, <3>9, <3>10 DEF OneList
    <3>. QED  BY <3>11
  <2>3. ASSUME NEW p \in stored, NEW root \in TreeRoots, NEW digest \in Digests,
               Import(p, root, digest)
        PROVE  \E w \in Nat : OneList(w)'
    BY <2>1, <2>3 DEF Import
  <2>4. CASE UNCHANGED treeVars
    BY <2>1, <2>4 DEF treeVars
  <2>. QED  BY <2>2, <2>3, <2>4 DEF TreeNext
<1>. QED  BY <1>1, <1>2, TreeGrows, PTL DEF TreeSpec

\* Shown everything, Ghost has a single list, as all but genesis have their parent on
\* it, and so names the block it was shown last, whatever the work on the sides of a
\* fork: this is why GreedyDescent fails at any fork whose lighter side comes last.
LastShownIsBest ==
    rule = "Ghost" /\ hooked # <<>> /\ EverythingShown =>
        /\ Cardinality(DOMAIN fc) = 1
        /\ Best = HashBlock(Last(hooked))

\* Ghost, shown everything, names the block it was shown last (p3:208-231).
THEOREM LastShown == TreeSpec => []LastShownIsBest
<1>1. Grown /\ InOneList => LastShownIsBest
  <2>. SUFFICES ASSUME Grown, InOneList, rule = "Ghost", hooked # <<>>, EverythingShown
                PROVE  Cardinality(DOMAIN fc) = 1 /\ Best = HashBlock(Last(hooked))
    BY DEF LastShownIsBest
  <2>1. PICK w \in Nat : OneList(w)
    BY DEF InOneList
  <2>2. Cardinality(DOMAIN fc) = 1 /\ AtGreatestKey(fc) = fc[w]
    BY <2>1, OnlyOne DEF OneList, AtGreatestKey
  <2>3. fc # EmptyMap
    BY <2>1 DEF OneList, EmptyMap
  <2>4. Best = Last(fc[w])
    BY <2>2, <2>3 DEF Best, BestBlock, GhostBest
  <2>5. Len(hooked) \in Nat \ {0}
    BY DEF Grown
  <2>6. Len(fc[w]) = Len(hooked) /\ fc[w][Len(hooked)] = HashBlock(hooked[Len(hooked)])
    BY <2>1, <2>5 DEF OneList
  <2>. QED  BY <2>2, <2>4, <2>6 DEF Last
<1>. QED  BY <1>1, TreeGrows, AlwaysOneList, PTL

-----------------------------------------------------------------------------
(* HeaviestChain and MostAliceSigs *)

\* The operators of the tree, as functions of a rule and of a set of blocks.
GenesisUnder(r) ==
    BlockOn(ZeroHash, 0, ZeroHash, IF r = "MostAliceSigs" THEN Alice ELSE 0)

WorkUnder(r, b) ==
    IF r = "MostAliceSigs" THEN IF b.header.consensus_digest = Alice THEN 1 ELSE 0
                           ELSE b.header.consensus_digest

RefersTo(b, p) == b.header.parent \in {HashBlock(p), HashHeader(p.header)}

ParentIn(bs, b) == CHOOSE p \in bs : RefersTo(b, p)

WorkUpTo(f, r, bs, b) ==
    WorkUnder(r, b) + IF b = GenesisUnder(r) THEN 0 ELSE f[ParentIn(bs, b)]

\* f adds the work of every block to that of its ancestors, over a set of blocks.
Accumulates(f, r, bs) == f = [b \in bs |-> WorkUpTo(f, r, bs, b)]

LEMMA AccumulatedIsChosen == Accumulated = CHOOSE f : Accumulates(f, rule, stored)
BY DEF Accumulated, Accumulates, WorkUpTo, GenesisUnder, GenesisBlock, WorkUnder, WorkIn,
       ParentIn, ParentOf, RefersTo

\* A block without a body, which its header tells from all others.
Plain(b) == b = [header |-> b.header, body |-> <<>>]

\* Every block but genesis refers to a block of the set, and counts a natural.
Rooted(r, bs) ==
    /\ \A b \in bs : Plain(b) /\ WorkUnder(r, b) \in Nat
    /\ \A b \in bs \ {GenesisUnder(r)} : \E p \in bs : RefersTo(b, p)

LEMMA OneParent ==
    ASSUME NEW b, NEW p, NEW q, Plain(p), Plain(q), RefersTo(b, p), RefersTo(b, q)
    PROVE  p = q
<1>1. \/ b.header.parent = <<"block", p>>
      \/ b.header.parent = <<"header", p.header>>
  BY DEF RefersTo, HashBlock, HashHeader
<1>2. \/ b.header.parent = <<"block", q>>
      \/ b.header.parent = <<"header", q.header>>
  BY DEF RefersTo, HashBlock, HashHeader
<1>3. p = q \/ p.header = q.header
  BY <1>1, <1>2
<1>. QED  BY <1>3 DEF Plain

LEMMA ParentIsIn ==
    ASSUME NEW r, NEW bs, Rooted(r, bs), NEW b \in bs \ {GenesisUnder(r)}
    PROVE  ParentIn(bs, b) \in bs /\ RefersTo(b, ParentIn(bs, b))
<1>1. \E p \in bs : RefersTo(b, p)
  BY DEF Rooted
<1>. QED  BY <1>1 DEF ParentIn

\* A tree stays one when a block is put on it, and no parent changes.
LEMMA TreeTakesBlock ==
    ASSUME NEW r, NEW bs, Rooted(r, bs), NEW p \in bs,
           NEW c, Plain(c), WorkUnder(r, c) \in Nat, RefersTo(c, p)
    PROVE  /\ Rooted(r, bs \cup {c})
           /\ ParentIn(bs \cup {c}, c) = p
           /\ \A b \in bs \ {GenesisUnder(r)} : ParentIn(bs \cup {c}, b) = ParentIn(bs, b)
<1>. DEFINE cs == bs \cup {c}
<1>1. \A b \in cs : Plain(b)
  BY DEF Rooted
<1>2. ASSUME NEW b, NEW q \in bs, RefersTo(b, q) PROVE ParentIn(cs, b) = q
  <2>1. q \in cs
    OBVIOUS
  <2>2. ParentIn(cs, b) \in cs /\ RefersTo(b, ParentIn(cs, b))
    <3>1. \E x \in cs : RefersTo(b, x)
      BY <1>2, <2>1
    <3>. HIDE DEF cs
    <3>. QED  BY <3>1 DEF ParentIn
  <2>. HIDE DEF cs
  <2>. QED  BY <1>1, <1>2, <2>1, <2>2, OneParent
<1>3. Rooted(r, cs)
  BY DEF Rooted
<1>4. ParentIn(cs, c) = p
  BY <1>2
<1>5. ASSUME NEW b \in bs \ {GenesisUnder(r)} PROVE ParentIn(cs, b) = ParentIn(bs, b)
  BY <1>2, ParentIsIn
<1>. QED  BY <1>3, <1>4, <1>5

\* There is one such sum only, of naturals.
OnlySum(f, r, bs) ==
    /\ f \in [bs -> Nat]
    /\ Accumulates(f, r, bs)
    /\ \A g : Accumulates(g, r, bs) => g = f

\* The sum goes on to a block that is put on the tree: no sum changes, and the block
\* is worth its own work and what its parent is.
GoesOn(g, f, r, bs, p, c) ==
    /\ OnlySum(g, r, bs \cup {c})
    /\ \A b \in bs : g[b] = f[b]
    /\ g[c] = WorkUnder(r, c) + f[p]

LEMMA SumTakesBlock ==
    ASSUME NEW r, NEW bs, Rooted(r, bs), NEW f, OnlySum(f, r, bs), NEW p \in bs,
           NEW c, Plain(c), WorkUnder(r, c) \in Nat, RefersTo(c, p), c # GenesisUnder(r)
    PROVE  \E g : GoesOn(g, f, r, bs, p, c)
<1>. DEFINE cs == bs \cup {c}
            g == [b \in cs |-> IF b \in bs THEN f[b] ELSE WorkUnder(r, c) + f[p]]
<1>1. /\ Rooted(r, cs) /\ ParentIn(cs, c) = p
      /\ \A b \in bs \ {GenesisUnder(r)} : ParentIn(cs, b) = ParentIn(bs, b)
  BY TreeTakesBlock
<1>2. \A b \in bs \ {GenesisUnder(r)} : ParentIn(bs, b) \in bs
  BY ParentIsIn
<1>3. f \in [bs -> Nat] /\ \A b \in bs : f[b] = WorkUpTo(f, r, bs, b)
  BY DEF OnlySum, Accumulates
<1>4. c \in cs /\ DOMAIN g = cs /\ \A b \in bs : b \in cs /\ g[b] = f[b]
  OBVIOUS
<1>5. g[c] = WorkUnder(r, c) + f[p]
  <2>1. CASE c \in bs
    <3>1. f[c] = WorkUnder(r, c) + f[ParentIn(bs, c)] /\ ParentIn(bs, c) = p
      BY <1>1, <1>3, <2>1 DEF WorkUpTo
    <3>. QED  BY <1>4, <2>1, <3>1
  <2>2. CASE c \notin bs
    BY <2>2
  <2>. QED  BY <2>1, <2>2
<1>6. g \in [cs -> Nat]
  <2>1. f[p] \in Nat /\ WorkUnder(r, c) + f[p] \in Nat
    BY <1>3
  <2>. QED  BY <1>3, <2>1
<1>. HIDE DEF g
<1>7. Accumulates(g, r, cs)
  <2>1. ASSUME NEW b \in cs PROVE g[b] = WorkUpTo(g, r, cs, b)
    <3>1. CASE b = c
      BY <1>1, <1>4, <1>5, <3>1 DEF WorkUpTo
    <3>2. CASE b = GenesisUnder(r) /\ b # c
      <4>1. b \in bs
        BY <3>2
      <4>. QED  BY <1>3, <1>4, <3>2, <4>1 DEF WorkUpTo
    <3>3. CASE b # GenesisUnder(r) /\ b # c
      <4>1. b \in bs \ {GenesisUnder(r)}
        BY <3>3
      <4>2. f[b] = WorkUnder(r, b) + f[ParentIn(bs, b)]
        BY <1>3, <4>1 DEF WorkUpTo
      <4>3. g[ParentIn(cs, b)] = f[ParentIn(bs, b)] /\ g[b] = f[b]
        BY <1>1, <1>2, <1>4, <4>1
      <4>. QED  BY <3>3, <4>2, <4>3 DEF WorkUpTo
    <3>. QED  BY <3>1, <3>2, <3>3
  <2>2. g = [b \in cs |-> g[b]]
    BY <1>6
  <2>. HIDE DEF cs
  <2>. QED  BY <2>1, <2>2 DEF Accumulates
<1>8. ASSUME NEW h, Accumulates(h, r, cs) PROVE h = g
  <2>. DEFINE k == [b \in bs |-> h[b]]
  <2>1. h = [b \in cs |-> h[b]] /\ \A b \in cs : h[b] = WorkUpTo(h, r, cs, b)
    <3>1. h = [b \in cs |-> WorkUpTo(h, r, cs, b)]
      BY <1>8 DEF Accumulates
    <3>. HIDE DEF cs
    <3>. QED  BY <3>1
  <2>2. ASSUME NEW b \in bs PROVE k[b] = WorkUpTo(k, r, bs, b)
    <3>1. b \in cs /\ k[b] = h[b] /\ h[b] = WorkUpTo(h, r, cs, b)
      BY <2>1
    <3>2. CASE b = GenesisUnder(r)
      <4>. HIDE DEF k
      <4>. QED  BY <3>1, <3>2 DEF WorkUpTo
    <3>3. CASE b # GenesisUnder(r)
      <4>1. ParentIn(cs, b) = ParentIn(bs, b) /\ ParentIn(bs, b) \in bs
        BY <1>1, <1>2, <3>3
      <4>2. k[ParentIn(bs, b)] = h[ParentIn(cs, b)]
        BY <4>1
      <4>. HIDE DEF k
      <4>. QED  BY <3>1, <3>3, <4>2 DEF WorkUpTo
    <3>. QED  BY <3>2, <3>3
  <2>3. k = [b \in bs |-> k[b]]
    OBVIOUS
  <2>. HIDE DEF k
  <2>4. Accumulates(k, r, bs)
    BY <2>2, <2>3 DEF Accumulates
  <2>5. k = f
    BY <2>4 DEF OnlySum
  <2>6. \A b \in bs : h[b] = g[b]
    BY <1>4, <2>5 DEF k
  <2>7. h[c] = WorkUnder(r, c) + h[p]
    BY <1>1, <1>4, <2>1 DEF WorkUpTo
  <2>8. h[c] = g[c]
    BY <1>4, <1>5, <2>6, <2>7
  <2>9. \A b \in cs : h[b] = g[b]
    BY <2>6, <2>8
  <2>10. g = [b \in cs |-> g[b]]
    BY <1>6
  <2>. HIDE DEF cs
  <2>. QED  BY <2>1, <2>9, <2>10
<1>9. OnlySum(g, r, cs)
  BY <1>6, <1>7, <1>8 DEF OnlySum
<1>. QED  BY <1>4, <1>5, <1>9 DEF GoesOn


\* No weight is more than what the block of its chain and those before it carry.
Credited(m, shown, f) ==
    \A w \in DOMAIN m : \E b \in shown : m[w] = HashBlock(b) /\ w <= f[b]

\* A chain that grows, or starts, with a block is credited with no more than the block
\* adds; the chains whose entries stay are credited as before.
LEMMA PutCredits ==
    ASSUME NEW m, NEW shown, NEW g, Credited(m, shown, g), NEW c,
           NEW w \in Nat, w <= g[c]
    PROVE  Credited(Put(m, w, HashBlock(c)), shown \cup {c}, g)
BY DEF Credited, Put

LEMMA DelCredits ==
    ASSUME NEW m, NEW shown, NEW g, Credited(m, shown, g), NEW k
    PROVE  Credited(Del(m, k), shown, g)
BY DEF Credited, Del

LEMMA HookCredits ==
    ASSUME NEW r \in {"HeaviestChain", "MostAliceSigs"}, NEW m, DOMAIN m \in SUBSET Nat,
           NEW shown, NEW g, Credited(m, shown, g), \A b \in shown : g[b] \in Nat,
           NEW p, NEW c, c.header.parent = HashBlock(p),
           WorkUnder(r, c) \in Nat, g[p] \in Nat, g[c] = WorkUnder(r, c) + g[p]
    PROVE  Credited(ImportHook(r, m, c), shown \cup {c}, g)
<1>. DEFINE ends == EndingIn(m, HashBlock(p))
<1>1. ends \in SUBSET Nat /\ ends \subseteq DOMAIN m /\ \A w \in ends : m[w] = HashBlock(p)
  BY DEF EndingIn
<1>2. ASSUME NEW w \in ends PROVE w <= g[p]
  <2>1. PICK b \in shown : m[w] = HashBlock(b) /\ w <= g[b]
    BY <1>1 DEF Credited
  <2>2. b = p
    BY <1>1, <2>1 DEF HashBlock
  <2>. QED  BY <2>1, <2>2
<1>3. ends # {} => Min(ends) \in ends /\ Min(ends) \in Nat
  BY <1>1, MinOfNats
<1>. DEFINE low == Min(ends)
<1>. HIDE DEF ends
<1>4. WorkUnder(r, c) <= g[c] /\ WorkUnder(r, c) \in Nat
  OBVIOUS
<1>5. ASSUME ends # {}
      PROVE  low + WorkUnder(r, c) \in Nat /\ low + WorkUnder(r, c) <= g[c]
  <2>1. low \in Nat /\ low <= g[p]
    BY <1>2, <1>3, <1>5
  <2>. HIDE DEF low
  <2>. QED  BY <2>1
<1>6. CASE r = "HeaviestChain"
  <2>1. WorkUnder(r, c) = c.header.consensus_digest
    BY <1>6 DEF WorkUnder
  <2>2. ImportHook(r, m, c) = HeaviestHook(m, c)
    BY <1>6 DEF ImportHook
  <2>3. CASE ends = {}
    <3>1. HeaviestHook(m, c) = Put(m, c.header.consensus_digest, HashBlock(c))
      BY <2>3 DEF HeaviestHook, ends
    <3>. QED  BY <1>4, <2>1, <2>2, <3>1, PutCredits
  <2>4. CASE ends # {}
    <3>1. HeaviestHook(m, c) =
              Put(Del(m, low), low + c.header.consensus_digest, HashBlock(c))
      BY <2>4 DEF HeaviestHook, ends
    <3>. HIDE DEF low
    <3>. QED  BY <1>5, <2>1, <2>2, <2>4, <3>1, PutCredits, DelCredits
  <2>. QED  BY <2>3, <2>4
<1>7. CASE r = "MostAliceSigs"
  <2>1. WorkUnder(r, c) = IF c.header.consensus_digest = Alice THEN 1 ELSE 0
    BY <1>7 DEF WorkUnder
  <2>2. ImportHook(r, m, c) = MostAliceHook(m, c)
    BY <1>7 DEF ImportHook
  <2>3. CASE ends = {}
    <3>1. MostAliceHook(m, c) = Put(m, WorkUnder(r, c), HashBlock(c))
      BY <2>1, <2>3 DEF MostAliceHook, ends
    <3>. QED  BY <1>4, <2>2, <3>1, PutCredits
  <2>4. CASE ends # {} /\ c.header.consensus_digest = Alice
    <3>1. MostAliceHook(m, c) = Put(Del(m, low), low + WorkUnder(r, c), HashBlock(c))
      BY <2>1, <2>4 DEF MostAliceHook, ends
    <3>. HIDE DEF low
    <3>. QED  BY <1>5, <2>2, <2>4, <3>1, PutCredits, DelCredits
  <2>5. CASE ends # {} /\ c.header.consensus_digest # Alice
    <3>1. MostAliceHook(m, c) = m
      BY <2>5 DEF MostAliceHook, ends
    <3>. QED  BY <2>2, <3>1 DEF Credited
  <2>. QED  BY <2>3, <2>4, <2>5
<1>. QED  BY <1>6, <1>7

\* The tree has one sum of work over ancestors, which the rule never overstates.
Accounted ==
    /\ Rooted(rule, stored)
    /\ \E f : OnlySum(f, rule, stored) /\ (Weighing => Credited(fc, Hooked, f))

\* A block that a call makes is plain and counts a natural.
LEMMA BlockCounts ==
    ASSUME Weighted, NEW hash, NEW height, NEW root, NEW digest \in Digests
    PROVE  LET b == BlockOn(hash, height, root, digest)
           IN Plain(b) /\ b.header.parent = hash /\ WorkUnder(rule, b) \in Nat
<1>. DEFINE b == BlockOn(hash, height, root, digest)
<1>1. Plain(b) /\ b.header.parent = hash /\ b.header.consensus_digest = digest
  BY DEF BlockOn, Plain
<1>2. rule # "MostAliceSigs" => digest \in Nat
  BY DigestsAssumption DEF Digests
<1>. HIDE DEF b
<1>3. WorkUnder(rule, b) \in Nat
  BY <1>1, <1>2 DEF WorkUnder
<1>. QED  BY <1>1, <1>3 DEF b

LEMMA AlwaysAccounted == TreeSpec => []Accounted
<1>1. TreeInit /\ Weighted => Accounted
  <2>. SUFFICES ASSUME TreeInit, Weighted PROVE Accounted
    OBVIOUS
  <2>. DEFINE G == GenesisUnder(rule)
              f == [b \in {G} |-> WorkUnder(rule, G)]
  <2>1. /\ Plain(G) /\ G = GenesisBlock /\ G.header.parent = ZeroHash
        /\ G.header.consensus_digest = IF rule = "MostAliceSigs" THEN Alice ELSE 0
    BY DEF GenesisUnder, GenesisBlock, BlockOn, Plain
  <2>2. WorkUnder(rule, G) \in Nat
    BY <2>1 DEF WorkUnder
  <2>3. stored = {G}
    BY <2>1 DEF TreeInit
  <2>4. Rooted(rule, {G})
    BY <2>1, <2>2 DEF Rooted
  <2>5. OnlySum(f, rule, {G})
    <3>1. \A g, b : b \in {G} => WorkUpTo(g, rule, {G}, b) = WorkUnder(rule, G) + 0
      BY DEF WorkUpTo
    <3>2. WorkUnder(rule, G) + 0 = WorkUnder(rule, G)
      BY <2>2
    <3>3. ASSUME NEW g
          PROVE  [b \in {G} |-> WorkUpTo(g, rule, {G}, b)] = f
      BY <3>1, <3>2
    <3>4. f \in [{G} -> Nat]
      BY <2>2
    <3>. HIDE DEF f, G
    <3>. QED  BY <3>3, <3>4 DEF OnlySum, Accumulates
  <2>6. ASSUME Weighing PROVE Credited(fc, Hooked, f)
    <3>1. DefaultOf(rule) = EmptyMap /\ DOMAIN EmptyMap = {}
      BY <2>6 DEF Weighing, DefaultOf, EmptyMap
    <3>2. CASE fc = EmptyMap
      BY <3>1, <3>2 DEF Credited
    <3>3. CASE hooked = <<G>> /\ fc = ImportHook(rule, EmptyMap, G)
      <4>1. EndingIn(EmptyMap, G.header.parent) = {}
        BY <3>1 DEF EndingIn
      <4>2. fc = Put(EmptyMap, WorkUnder(rule, G), HashBlock(G))
        <5>. HIDE DEF G
        <5>1. CASE rule = "HeaviestChain"
          BY <3>3, <4>1, <5>1 DEF ImportHook, HeaviestHook, WorkUnder
        <5>2. CASE rule = "MostAliceSigs"
          BY <3>3, <4>1, <5>2 DEF ImportHook, MostAliceHook, WorkUnder
        <5>. QED  BY <2>6, <5>1, <5>2 DEF Weighing
      <4>3. Hooked = {} \cup {G}
        <5>. HIDE DEF G
        <5>. QED  BY <3>3 DEF Hooked, Range
      <4>4. Credited(EmptyMap, {}, f) /\ f[G] = WorkUnder(rule, G)
        BY <3>1 DEF Credited
      <4>. HIDE DEF f, G
      <4>. QED  BY <2>2, <4>2, <4>3, <4>4, PutCredits
    <3>. QED  BY <2>1, <3>1, <3>2, <3>3 DEF TreeInit
  <2>. HIDE DEF f, G
  <2>. QED  BY <2>3, <2>4, <2>5, <2>6 DEF Accounted
<1>2. Grown /\ Weighted /\ Accounted /\ [TreeNext]_treeVars => Accounted'
  <2>. SUFFICES ASSUME Grown, Weighted, Accounted, [TreeNext]_treeVars PROVE Accounted'
    OBVIOUS
  <2>0. PICK f : OnlySum(f, rule, stored) /\ (Weighing => Credited(fc, Hooked, f))
    BY DEF Accounted
  <2>1. ASSUME NEW p \in stored, NEW root \in TreeRoots, NEW digest \in Digests,
               Author(p, root, digest)
        PROVE  Accounted'
    <3>1. PICK b : b = BlockOn(HashBlock(p), p.header.height + 1, root, digest)
      OBVIOUS
    <3>2. /\ stored' = stored \cup {b} /\ rule' = rule
          /\ fc' = ImportHook(rule, fc, b) /\ hooked' = Append(hooked, b)
      BY <2>1, <3>1 DEF Author
    <3>3. Plain(b) /\ b.header.parent = HashBlock(p) /\ WorkUnder(rule, b) \in Nat
      BY <3>1, BlockCounts
    <3>4. b # GenesisUnder(rule)
      <4>1. p.header.height \in Nat /\ GenesisUnder(rule) = GenesisBlock
        BY DEF Grown, GenesisUnder, GenesisBlock
      <4>. QED  BY <3>1, <4>1, BlockOnParent
    <3>5. Rooted(rule, stored) /\ RefersTo(b, p)
      BY <3>3 DEF Accounted, RefersTo
    <3>6. Rooted(rule, stored \cup {b})
      BY <3>3, <3>5, TreeTakesBlock
    <3>7. PICK g : GoesOn(g, f, rule, stored, p, b)
      BY <2>0, <3>3, <3>4, <3>5, SumTakesBlock
    <3>8. Hooked' = Hooked \cup {b} /\ Hooked \subseteq stored
      BY <3>2, ShownToo
    <3>9. ASSUME Weighing PROVE Credited(fc', Hooked', g)
      <4>1. rule \in {"HeaviestChain", "MostAliceSigs"} /\ DOMAIN fc \in SUBSET Nat
        BY <3>9 DEF Weighing, Weighted
      <4>2. f \in [stored -> Nat]
        BY <2>0 DEF OnlySum
      <4>3. Credited(fc, Hooked, g)
        BY <2>0, <3>7, <3>8, <3>9 DEF Credited, GoesOn
      <4>4. g[p] = f[p] /\ g[p] \in Nat /\ \A x \in Hooked : g[x] \in Nat
        BY <3>7, <3>8, <4>2 DEF GoesOn
      <4>5. g[b] = WorkUnder(rule, b) + g[p]
        BY <3>7, <4>4 DEF GoesOn
      <4>6. Credited(ImportHook(rule, fc, b), Hooked \cup {b}, g)
        BY <3>3, <4>1, <4>3, <4>4, <4>5, HookCredits
      <4>. QED  BY <3>2, <3>8, <4>6
    <3>10. Weighing' => Weighing
      BY <3>2 DEF Weighing
    <3>11. Rooted(rule', stored') /\ OnlySum(g, rule', stored')
      BY <3>2, <3>6, <3>7 DEF GoesOn
    <3>. QED  BY <3>9, <3>10, <3>11 DEF Accounted
  <2>2. ASSUME NEW p \in stored, NEW root \in TreeRoots, NEW digest \in Digests,
               Import(p, root, digest)
        PROVE  Accounted'
    <3>1. PICK b : b = BlockOn(HashHeader(p.header), p.header.height + 1, root, digest)
      OBVIOUS
    <3>2. stored' = stored \cup {b} /\ rule' = rule /\ fc' = fc /\ hooked' = hooked
      BY <2>2, <3>1 DEF Import
    <3>3. Plain(b) /\ b.header.parent = HashHeader(p.header) /\ WorkUnder(rule, b) \in Nat
      BY <3>1, BlockCounts
    <3>4. b # GenesisUnder(rule)
      <4>1. p.header.height \in Nat /\ GenesisUnder(rule) = GenesisBlock
        BY DEF Grown, GenesisUnder, GenesisBlock
      <4>. QED  BY <3>1, <4>1, BlockOnParent
    <3>5. Rooted(rule, stored) /\ RefersTo(b, p)
      BY <3>3 DEF Accounted, RefersTo
    <3>6. Rooted(rule, stored \cup {b})
      BY <3>3, <3>5, TreeTakesBlock
    <3>7. PICK g : GoesOn(g, f, rule, stored, p, b)
      BY <2>0, <3>3, <3>4, <3>5, SumTakesBlock
    <3>8. Hooked' = Hooked /\ Hooked \subseteq stored /\ (Weighing' => Weighing)
      BY <3>2 DEF Hooked, Range, Grown, Weighing
    <3>9. ASSUME Weighing PROVE Credited(fc', Hooked', g)
      BY <2>0, <3>2, <3>7, <3>8, <3>9 DEF Credited, GoesOn
    <3>11. Rooted(rule', stored') /\ OnlySum(g, rule', stored')
      BY <3>2, <3>6, <3>7 DEF GoesOn
    <3>. QED  BY <3>8, <3>9, <3>11 DEF Accounted
  <2>3. CASE UNCHANGED treeVars
    <3>1. rule' = rule /\ stored' = stored /\ fc' = fc /\ Hooked' = Hooked
          /\ (Weighing' => Weighing)
      BY <2>3 DEF treeVars, Hooked, Range, Weighing
    <3>. QED  BY <3>1 DEF Accounted
  <2>. QED  BY <2>1, <2>2, <2>3 DEF TreeNext
<1>. QED  BY <1>1, <1>2, TreeGrows, AlwaysWeighted, PTL DEF TreeSpec

\* On every tree, however it forked and whatever collided, no chain is credited with
\* more work, or signatures of Alice, than its blocks carry (p3:89-111, p3:140-174).
THEOREM NoWorkFromNothing == TreeSpec => []NeverOverstated
<1>1. Accounted => NeverOverstated
  <2>. SUFFICES ASSUME Accounted, Weighing PROVE NeverOverstated
    BY DEF NeverOverstated
  <2>1. PICK f : OnlySum(f, rule, stored) /\ Credited(fc, Hooked, f)
    BY DEF Accounted
  <2>2. Accumulated = f
    BY <2>1, AccumulatedIsChosen DEF OnlySum
  <2>. QED  BY <2>1, <2>2 DEF NeverOverstated, Credited
<1>. QED  BY <1>1, AlwaysAccounted, PTL


-----------------------------------------------------------------------------
(* Ghost: its lists *)

\* What the blocks count whose hashes are on a list.
WorkOn(list) == [i \in DOMAIN list |-> list[i][2].header.consensus_digest]

\* A list of blocks that were shown, its weight, and what it is a subtree of.
WeighedSubtree(w, list, shown) ==
    /\ list \in Seq({HashBlock(b) : b \in shown})
    /\ w = SumFunctionOnSet(WorkOn(list), DOMAIN list)
    /\ \A i \in 2..Len(list) :
          \E j \in 1..i - 1 : list[j] = list[i][2].header.parent

\* Every block that is shown counts a natural.
Counting(shown) == \A b \in shown : b.header.consensus_digest \in Nat

LEMMA OneOnList ==
    ASSUME NEW shown, Counting(shown), NEW c, c.header.consensus_digest \in Nat
    PROVE  WeighedSubtree(c.header.consensus_digest, <<HashBlock(c)>>, shown \cup {c})
<1>. DEFINE d == c.header.consensus_digest
            list == <<HashBlock(c)>>
<1>1. list \in Seq({HashBlock(b) : b \in shown \cup {c}})
  OBVIOUS
<1>2. DOMAIN list = {1} /\ Len(list) = 1 /\ WorkOn(list)[1] = d
  BY DEF WorkOn, HashBlock
<1>3. SumFunctionOnSet(WorkOn(list), {1}) = d
  <2>1. IsFiniteSet({1}) /\ {1} \ {1} = {} /\ IsFiniteSet({})
    BY FS_Singleton, FS_EmptySet
  <2>2. SumFunctionOnSet(WorkOn(list), {}) = 0
    BY <2>1, SumByChoice
  <2>3. \A i \in {1} : WorkOn(list)[i] \in Int
    BY <1>2
  <2>. HIDE DEF list
  <2>4. SumFunctionOnSet(WorkOn(list), {1})
          = WorkOn(list)[1] + SumFunctionOnSet(WorkOn(list), {1} \ {1})
    BY <2>1, <2>3, SumTakesAny
  <2>. QED  BY <1>2, <2>1, <2>2, <2>4
<1>. QED  BY <1>1, <1>2, <1>3 DEF WeighedSubtree

LEMMA OneMoreOnList ==
    ASSUME NEW shown, Counting(shown), NEW c, c.header.consensus_digest \in Nat,
           NEW w, NEW list, WeighedSubtree(w, list, shown),
           NEW k \in DOMAIN list, list[k] = c.header.parent
    PROVE  WeighedSubtree(w + c.header.consensus_digest, Append(list, HashBlock(c)),
                          shown \cup {c})
<1>. DEFINE d == c.header.consensus_digest
            more == Append(list, HashBlock(c))
            hashes == {HashBlock(b) : b \in shown \cup {c}}
<1>1. PICK n \in Nat : n = Len(list)
  BY DEF WeighedSubtree
<1>2. list \in Seq(hashes) /\ HashBlock(c) \in hashes
  <2>1. {HashBlock(b) : b \in shown} \subseteq hashes
    OBVIOUS
  <2>. QED  BY <2>1 DEF WeighedSubtree
<1>. HIDE DEF hashes
<1>3. /\ more \in Seq(hashes) /\ Len(more) = n + 1 /\ more[n + 1] = HashBlock(c)
      /\ \A i \in 1..n : more[i] = list[i]
      /\ DOMAIN more = 1..n + 1 /\ DOMAIN list = 1..n
  BY <1>1, <1>2, AppendProperties
<1>. HIDE DEF more
<1>4. \A i \in 1..n : WorkOn(list)[i] \in Nat
  <2>1. ASSUME NEW i \in 1..n PROVE WorkOn(list)[i] \in Nat
    <3>1. PICK b \in shown : list[i] = HashBlock(b)
      BY <1>3 DEF WeighedSubtree
    <3>. QED  BY <1>3, <3>1 DEF WorkOn, Counting, HashBlock
  <2>. QED  BY <2>1
<1>5. WorkOn(more)[n + 1] = d /\ \A i \in 1..n : WorkOn(more)[i] = WorkOn(list)[i]
  <2>1. n + 1 \in 1..n + 1 /\ \A i \in 1..n : i \in 1..n + 1
    OBVIOUS
  <2>. QED  BY <1>3, <2>1 DEF WorkOn, HashBlock
<1>6. SumFunctionOnSet(WorkOn(more), 1..n + 1) = SumFunctionOnSet(WorkOn(list), 1..n) + d
  <2>1. IsFiniteSet(1..n) /\ IsFiniteSet(1..n + 1) /\ n + 1 \in 1..n + 1
    BY FS_Interval
  <2>2. (1..n + 1) \ {n + 1} = 1..n
    OBVIOUS
  <2>3. \A i \in 1..n + 1 : WorkOn(more)[i] \in Int
    <3>1. \A i \in 1..n + 1 : i \in 1..n \/ i = n + 1
      OBVIOUS
    <3>. QED  BY <1>4, <1>5, <3>1
  <2>4. SumFunctionOnSet(WorkOn(more), 1..n + 1)
          = WorkOn(more)[n + 1] + SumFunctionOnSet(WorkOn(more), (1..n + 1) \ {n + 1})
    BY <2>1, <2>3, SumTakesAny
  <2>5. \A i \in 1..n : WorkOn(list)[i] \in Int
    BY <1>4
  <2>6. SumFunctionOnSet(WorkOn(more), 1..n) = SumFunctionOnSet(WorkOn(list), 1..n)
    BY <1>5, <2>1, <2>5, SumOfSame
  <2>7. SumFunctionOnSet(WorkOn(list), 1..n) \in Int
    BY <2>1, <2>5, SumIsInt
  <2>8. SumFunctionOnSet(WorkOn(more), 1..n + 1) = d + SumFunctionOnSet(WorkOn(list), 1..n)
    BY <1>5, <2>2, <2>4, <2>6, Zenon
  <2>9. \A x, y \in Int : x + y = y + x
    OBVIOUS
  <2>10. d \in Int
    OBVIOUS
  <2>. HIDE DEF d
  <2>. QED  BY <2>7, <2>8, <2>9, <2>10, Zenon
<1>7. ASSUME NEW i \in 2..n + 1
      PROVE  \E j \in 1..i - 1 : more[j] = more[i][2].header.parent
  <2>1. CASE i \in 2..n
    <3>1. PICK j \in 1..i - 1 : list[j] = list[i][2].header.parent
      BY <1>1, <2>1 DEF WeighedSubtree
    <3>2. j \in 1..n /\ i \in 1..n
      BY <2>1
    <3>. QED  BY <1>3, <3>1, <3>2
  <2>2. CASE i = n + 1
    <3>1. k \in 1..n /\ more[k] = c.header.parent
      BY <1>3
    <3>2. more[i][2].header.parent = c.header.parent
      BY <1>3, <2>2 DEF HashBlock
    <3>. QED  BY <2>2, <3>1, <3>2
  <2>3. i \in 2..n \/ i = n + 1
    OBVIOUS
  <2>. QED  BY <2>1, <2>2, <2>3
<1>8. w + d = SumFunctionOnSet(WorkOn(more), DOMAIN more)
  BY <1>3, <1>6 DEF WeighedSubtree
<1>9. WeighedSubtree(w + d, more, shown \cup {c})
  BY <1>3, <1>7, <1>8 DEF WeighedSubtree, hashes
<1>. QED  BY <1>9 DEF more


\* Every list of Ghost is such a list of blocks that it was shown.
Listed ==
    rule = "Ghost" =>
        /\ Counting(Hooked)
        /\ \A w \in DOMAIN fc : WeighedSubtree(w, fc[w], Hooked)

LEMMA MoreWasShown ==
    ASSUME NEW w, NEW list, NEW shown, NEW c, WeighedSubtree(w, list, shown)
    PROVE  WeighedSubtree(w, list, shown \cup {c})
<1>1. {HashBlock(b) : b \in shown} \subseteq {HashBlock(b) : b \in shown \cup {c}}
  OBVIOUS
<1>2. list \in Seq({HashBlock(b) : b \in shown \cup {c}})
  BY <1>1 DEF WeighedSubtree
<1>. QED  BY <1>2 DEF WeighedSubtree

Lists(m, shown) == \A w \in DOMAIN m : WeighedSubtree(w, m[w], shown)

LEMMA HookLists ==
    ASSUME NEW m, DOMAIN m \in SUBSET Nat, NEW shown, Counting(shown), Lists(m, shown),
           NEW c, c.header.consensus_digest \in Nat
    PROVE  Lists(GhostHook(m, c), shown \cup {c})
<1>. DEFINE found == Containing(m, c.header.parent)
            low == Min(found)
            d == c.header.consensus_digest
<1>1. found \in SUBSET Nat /\ \A w \in found : w \in DOMAIN m
  BY DEF Containing
<1>2. \A w \in DOMAIN m : WeighedSubtree(w, m[w], shown \cup {c})
  BY MoreWasShown DEF Lists
<1>3. CASE found = {}
  <2>1. GhostHook(m, c) = Put(m, d, <<HashBlock(c)>>)
    BY <1>3 DEF GhostHook
  <2>2. WeighedSubtree(d, <<HashBlock(c)>>, shown \cup {c})
    BY OneOnList
  <2>. HIDE DEF d
  <2>. QED  BY <1>2, <2>1, <2>2 DEF Lists, Put
<1>4. CASE found # {}
  <2>1. low \in found
    BY <1>1, <1>4, MinOfNats
  <2>2. PICK k \in DOMAIN m[low] : m[low][k] = c.header.parent
    BY <2>1 DEF Containing
  <2>3. GhostHook(m, c) = Put(Del(m, low), low + d, Append(m[low], HashBlock(c)))
    BY <1>4 DEF GhostHook
  <2>4. WeighedSubtree(low, m[low], shown)
    BY <1>1, <2>1 DEF Lists
  <2>. HIDE DEF low
  <2>5. WeighedSubtree(low + d, Append(m[low], HashBlock(c)), shown \cup {c})
    BY <2>2, <2>4, OneMoreOnList
  <2>. HIDE DEF d, found
  <2>. QED  BY <1>2, <2>3, <2>5 DEF Lists, Put, Del
<1>. QED  BY <1>3, <1>4

LEMMA AlwaysListed == TreeSpec => []Listed
<1>1. TreeInit => Listed
  <2>. SUFFICES ASSUME TreeInit, rule = "Ghost"
                PROVE  Counting(Hooked) /\ Lists(fc, Hooked)
    BY DEF Listed, Lists
  <2>1. GenesisBlock.header.consensus_digest = 0
    BY DEF GenesisBlock, BlockOn
  <2>2. DefaultOf(rule) = EmptyMap /\ DOMAIN EmptyMap = {}
    BY DEF DefaultOf, EmptyMap
  <2>3. Lists(EmptyMap, {}) /\ Counting({})
    BY <2>2 DEF Lists, Counting
  <2>4. CASE hooked = <<>> /\ fc = EmptyMap
    <3>1. Hooked = {}
      BY <2>4 DEF Hooked, Range
    <3>. QED  BY <2>3, <2>4, <3>1
  <2>5. CASE hooked = <<GenesisBlock>> /\ fc = GhostHook(EmptyMap, GenesisBlock)
    <3>1. Hooked = {} \cup {GenesisBlock}
      <4>. HIDE DEF GenesisBlock
      <4>. QED  BY <2>5 DEF Hooked, Range
    <3>2. Lists(GhostHook(EmptyMap, GenesisBlock), {} \cup {GenesisBlock})
      <4>. HIDE DEF GenesisBlock
      <4>. QED  BY <2>1, <2>2, <2>3, HookLists
    <3>. QED  BY <2>1, <2>5, <3>1, <3>2 DEF Counting
  <2>. QED  BY <2>2, <2>4, <2>5 DEF TreeInit, ImportHook
<1>2. Grown /\ Weighted /\ Listed /\ [TreeNext]_treeVars => Listed'
  <2>. SUFFICES ASSUME Grown, Weighted, Listed, [TreeNext]_treeVars PROVE Listed'
    OBVIOUS
  <2>1. ASSUME NEW p \in stored, NEW root \in TreeRoots, NEW digest \in Digests,
               Author(p, root, digest)
        PROVE  Listed'
    <3>1. PICK b : b = BlockOn(HashBlock(p), p.header.height + 1, root, digest)
      OBVIOUS
    <3>2. rule' = rule /\ fc' = ImportHook(rule, fc, b) /\ hooked' = Append(hooked, b)
      BY <2>1, <3>1 DEF Author
    <3>3. Hooked' = Hooked \cup {b}
      BY <3>2, ShownToo
    <3>4. ASSUME rule = "Ghost"
          PROVE  Counting(Hooked') /\ Lists(fc', Hooked')
      <4>1. b.header.consensus_digest \in Nat
        BY <3>1, <3>4, DigestsAssumption DEF Digests, BlockOn
      <4>2. Counting(Hooked) /\ Lists(fc, Hooked)
        BY <3>4 DEF Listed, Lists
      <4>3. fc' = GhostHook(fc, b)
        BY <3>2, <3>4 DEF ImportHook
      <4>4. DOMAIN fc \in SUBSET Nat
        BY <3>4 DEF Weighted
      <4>5. Lists(GhostHook(fc, b), Hooked \cup {b})
        BY <4>1, <4>2, <4>4, HookLists
      <4>6. Counting(Hooked \cup {b})
        BY <4>1, <4>2 DEF Counting
      <4>. QED  BY <3>3, <4>3, <4>5, <4>6
    <3>. QED  BY <3>2, <3>4 DEF Listed, Lists
  <2>2. ASSUME rule' = rule, fc' = fc, hooked' = hooked
        PROVE  Listed'
    BY <2>2 DEF Listed, Hooked, Range
  <2>3. ASSUME NEW p \in stored, NEW root \in TreeRoots, NEW digest \in Digests,
               Import(p, root, digest)
        PROVE  Listed'
    BY <2>2, <2>3 DEF Import
  <2>4. CASE UNCHANGED treeVars
    BY <2>2, <2>4 DEF treeVars
  <2>. QED  BY <2>1, <2>3, <2>4 DEF TreeNext
<1>. QED  BY <1>1, <1>2, TreeGrows, AlwaysWeighted, PTL DEF TreeSpec

\* The fold that the property weighs a list with.
AddsWork(g, list) ==
    g = [s \in SUBSET DOMAIN list |->
           IF s = {} THEN 0 ELSE g[s \ {Max(s)}] + WorkIn(BlockOf(list[Max(s)]))]

LEMMA FoldOfList ==
    ASSUME rule = "Ghost", NEW w, NEW list, WeighedSubtree(w, list, Hooked), Counting(Hooked)
    PROVE  FoldLeft(LAMBDA n, h : n + WorkIn(BlockOf(h)), 0, list)
             = SumFunctionOnSet(WorkOn(list), DOMAIN list)
<1>1. FoldLeft(LAMBDA n, h : n + WorkIn(BlockOf(h)), 0, list)
        = (CHOOSE g : AddsWork(g, list))[DOMAIN list]
  BY DEF FoldLeft, MapThenFoldSet, AddsWork
<1>2. PICK n \in Nat : DOMAIN list = 1..n
  BY DEF WeighedSubtree
<1>3. ASSUME NEW i \in 1..n
      PROVE  WorkOn(list)[i] \in Int /\ WorkIn(BlockOf(list[i])) = WorkOn(list)[i]
  <2>1. PICK b \in Hooked : list[i] = HashBlock(b)
    BY <1>2 DEF WeighedSubtree
  <2>2. BlockOf(list[i]) = b
    BY <2>1, BlockOfHash
  <2>3. WorkOn(list)[i] = b.header.consensus_digest
    BY <1>2, <2>1 DEF WorkOn, HashBlock
  <2>. QED  BY <2>2, <2>3 DEF WorkIn, Counting
<1>. DEFINE worth == WorkOn(list)
<1>4. DOMAIN worth = 1..n /\ \A i \in 1..n : worth[i] \in Int
  BY <1>2, <1>3 DEF WorkOn
<1>. HIDE DEF worth
<1>5. ASSUME NEW g PROVE AddsWork(g, list) <=> AddsUpLast(g, worth)
  <2>1. ASSUME NEW s \in SUBSET (1..n)
        PROVE  (IF s = {} THEN 0 ELSE g[s \ {Max(s)}] + WorkIn(BlockOf(list[Max(s)])))
                 = IF s = {} THEN 0 ELSE g[s \ {Max(s)}] + worth[Max(s)]
    BY <1>3, GreatestOf DEF worth
  <2>2. [s \in SUBSET (1..n) |->
           IF s = {} THEN 0 ELSE g[s \ {Max(s)}] + WorkIn(BlockOf(list[Max(s)]))]
          = [s \in SUBSET (1..n) |-> IF s = {} THEN 0 ELSE g[s \ {Max(s)}] + worth[Max(s)]]
    BY <2>1
  <2>. QED  BY <1>2, <1>4, <2>2 DEF AddsWork, AddsUpLast
<1>6. PICK g : AddsWork(g, list) /\ g = CHOOSE h : AddsWork(h, list)
  <2>1. \E h : AddsWork(h, list)
    BY <1>4, <1>5, AddedFromLeft
  <2>. QED  BY <2>1
<1>7. g[1..n] = SumFunctionOnSet(worth, 1..n)
  BY <1>4, <1>5, <1>6, AddedFromLeft
<1>. QED  BY <1>1, <1>2, <1>6, <1>7 DEF worth

\* The weight of every list is the work of the blocks on it, and the list is a subtree:
\* found in its middle it grows and changes its key in one (p3:208-231).
THEOREM EveryListWeighed == TreeSpec => []ListsAreWeighedSubtrees
<1>1. Listed => ListsAreWeighedSubtrees
  <2>. SUFFICES ASSUME Listed, rule = "Ghost", NEW w \in DOMAIN fc
                PROVE  /\ w = FoldLeft(LAMBDA n, h : n + WorkIn(BlockOf(h)), 0, fc[w])
                       /\ \A i \in 2..Len(fc[w]) : \E j \in 1..i - 1 :
                            fc[w][j] = BlockOf(fc[w][i]).header.parent
    BY DEF ListsAreWeighedSubtrees
  <2>1. PICK list : list = fc[w]
    OBVIOUS
  <2>2. WeighedSubtree(w, list, Hooked) /\ Counting(Hooked)
    BY <2>1 DEF Listed
  <2>3. w = FoldLeft(LAMBDA n, h : n + WorkIn(BlockOf(h)), 0, list)
    BY <2>2, FoldOfList DEF WeighedSubtree
  <2>4. ASSUME NEW i \in 2..Len(list)
        PROVE  \E j \in 1..i - 1 : list[j] = BlockOf(list[i]).header.parent
    <3>1. PICK b \in Hooked : list[i] = HashBlock(b)
      <4>1. Len(list) \in Nat /\ i \in 1..Len(list)
        BY <2>2 DEF WeighedSubtree
      <4>. QED  BY <2>2, <4>1 DEF WeighedSubtree
    <3>2. BlockOf(list[i]) = b /\ list[i][2] = b
      BY <3>1, BlockOfHash DEF HashBlock
    <3>. QED  BY <2>2, <3>2 DEF WeighedSubtree
  <2>. QED  BY <2>1, <2>3, <2>4
<1>. QED  BY <1>1, AlwaysListed, PTL
=============================================================================
