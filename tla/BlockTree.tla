----------------------------- MODULE BlockTree -----------------------------
(***************************************************************************)
(* A growing tree of blocks and a fork choice rule that watches it, as the *)
(* client's calls let it (src/c4_client/p5_authoring_blocks.rs and         *)
(* p2_importing_blocks.rs): an authored block is stored and shown to the   *)
(* rule, and refers to its parent by the parent's block hash; an imported  *)
(* one is stored only, and refers to it by its header's.  The genesis      *)
(* block is shown to the rule or not: the callers differ.  `hooked`, the   *)
(* blocks the rule was shown so far, is history.                           *)
(***************************************************************************)
EXTENDS ForkChoice

CONSTANTS Watching,     \* the rules to explore
          WorkDigests,  \* digests of proof of work, which three rules are for
          Authorities,  \* digests of proof of authority, for MostAliceSigs
          TreeRoots,    \* what tells siblings of one digest apart
          MaxHooks,     \* bounds of the exploration: blocks shown,
          MaxBlocks     \* blocks stored

ASSUME DigestsAssumption == Watching \subseteq Rules /\ WorkDigests \subseteq Nat

VARIABLES rule, fc, stored, hooked

treeVars == <<rule, fc, stored, hooked>>

Digests == IF rule = "MostAliceSigs" THEN Authorities ELSE WorkDigests

BlockOn(parentHash, height, root, digest) ==
    [header |-> [parent |-> parentHash, height |-> height, state_root |-> root,
                 extrinsics_root |-> HashBody(<<>>), consensus_digest |-> digest],
     body |-> <<>>]

\* The genesis block carries the default digest.
GenesisBlock ==
    BlockOn(ZeroHash, 0, ZeroHash, IF rule = "MostAliceSigs" THEN Alice ELSE 0)

TreeInit ==
    /\ rule \in Watching
    /\ stored = {GenesisBlock}
    /\ \/ hooked = <<>> /\ fc = DefaultOf(rule)
       \/ hooked = <<GenesisBlock>> /\ fc = ImportHook(rule, DefaultOf(rule), GenesisBlock)

\* add_block and import_hook of the two authoring methods.  Sealing the same
\* transactions on the same parent again may give the same block again.
Author(p, root, digest) ==
    LET b == BlockOn(HashBlock(p), p.header.height + 1, root, digest)
    IN /\ Len(hooked) < MaxHooks
       /\ Cardinality(stored \cup {b}) <= MaxBlocks
       /\ stored' = stored \cup {b}
       /\ fc' = ImportHook(rule, fc, b)
       /\ hooked' = Append(hooked, b)
       /\ rule' = rule

\* import_block: the hook is not called.
Import(p, root, digest) ==
    LET b == BlockOn(HashHeader(p.header), p.header.height + 1, root, digest)
    IN /\ p = GenesisBlock \/ p \in Range(hooked)
       /\ Cardinality(stored \cup {b}) <= MaxBlocks
       /\ stored' = stored \cup {b}
       /\ UNCHANGED <<rule, fc, hooked>>

TreeNext ==
    \E p \in stored, root \in TreeRoots, digest \in Digests :
        Author(p, root, digest) \/ Import(p, root, digest)

TreeSpec == TreeInit /\ [][TreeNext]_treeVars

-----------------------------------------------------------------------------
(* The tree *)

Hooked == Range(hooked)

Best == BestBlock(rule, fc)

ParentOf(b) ==
    CHOOSE p \in stored : b.header.parent \in {HashBlock(p), HashHeader(p.header)}

\* The rule was shown the parent of every block before the block.
EverythingShown ==
    \A i \in DOMAIN hooked :
        \/ hooked[i] = GenesisBlock
        \/ \E j \in 1..i - 1 : hooked[i].header.parent = HashBlock(hooked[j])

\* What a rule counts in a block, and the sum of it over a block and its ancestors.
WorkIn(b) ==
    IF rule = "MostAliceSigs" THEN IF b.header.consensus_digest = Alice THEN 1 ELSE 0
                              ELSE b.header.consensus_digest

Accumulated ==
    LET sum[b \in stored] == WorkIn(b) + IF b = GenesisBlock THEN 0 ELSE sum[ParentOf(b)]
    IN sum

-----------------------------------------------------------------------------
(* LongestChain *)

\* The best block is the first block of the greatest height that the rule was
\* shown: a later block of the same height on another branch does not displace
\* it, nor does the same block come back (p3:52-57).
FirstHighestIsBest ==
    rule = "LongestChain" => \A i \in DOMAIN hooked :
        Best = HashBlock(hooked[i]) <=>
            /\ hooked[i].header.height > 0
            /\ \A j \in DOMAIN hooked : hooked[j].header.height <= hooked[i].header.height
            /\ \E k \in 1..i :
                 /\ hooked[k] = hooked[i]
                 /\ \A j \in 1..k - 1 : hooked[j].header.height < hooked[i].header.height

-----------------------------------------------------------------------------
(* HeaviestChain and MostAliceSigs *)

Weighing == rule \in {"HeaviestChain", "MostAliceSigs"}

\* Every weight belongs to a block the rule was shown, and no chain is credited
\* with more work (or signatures of Alice) than its blocks carry, whatever forks,
\* repeated blocks and colliding weights came before (p3:89-111, p3:140-174).
NeverOverstated ==
    Weighing => \A w \in DOMAIN fc : \E b \in Hooked :
        fc[w] = HashBlock(b) /\ w <= Accumulated[b]

\* The weight of the best chain never falls, although the entry of the chain
\* that grows is removed and another chain's may be overwritten.
BestWeightNeverFalls ==
    [][rule # "LongestChain" => \A w \in DOMAIN fc : \E v \in DOMAIN fc' : w <= v]_treeVars

-----------------------------------------------------------------------------
(* Ghost *)

BlockOf(hash) == CHOOSE b \in Hooked : HashBlock(b) = hash

\* The weight of a list is the work of the blocks on it, each counted as often
\* as it was shown, and a list is one subtree: every block on it but the first
\* has its parent before it.  Lists are found in their middle, grow and change
\* their key together (p3:208-231).
ListsAreWeighedSubtrees ==
    rule = "Ghost" => \A w \in DOMAIN fc :
        /\ w = FoldLeft(LAMBDA n, h : n + WorkIn(BlockOf(h)), 0, fc[w])
        /\ \A i \in 2..Len(fc[w]) :
              \E j \in 1..i - 1 : fc[w][j] = BlockOf(fc[w][i]).header.parent

Children(b) == {c \in Hooked : c.header.parent = HashBlock(b)}

\* The work in a block and in all of its descendants that the rule was shown.
SubtreeWork ==
    LET work[b \in Hooked] == WorkIn(b) + MapThenSumSet(LAMBDA c : work[c], Children(b))
    IN work

\* The blocks that one can come by, from genesis, taking the heaviest side of every fork.
OnDescent ==
    LET reached[b \in Hooked] ==
            \/ b = GenesisBlock
            \/ \E p \in Hooked :
                 /\ b \in Children(p) /\ reached[p]
                 /\ \A c \in Children(p) : SubtreeWork[c] <= SubtreeWork[b]
    IN reached

\* "the fork choice is iterative.  You start from the genesis block, and at each fork,
\* you choose the side of the fork that has the most accumulated proof of work on all
\* of its descendants" (p3:185-187): of the blocks it was shown, genesis first and no
\* block before its parent, the rule names one where such a descent ends.
GreedyDescent ==
    rule = "Ghost" /\ hooked # <<>> /\ EverythingShown =>
        \E b \in Hooked : Best = HashBlock(b) /\ OnDescent[b] /\ Children(b) = {}
=============================================================================
