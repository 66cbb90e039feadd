--------------------------- MODULE MCClientParts ---------------------------
(* The parts of chapters 3 and 4 that Module Client has in a simpler form, in one
   exploration: pools of transactions, a stream of submissions, trees of blocks under a
   fork choice rule, and chains under a consensus engine.  They have nothing in common,
   so that a behaviour is one of any of them, beside which the others stay as they are. *)
EXTENDS MCTransactionPools, MCSubmissionStream, MCBlockTree, MCSealedChain

VARIABLE running

\* A state of each that it may start in, for when it is not the one that runs.
PoolAside   == kind = "SimplePool" /\ queue = <<>> /\ served = None /\ arrivals = 0
StreamAside == pool_kind = "SimplePool" /\ waiting = <<>> /\ watched = 0
TreeAside   == /\ rule = "LongestChain" /\ stored = {GenesisBlock}
               /\ hooked = <<>> /\ fc = DefaultOf(rule)
SealAside   == /\ engine = PowToPoa(2, 4, <<"Alice", "Bob">>)
               /\ chain = <<Header(0, 4, DigestOfGenesis(engine))>> /\ origin = <<"genesis">>

PartsInit ==
    /\ running \in {"pool", "stream", "tree", "seal"}
    /\ IF running = "pool" THEN PoolInit ELSE PoolAside
    /\ IF running = "stream" THEN StreamInit ELSE StreamAside
    /\ IF running = "tree" THEN TreeInit ELSE TreeAside
    /\ IF running = "seal" THEN SealInit ELSE SealAside

BesidePool   == UNCHANGED <<running, streamVars, treeVars, sealVars>>
BesideStream == UNCHANGED <<running, poolVars, treeVars, sealVars>>
BesideTree   == UNCHANGED <<running, poolVars, streamVars, sealVars>>
BesideSeal   == UNCHANGED <<running, poolVars, streamVars, treeVars>>

PartsNext ==
    \/ running = "pool" /\ PoolNext /\ BesidePool
    \/ running = "stream" /\ StreamNext /\ BesideStream
    \/ running = "tree" /\ TreeNext /\ BesideTree
    \/ running = "seal" /\ SealNext /\ BesideSeal

partsVars == <<running, poolVars, streamVars, treeVars, sealVars>>

\* The fairness of StreamSpec and of FairSealSpec.
PartsSpec ==
    /\ PartsInit /\ [][PartsNext]_partsVars
    /\ WF_partsVars(running = "stream" /\ AuthorNext /\ BesideStream)
    /\ \A root \in StateRoots : WF_partsVars(running = "seal" /\ Seal(root) /\ BesideSeal)
=============================================================================
