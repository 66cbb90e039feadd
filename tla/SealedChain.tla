---------------------------- MODULE SealedChain ----------------------------
(***************************************************************************)
(* A chain of headers under one consensus engine: the node seals headers   *)
(* on its tip, and takes those that other nodes offer once `validate`      *)
(* accepts them after the tip's digest.  The first header is genesis,      *)
(* which needs no seal.  `origin`, where each header came from, is history.*)
(***************************************************************************)
EXTENDS Consensus

CONSTANTS Engines,     \* the engines to explore
          StateRoots,  \* numbers, of both parities
          Offered,     \* the digests that other nodes may put on a header
          MaxHeight    \* bound of the exploration

PlainKinds == {"()", "Pow", "DictatorConsensus", "SimplePoa", "PoaRoundRobinByHeight",
               "PoaRoundRobinBySlot", "AlternatingPowPoa"}

DigestType(kind) ==
    CASE kind = "()" -> "()"
      [] kind = "Pow" -> "u64"
      [] kind \in {"DictatorConsensus", "SimplePoa", "PoaRoundRobinByHeight"} -> "authority"
      [] kind = "PoaRoundRobinBySlot" -> "slot"
      [] kind = "AlternatingPowPoa" -> "PowOrPoa"

\* A set of authorities is not empty, and one that takes turns by slot has the signer
\* of the default digest: the code panics otherwise.
IsAuthorities(auth) == auth \in Seq(Range(auth)) /\ Len(auth) > 0

IsPlain(e) ==
    /\ e.kind \in PlainKinds
    /\ e.digest = DigestType(e.kind)
    /\ e.kind \in {"SimplePoa", "PoaRoundRobinByHeight", "PoaRoundRobinBySlot"} =>
          IsAuthorities(e.authorities)
    /\ e.kind = "PoaRoundRobinBySlot" => "Alice" \in Range(e.authorities)
    /\ e.kind = "AlternatingPowPoa" => IsAuthorities(e.poa.authorities)

IsEngine(e) ==
    \/ IsPlain(e)
    \/ e.kind = "EvenOnly" /\ e.digest = e.inner.digest /\ IsPlain(e.inner)

\* Forks are at height 1 at the earliest, and those between digest types are the ones
\* pow_to_poa makes.
IsFork(e) ==
    /\ e.kind = "Forked"
    /\ e.fork_height \in Nat \ {0}
    /\ IsEngine(e.before) /\ IsEngine(e.after)
    /\ \/ e.digest = e.before.digest /\ e.digest = e.after.digest
       \/ e.digest = "PowOrPoa" /\ e.before.kind = "Pow" /\ e.after.kind = "PoaRoundRobinByHeight"

ASSUME ChainAssumption ==
    /\ StateRoots \subseteq Nat
    /\ MaxHeight \in Nat
    /\ \A d \in Offered : d[1] = "slot" => d[2] \in 0..MaxSlot
    /\ \A e \in Engines : IsEngine(e) \/ IsFork(e)

VARIABLES engine, chain, origin

sealVars == <<engine, chain, origin>>

SealInit == /\ engine \in Engines
            /\ \E root \in StateRoots : chain = <<Header(0, root, DigestOfGenesis(engine))>>
            /\ origin = <<"genesis">>

Tip == chain[Len(chain)]

Extend(h, from) ==
    /\ Len(chain) <= MaxHeight
    /\ chain' = Append(chain, h)
    /\ origin' = Append(origin, from)
    /\ engine' = engine

Seal(root) ==
    LET partial == Header(Tip.height + 1, root, DigestOfGenesis(engine))
    IN \E d \in Seals(engine, Tip.consensus_digest, partial) :
          Extend(WithDigest(partial, d), "sealed")

\* A header's digest is of the engine's type.
OfType(type) ==
    {d \in Offered : d[1] \in IF type = "PowOrPoa" THEN {"Pow", "Poa"} ELSE {type}}

ImportHeader(root, d) ==
    LET h == Header(Tip.height + 1, root, d)
    IN /\ Validates(engine, Tip.consensus_digest, h)
       /\ Extend(h, "imported")

SealNext ==
    \E root \in StateRoots :
        \/ Seal(root)
        \/ \E d \in OfType(engine.digest) : ImportHeader(root, d)

SealSpec == SealInit /\ [][SealNext]_sealVars

\* A node that keeps sealing, whatever state roots its transactions give.
FairSealSpec == SealSpec /\ \A root \in StateRoots : WF_sealVars(Seal(root))

-----------------------------------------------------------------------------
(* What the engines promise *)

Added == 2..Len(chain)

DigestAt(i) == chain[i].consensus_digest

\* Heights count from genesis, and every header has an origin.
SealTypeOK == /\ engine \in Engines
              /\ Len(origin) = Len(chain)
              /\ \A i \in DOMAIN chain : /\ chain[i].height = i - 1
                                         /\ chain[i].state_root \in StateRoots

\* The parts of an engine that answer for a header of the given height.
Inner(e) == IF e.kind = "EvenOnly" THEN e.inner ELSE e
InForce(height) ==
    Inner(IF engine.kind = "Forked" THEN RulesAt(engine, height) ELSE engine)

\* The nonce is drawn below 2^32 and validated against the threshold, the hash is
\* not: work is accepted if the threshold is above every nonce.
Lenient(e) == CASE e.kind = "Pow" -> \A n \in Nonces : n < e.threshold
                [] e.kind = "AlternatingPowPoa" -> \A n \in Nonces : n < e.pow.threshold
                [] OTHER -> TRUE

AfterLastSlot(i) == DigestAt(i - 1)[1] = "slot" /\ DigestAt(i - 1)[2] = MaxSlot

\* seal returns "a new header including the consensus digest that is valid
\* according to the consensus rules" (c3 mod.rs:54-55): for every engine, on every
\* chain of sealed and imported headers, except past a fork, with a threshold that
\* nonces reach, and after the last slot of all.
SealedValidate ==
    \A i \in Added :
        \/ origin[i] = "imported"
        \/ engine.kind = "Forked" /\ chain[i].height >= engine.fork_height
        \/ ~ Lenient(InForce(chain[i].height))
        \/ AfterLastSlot(i)
        \/ Validates(engine, DigestAt(i - 1), chain[i])

\* Different authorities take turns by height: of any two headers less than a full
\* round apart, sealed or imported, the signers differ (p3:85-130).
TurnsAreTaken ==
    /\ Inner(engine).kind = "PoaRoundRobinByHeight"
    /\ IsInjective(Inner(engine).authorities)
    => \A i, j \in Added :
            i < j /\ j - i < Len(Inner(engine).authorities) =>
                DigestAt(i)[2] # DigestAt(j)[2]

\* Slots are strictly increasing and may be skipped (p3:143-146): each is later than
\* the one before, up to the last slot of all, after which seal starts again at 0.
SlotsIncrease ==
    Inner(engine).kind = "PoaRoundRobinBySlot" => \A i \in Added :
        DigestAt(i - 1)[2] < DigestAt(i)[2] \/ AfterLastSlot(i)

\* The engine "alternates back and forth between PoW and PoA sealed blocks" (p5:10):
\* wherever its rules are in force, also when roots have to be even after a fork, no
\* header carries the same kind of seal as the one before it.
Alternates ==
    \A i \in Added : InForce(chain[i].height).kind = "AlternatingPowPoa" =>
        DigestAt(i)[1] # DigestAt(i - 1)[1]

\* The rules change at the fork, at its very height: in every engine that forks and
\* every one that wants even roots, each header obeys what is in force (p6:38-212).
WantsEven(height) ==
    (IF engine.kind = "Forked" THEN RulesAt(engine, height) ELSE engine).kind = "EvenOnly"

RulesInForce ==
    \A i \in Added :
        /\ WantsEven(chain[i].height) => IsEven(chain[i].state_root)
        /\ InForce(chain[i].height).kind = "PoaRoundRobinByHeight" =>
              DigestAt(i)[2] = TurnAt(InForce(chain[i].height).authorities, chain[i].height)

\* The engine of pow_to_poa.
IsPowToPoa == engine.kind = "Forked" /\ engine.digest # engine.before.digest

\* A node that keeps sealing grows its chain for ever, through the forks of authorities,
\* of difficulty and to even roots: under every engine but pow_to_poa's, for which see
\* SwitchesToPoa.
KeepsGrowing == ~ IsPowToPoa => <>(Len(chain) > MaxHeight)

-----------------------------------------------------------------------------
(* What comments say and the code does not do *)

\* From the fork on, headers are validated with the engine `after` (p6:36-37): what
\* the forked engine seals there is accepted.
ValidatesPastFork ==
    \A i \in Added :
        engine.kind = "Forked" /\ Lenient(InForce(chain[i].height)) /\ origin[i] = "sealed" =>
            Validates(engine, DigestAt(i - 1), chain[i])

\* verify_sub_chain "must be general enough to work for any specific consensus engine"
\* (c3 mod.rs:77): a chain each of whose headers is valid after its own parent is
\* verified.  The code compares every header with the one digest it is given.
ValidChainsVerify ==
    (\A i \in Added : Validates(engine, DigestAt(i - 1), chain[i])) =>
        VerifySubChain(engine, DigestAt(1), Tail(chain))

\* pow_to_poa models a switch from work to signatures (p6:193-198): a node that keeps
\* sealing comes to signed headers at the height of the fork.
SwitchesToPoa ==
    <>(IsPowToPoa =>
          \E i \in DOMAIN chain :
              chain[i].height = engine.fork_height /\ DigestAt(i)[1] = "Poa")
=============================================================================
