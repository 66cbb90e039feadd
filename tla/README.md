# A TLA+ model of blockchain-from-scratch

`src/src` is a blockchain in four chapters: state machines, chains of blocks,
consensus engines, and a client that puts them together. Everything is a library of
plain functions and structs: no thread, no async code, no I/O, no persistence. What is hard
about it is the order in which calls arrive. Users submit transactions, the node authors
blocks on its best block or on any block it knows, peers offer blocks, and each of these
calls reads what earlier ones left in the pool, the storage and the fork choice. This
directory models those calls, checks what the code promises about them with TLC, and proves
with TLAPS all of the promises but two, which are about what must happen in the end. Where a
comment of the code says what the code does not do, a run shows how.

Line references such as p5:101 are to the part files of the chapter at hand; `c4 p5:101` is
`src/src/c4_client/p5_authoring_blocks.rs:101`.

## 1. The system

| Component | Source | State it keeps | Operations | Modules |
|---|---|---|---|---|
| Accounted currency | c1 p4 | user -> balance | `next_state` of Mint, Burn, Transfer | `AccountedCurrency`, `CurrencyLedger` |
| Digital cash | c1 p5 | set of bills, next serial | `next_state` of Mint, Transfer | `DigitalCash` |
| Light switches | c1 p1 | one switch; two, coupled | `next_state` | `Switches`, `Machines` |
| Laundry machine | c1 p2 | condition and life of clothes | `next_state` of Wear, Wash, Dry | `Laundry`, `Machines` |
| ATM | c1 p3 | cash inside, session, keys pressed | `next_state` of SwipeCard, PressKey | `Atm`, `Machines` |
| Chains of chapter 2 | c2 p1-p6 | none (values) | `genesis`, `child`, `verify_sub_chain`, the best-chain rules, the builders of valid, invalid and forked chains | `Lessons`, `Chains` |
| Consensus engines | c3 | none (parameters) | `validate`, `seal`, `verify_sub_chain` | `Consensus`, `SealedChain` |
| Block data structure | c4 p1 | none (values) | `genesis`, `child`, `verify_child`, `verify_sub_chain`, `create_empty_chain` | `Block`, `Lessons`, `Chains` |
| Storage and import | c4 mod, p2 | blocks, states, last block, current state | `add_block`, `set_state`, `import_block`, ... | `Client`, `Nodes` |
| Fork choice | c4 p3 | per rule: the best so far, or a map from weights | `import_hook`, `best_block` | `ForkChoice`, `BlockTree` |
| Transaction pools | c4 p4 | a queue | `try_insert`, `next_from_pool`, `remove` | `TransactionPool`, `TransactionPools`, `FairQueue`, `SubmissionStream` |
| Authoring | c4 p5 | that of the client | `author_and_import_manual_block`, `author_and_import_automatic_block` | `Batches`, `Client`, `Nodes`, `SubmissionStream` |
| Finality | c4 p6 | none | `todo!()` | not modelled |
| Open-ended state machine | c1 p6 | none | none: an exercise | not modelled |

How they interact:

```
 users --submit_transaction--> pool --next_from_pool--+
                                                      v
 fork choice --best_block--> author_and_import_automatic_block --seal--> consensus
      ^                          |       |        |                        ^
      |                       remove  add_block  set_last_block            |
 import_hook                     v    set_state   v                     validate
      +------------- authoring  pool    storage (blocks, states, tip)      |
                                          ^                                |
 peers --offer blocks--> import_block ----+--------------------------------+
```

Behaviours that are hard to test, and where the model looks for them:

- *Mixes of the three ways to make a block.* Manual authoring builds on any block and does
  not move the tip; automatic authoring builds on the best block and does; import checks
  against the tip, and moves neither the tip nor the fork choice (`Client`).
- *Work that is half done when a call fails.* Automatic authoring takes a batch out of the
  pool before it knows whether the block can be sealed (`Client`); a cash transfer removes
  bills before it has checked the ones to add (`DigitalCash`).
- *Submissions that never stop*, of which some are equal and some are better paid than what
  waits (`SubmissionStream`, `Client`).
- *State found by value.* Fork choice rules look for the parent's hash among what they
  remember, and use weights as keys, so that forks, repeated blocks and equal weights meet
  (`BlockTree`).
- *Sessions that are broken off*: a card swiped in the middle of a PIN or an amount, and one
  register for both; a switch whose toggles mean something else while another is on
  (`Machines`).
- *Chains handed on by somebody else*, with blocks left out, repeated, swapped or changed in
  one field, and chains that the code itself builds to be invalid in one way only (`Chains`).
- *Order kept by insertion only* (`TransactionPools`).
- *Rules that change along a chain*, written once for `validate` and once for `seal`
  (`SealedChain`).
- *Machine words*: balances, amounts, slots and the work of a chain wrap
  (`AccountedCurrency`, `Atm`, `Consensus`, `Lessons`).

## 2. The modules

Every model is sequential and interleaves whole calls. That is exact here: all operations
take `&mut self` or are pure, so that no call overlaps another.

**`AccountedCurrency`** is the currency as a pure function. A state is a function whose
domain is the set of users with an account; `NextState` is `next_state`. `MaxBalance` stands
for `u64::MAX`, at which additions wrap (a release build; a debug build panics instead).
**`CurrencyLedger`** drives it with arbitrary transitions (`ExecuteTx`) from the empty ledger.
`minted` and `lastTx` are history variables.

**`DigitalCash`** has `bills` and `next_serial`, the two fields of `State`. A transfer's
loop that removes bills is `Removable` (each is there, none twice), the loop that adds them
is `Numbered` (each has the serial that is next when its turn comes). A refused transfer
returns the state it was given, so it is no step of the model (`MintBill`, `TransferBills`). A
run starts from any state that somebody wrote down with `State::from` and `set_serial`
(`StateFrom`, `SetSerial`), as the tests do, if it is `Proper`: `State::from` itself would number
the next bill by how many there are. `issued` and `cash_minted` are history.

**`Switches`**, **`Laundry`** and **`Atm`** are the single-user machines as pure functions:
`LightNext`, `WeirdNext`, `ClothesNext` and `AtmNext` are their `next_state`. **`Machines`**
stands for whoever operates one of them: any transitions in any order, from any state
that the constructors allow. `log` is history, what was done since the machine was in state
`from_state` (for the cash machine: since it was last in its main menu). The properties say
what the state must be from the log alone, without the state in between.

**`TransactionPool`** has what the pools do to their `VecDeque`: `PushBack`,
`PriorityInsert` and `Retain`. **`TransactionPools`** is one pool of one of the three kinds,
whose entries are stamped with their arrival (history). **`FairQueue`** is the abstract
promise: a set of waiting transactions, of which the highest in rank, and the oldest of
that rank, is served next. `TransactionPools` implements it by forgetting positions.
The client uses the same operations on its queue. **`Batches`** is what automatic authoring
does to a queue: it takes a batch from the front, and when the block is sealed removes from the
rest what is equal to a transaction of it. **`SubmissionStream`** is the pool of a client whose
users never stop: `SubmitNext` and `AuthorNext` go on for ever, and only how many wait at once is
bounded. Its `watched` is history, the position of one entry, any of those that ever wait.

**`Hashing`** models `hash` as free of collisions: the hash of a value is the value under a
tag for its type. `HashHeader` and `HashBlock` differ, as in the code, where a `Block`
hashes its header and body together. **`Maps`** has insertion and removal on maps.

**`ForkChoice`** has the four rules as pure functions: `ImportHook` and `BestBlock` dispatch
on the name of the rule, as trait methods do on the type. **`BlockTree`** grows a tree of
blocks the way the client does. An authored block is stored and shown to the rule, and
names its parent by block hash; an imported one is stored only, and names it by header
hash. The same block may be shown again: sealing the same transactions on the same parent
twice can give it.

**`Block`** has headers, blocks and their verification. **`Client`** is `FullClient`. As
that struct is generic in its parts, `node` holds the parts of this client: a consensus
engine, a fork choice rule, a pool, and whether its owner shows the rule the genesis block
(the tests do, `FullClient::new` does not). What engines, pools and the state machine do
are operator constants: `Validate`, `Sealings` (the digests of the headers that `seal` may
return, none when it gives `None`), `TryInsert`, `NextOf`. The other variables are the
fields of `BasicStorage` (`blocks`, `states`, `last_block`, `current_state`), of the pool
(`pool`) and of the rule (`fork_choice`). Four tallies are history: how often each transaction
was `accepted`, `executed` in an automatic block, `dropped` with a batch that could not be
sealed, and `swept` away as the equal of one that was executed. `calls` counts towards the
bound. **`Nodes`** gives the constants the repository's own parts:
the engines of `Consensus`, the currency of `AccountedCurrency`, the pools of
`TransactionPool`. `TestClient` is the client that the code's tests make, `EvenClient` one
whose engine refuses some blocks. One action per public call:

| Action | Code |
|---|---|
| `SubmitTransaction` | `submit_transaction` |
| `AuthorManual` | `author_and_import_manual_block` (c4 p5:34-86) |
| `AuthorAutomatic` | `author_and_import_automatic_block` (c4 p5:90-150), whose disjuncts are: nothing to do, `seal` fails after the batch was taken, a block is made |
| `ImportBlock` | `import_block` (c4 p2:56-89), on the blocks that `ImportOffered` makes up, right and wrong |

**`Consensus`** has the engines of chapter 3 as records (`Pow(t)`, `ByHeight(as)`,
`EvenOnly(inner)`, ...) and `Validates` and `Seals` over them. Digests are tagged with
their type, and the conversions between digest types, which can fail, are `TryFrom` and
`From`. Engines that wrap engines are handled by one layer of operators per nesting
(plain, even-only, forked), so that no operator is recursive. **`SealedChain`** grows
a chain of headers under one engine: `Seal` is a node's own block, `ImportHeader` one of a peer's
that `validate` accepts. `IsPlain`, `IsEngine` and `IsFork` say which engines the code's
types and constructors admit.

**`Lessons`** has `child`, `verify_sub_chain` and the best-chain rules of all six parts of
chapter 2 as pure operators over the name of the lesson. The lessons differ in what headers carry
(nothing, a sum, roots) and in what verification looks at (`Linked`, `Adds`, `Mined`,
`BodiesMatch`, `RootsMatch`), so that each of these is one operator and `Verifies` says which
lesson uses which. The blocks of the client (`Block`) are the last lesson. Whether a header
hashes low enough, to an even number, and how much work that is, are functions of the header that
the configuration gives. Loops over blocks are recursive functions: the running state of
verification (`StateUpTo`), the score of a chain (`Score`), and what a loop makes that goes from
parent to child (`Descendants`, with `SideChild` for one block of a side). The functions that
build a chain to order are there too: the valid and the invalid ones of lessons 1 to 3
(`ValidHeaderChain`, `InvalidAdderChain`, ...), the forks of lessons 2, 3 and 5 (`ForkedChains`,
`SideOn`, `HeavierSides`) and the invalid children of lessons 4 and 6. **`Chains`** starts from
such a chain or from genesis, grows it with `child` (`Grow`) and hands it through somebody who
may change it (`Change`, the environment).

Modules named `MC...` give constants their values for TLC. Two of them compose parts that share
no variable, so that one run explores each with its own bounds: `MCChapters` the machines, the
cash, the ledger and the chains of chapters 1 and 2, `MCClientParts` pools, submissions, trees
and chains of headers. A behaviour is one of one part, beside which the others stay as they
are; nothing is lost by that, as no two of them meet in the code but through the client, which
`MCClient` explores as a whole. Modules named `..._proofs` hold
theorems: one for each component, but that `Machines_proofs` has those about the cash system
together with the other machines of chapter 1, and `Collections_proofs` the lemmas that several
use. Operators named `Mut...` are plausible bugs: for every property that a run checks
there is a mutant of the code's model under which TLC finds it violated (`PROJECT.json`
lists the pairs).

## 3. What the runs check

Three runs in which everything holds:

| Run | Question | Part | Bounds |
|---|---|---|---|
| `lessons` | Can any sequence of transitions make, lose or move money it should not? | ledger | 3 users, 2-bit balances so that `+=` wraps, 5 units minted (more than a balance can hold) |
| | Can bills be duplicated, respent or made from nothing? | cash | 2 users (symmetric), amounts 0-2, up to 2 bills at the start, with any serials, and on each side of a transfer, 4 serials: two mints, a transfer of both for two more, and transfers that refer to spent bills |
| | Is every single-user machine what all that was done to it says, and does cash leave only for the right PIN, in the right amount? | machines | 6 transitions from every state; two digits, cards with PINs of none, one and two digits and one that no keys open; so PIN, new card, PIN and a two-digit amount follow each other; a word of 16, which two digits pass; lives 0-5 |
| | What does `verify_sub_chain` accept, in each lesson, which chain is best, and are the chains that are built to order what they claim to be? | chains | 4 blocks, one change at any moment and blocks built on top of it, 2 extrinsics, batches of up to 2, nonces of which half hash low, fork height 2, sides of 2 and 4, of which every part is tried |
| `client_parts` | Do all three pools implement the fair queue? | pool | 5 transactions of 4 priorities, two of them equal, one below the threshold, one censored; 4 insertions |
| | Is what waits ever served while submissions never stop? | stream | 3 transactions, two of the highest priority, equal ones as often as users like; up to 5 waiting, batches of 2 |
| | What do the fork choice rules name, and are weights right, on every tree? | tree | 4 blocks, 4 calls of `import_hook`, work 0-2, so that weights collide, blocks weigh nothing and blocks repeat; genesis shown or not |
| | What does each engine promise of a chain, and where does it get stuck? | seal | 18 configurations, 5 headers: two full turns of two authorities, both sides of a fork at height 2, slots up to the wrap |
| `client` | Do storage, tip, pool and fork choice stay sound under every mix of calls, and is every transaction accounted for? | | two clients: the tests' (proof of work, Ghost, priority pool) and one with an engine that refuses odd state roots, the longest chain and the censoring pool; 2 submitted transactions, equal ones too, 2 manual or imported blocks, batches of 1; a genesis state that is not the default one |

The properties in words, with the code they are about, are beside their definitions. The
ones that carry most:

- `NoMoneyFromNothing` and `CashIsBacked`, `OnlyOwnerPays`, `NeverRespent`.
- `AuthenticatedByPin`, `CashAgainstPin`: over any mix of cards, digits and Enters, cash
  leaves only when the PIN of the card swiped last was entered after it, and as much as was
  keyed in since.
- `SecondSwitchRule`: whenever the first switch goes off the second does, whatever was toggled
  before, and only an odd number of its own toggles brings it back. What a toggle of the second
  does while the first is on is left out of it (below). `ClothesWearOut`: how long clothes last,
  and when drying cleans them.
- `VerifiesIffBuilt`: a chain verifies exactly if `child` could have built it, whatever was
  changed, left out, repeated or swapped; in lesson 4 but for the state, which
  `batched_state` is about. `VerifiesPiecewise`: verification composes.
  `BuildersKeepTheirWord`: on any valid chain, forks are valid and different, each side of the
  contentious fork is valid by its own rules only, and in all of its parts by these, the longer
  side of lesson 5 is a chain and the heavier one has the work asked for, and invalid children
  have valid headers and invalid bodies. `BestScores`: the chain that a rule picks has the
  highest score, as long as scores fit a word.
- `ServesFairly`: each pool is a fair queue, by refinement. `NobodyWaitsForEver`: however many
  transactions keep coming, what waits in a first come first served pool leaves it, and what
  waits in a priority pool does if nothing that users submit has a higher priority.
- `StorageSound`: the database is one tree of valid blocks over genesis, with the state of
  every block, however it was built. `TipSound`: the two fields which `import_block` combines,
  set by separate calls, are always of the same block. `ImportsVerify`: what `import_block`
  lets in passes the checks that c4 p1 and the engine make, which are written elsewhere.
- `EachAccountedFor`: counted one by one, every time a transaction was accepted it is in the
  pool, was executed once in a stored block, was in a batch that could not be sealed
  (`seal_failure`), or was swept away with an equal one that was executed. `BestIsStored`: what
  the rule names can be built on.
- `NeverOverstated`, `ListsAreWeighedSubtrees`: no fork choice map ever credits a chain
  with more work than its blocks carry. `HeaviestChain` may understate it: a fork from the
  middle of a known chain starts again from its own work, and of two chains of one weight the
  map forgets one.
- `SealedValidate`: what `seal` makes, `validate` accepts. Its exceptions are exactly the
  places where the code differs: past a fork, with a threshold that nonces reach
  (`Pow::seal` compares the header's hash with the threshold and `Pow::validate` the
  nonce), and after slot `u64::MAX`. `TurnsAreTaken`: by height, no authority signs twice
  within a round. `SlotsIncrease`. `Alternates`: wherever the interleaved rules are in force, no
  header has the kind of seal of its parent. `RulesInForce`: each header obeys the rules
  that hold at its height.
- `KeepsGrowing`: a node that keeps sealing grows its chain for ever, under every engine but
  that of `pow_to_poa`, which `promised_switch` is about.

Runs that find a disagreement between the code and what a comment or document says. Each is
an exploration of one component, with the constants of its part above or smaller ones, and stops
at the first counterexample:

| Run | What the code does |
|---|---|
| `currency_overburn` | Burning the whole balance or more changes nothing: the account is removed from a copy that is dropped (c1 p4:82-87; the comment at p4:46-48 says it is burnt) |
| `batched_state` | `verify_sub_chain` of lesson 4 executes no transaction and looks at no state (c2 p4:141-153; the comment at p4:140 says it checks the final state) |
| `heavier_side` | The heavier side goes on from each header as it was before it was mined again (c2 p5:197-206), so that it is a chain only if no header but the last one was; p5:175 says that both sides are valid |
| `fork_validation` | `Forked::validate` drops the result of the new engine and refuses everything past the fork (c3 p6:63; the comment at p6:37 says it validates) |
| `promised_switch` | `pow_to_poa` never switches: at the fork the digest of the last block of work does not convert to a signature, `seal` gives `None` and `validate` refuses everything (c3 p6:59, 111; p6:193-198 describes the switch). The theorem `NeverCrossesFork` says why: no header ever reaches the height of the fork |
| `sub_chains` | `verify_sub_chain` of chapter 3 compares every header with the digest it is given and not with that of the header before (c3 mod:82), so that it refuses valid chains of the engines that look at the parent, slots and interleaving; c3 mod:77 says it works for any engine |
| `ghost_descent` | Ghost puts both sides of a fork on one list and names the block it was shown last (c4 p3:212-217), not the one at the end of the descent that c4 p3:185-187 describes. The theorem `LastShown` says so of all trees that it was shown whole |
| `seal_failure` | When `seal` gives `None`, the batch is neither in the pool nor in a block (c4 p5:101, 128-130; c4 p4:3-4 says that what is not included is queued) |
| `authored_blocks` | An authored header's parent is the hash of the parent *block* (c4 p5:59, 116); `verify_child` and `import_block` expect that of the parent *header*, so that what one client authors does not verify (c4 p1:112-136) and no other client can import it |

Further differences met while modelling. The model does what the code does, and no property
asserts the opposite of a comment, or that the code is right to differ from one; these have no
run of their own:

- *Slots and turns.* `PoaRoundRobinBySlot` takes turns per header: the signer follows that of
  the parent in the list, however many slots were skipped. c3 p3:138-146 describes authorities
  that take turns by slot, where a skipped slot is a skipped turn. `TurnsAreTaken` speaks of turns
  by height only, and of slots `SlotsIncrease` says that they do.
- *Which parity is whose.* `AlternatingPowPoa` makes odd heights authority blocks, as the
  default digest of genesis is one of work; "Odd blocks are PoW, Even blocks are PoA"
  (c3 p5:12-13). `Alternates` says that they alternate, and not in which order.
- *The second switch* cannot be turned on while the first is on: toggling it then turns it off,
  whatever it was (c1 p1:50). c1 p1:22-23 makes the two ordinary switches but for one rule about
  turning the first one off. `SecondSwitchRule` is that rule.
- *Equal transactions.* After a batch, `remove` drops every transaction equal to one in it
  (c4 p5:136, p4:154-156), so that of two equal ones that a user submitted one may never be
  executed, where c4 p4:3-4 has everything queued until it is included. `EachAccountedFor`
  counts these losses (`swept`).
- *Starvation.* In a priority pool a transaction waits for ever if better-paid ones keep coming;
  that is the rule of the pool (c4 p4:141-149), and why `NobodyWaitsForEver` speaks of those
  that none overtakes.
- In lesson 6, `verify_sub_chain` does not compare the state it is given with the root of the
  block it starts from (c2 p6:153-175), against p6:150-152.
- The even and odd sides of the contentious fork have an opinion on the last `FORK_HEIGHT` blocks
  of the slice, wherever the slice starts (c2 p3:121, 151), and on none if it is shorter (`len -
  FORK_HEIGHT` wraps; a debug build panics, which is not modelled): each side then accepts the
  blocks of the other. Nothing says what they do there; `SidesDisagree` asks that each accepts
  all parts of its own side, and tells the sides apart on whole chains.
- `HeaviestChainRule` gives no work to a block with nonce 0 (c2 p5:85), and its sum can wrap.
- `State::from` takes the number of bills for the next serial, whatever serials they
  carry (c1 p5:59-74), so that a state written down with serials above it can be minted a
  second bill of one of them; `set_serial` is for that.
- A card swiped in the middle of a session leaves what was keyed in; it counts towards the
  next PIN (c1 p3:71-73, 96-98).
- A transfer of 0 creates an account with 0 in it, against c1 p4:22. A bill of 0 can be
  minted, and never spent (c1 p5:98-123).
- Of two chains of one weight, the map of `HeaviestChain`, `MostAliceSigs` or `Ghost` keeps the
  one that came later (c4 p3:104, 163, 224). No property asks that the other be remembered.
- `LongestChain` names no block until one of height 1 is shown, genesis included, as heights
  start at 0 (c4 p3:54); automatic authoring then has nothing to build on.
- `MostAliceSigs` ignores the child of a known tip when Alice did not sign it (c4 p3:151-153).
- Transactions in manual and in imported blocks stay in the pool (c4 p4:8 says they are removed).
- `import_block` moves neither the tip nor the fork choice (c4 p2:85), against c4 README.md:34.
- `FullClient::new` stores the genesis state it is given (c4 p1:183) beside the genesis
  block and the tip, which the storage made of the default one: the genesis block does not carry it.
- `Pow::validate` compares the digest, not the hash, with the threshold (c3 p1:21).
- `create_empty_chain` makes every block a child of genesis (c4 p1:141-161).

**Why the bounds are enough.** Every operation looks at one parent, one entry, or one pair of
accounts at a time; what an invariant can break on is how few of them meet. The instances
are the smallest in which each meeting happens: two siblings and a child, two equal and one
higher priority, an emptied sender and a new receiver, a re-offered block. Three
things are unbounded in the code and cut by a guard here: the calls (`MaxCalls`,
`MaxSubmitted`, `MaxHooks`, `MaxBlocks`, `MaxArrivals`, `MaxWaiting`, `MaxHeight`, `MaxActions`,
`MaxLength`, `MaxChanges`), the numbers (`MaxMinted`, `MaxBalance`, `MaxSlot`, `Word`, `AtmWord`,
`Lives`) and the bills (`MaxSerial`, `MaxBills`, `MaxWritten`). `CHECK_DEADLOCK FALSE` is
given where a run stops at such a bound or where the code does stop: a client that may
build on nothing, an engine that cannot seal. `MaxSubmitted` bounds the run of the client and
no claim about what must happen in the end: `MaxWaiting` only keeps users from submitting
more while the pool is full, and they go on as soon as it is not.

Weights in `ForkChoice` are natural numbers where the code adds u64 (c4 p3:104, 219): the rules
are shown sealed blocks, whose work is below 2^32 (c3 p1:36), so that a sum takes at least
2^32 blocks to wrap. Where few steps can reach a wrap, in balances, amounts, slots, states and
the work of lesson 5, numbers have a width.

**Fairness.** Nothing in the code calls the client; whoever runs a node does. Two properties
assume the least such a caller does. `NobodyWaitsForEver` assumes weak fairness of
`AuthorNext`, in `StreamSpec`: the node's loop keeps authoring, whether its blocks are sealed or
not. Nothing is assumed of users, who may stop at any time or never do. `KeepsGrowing` and
`SwitchesToPoa` assume weak fairness of `Seal(root)` for each state root, in `FairSealSpec`: the
node keeps trying with what its transactions give. Were it assumed of some root only, a node
under `EvenOnly` might only ever try odd roots. `PartsSpec` has both, each while its part runs.

## 4. What is proved

For every value of the constants that meets the named assumptions:

| Theorem | States | Argument |
|---|---|---|
| `TransactionPools_proofs!TypeCorrect` | `PoolSpec => []PoolTypeOK` | part of `IInv` |
| `TransactionPools_proofs!AlwaysOrdered` | `PoolSpec => []Ordered` | part of `IInv` |
| `TransactionPools_proofs!PoolsImplementFairQueue` | `PoolSpec => ServesFairly` | every step of a pool is one of the fair queue under the mapping |
| `CurrencyLedger_proofs!TypeCorrect` | `LedgerSpec => []TypeOK` | inductive by itself |
| `CurrencyLedger_proofs!NobodyPaysForOthers` | `LedgerSpec => OnlyOwnerPays` | from `TypeOK` |
| `CurrencyLedger_proofs!MoneyIsMinted` | `LedgerSpec => []NoMoneyFromNothing` | part of `Backed` |
| `CurrencyLedger_proofs!NothingLostInTransfer` | `LedgerSpec => TransfersConserve` | from `Backed` |
| `Machines_proofs!BillsTyped` | `CashSpec => []CashTypeOK` | part of `Counted` |
| `Machines_proofs!SerialsStayUnique` | `CashSpec => []SerialsUnique` | part of `Counted` |
| `Machines_proofs!SpentForGood` | `CashSpec => NeverRespent` | from `Counted` |
| `Machines_proofs!MoneyIsMinted` | `CashSpec => []CashIsBacked` | part of `Funded` |
| `Machines_proofs!WornOut` | `MachineSpec => []ClothesWearOut` | part of `Worn` |
| `Machines_proofs!SecondFollowsFirst` | `MachineSpec => []SecondSwitchRule` | from `Ruled` |
| `Machines_proofs!RegisterIsKeyed` | `MachineSpec => []RegisterSinceEnter` | part of `Served` |
| `Machines_proofs!PinAuthenticates` | `MachineSpec => []AuthenticatedByPin` | from `Served` |
| `Machines_proofs!CashForPin` | `MachineSpec => CashAgainstPin` | from `Served` |
| `Client_proofs!StorageAlwaysSound` | `Spec => []StorageSound` | part of `IInv` |
| `Client_proofs!TipAlwaysSound` | `Spec => []TipSound` | part of `IInv` |
| `Client_proofs!AlwaysAccountedFor` | `PoolsKeep` implies `Spec => []EachAccountedFor` | part of `PoolInv`, with `IInv` |
| `Client_proofs!TipAlwaysClimbs` | `Spec => TipClimbs` | from `IInv` and `Below` |
| `Client_proofs!BestIsAlwaysStored` | `WorkIsCounted` implies `Spec => []BestIsStored` | from `IInv`, `Below` and `ChoosesStored` |
| `Client_proofs!ImportsAlwaysVerify` | `Spec => []ImportsVerify` | from `Validated` and `IInv` |
| `BlockTree_proofs!FirstOfTheHighest` | `TreeSpec => []FirstHighestIsBest` | from `Remembered` |
| `BlockTree_proofs!WeightNeverFalls` | `TreeSpec => BestWeightNeverFalls` | from `Weighted` |
| `BlockTree_proofs!LastShown` | `TreeSpec => []LastShownIsBest`: what `ghost_descent` comes from | from `InOneList` |
| `BlockTree_proofs!NoWorkFromNothing` | `TreeSpec => []NeverOverstated` | from `Accounted` |
| `BlockTree_proofs!EveryListWeighed` | `TreeSpec => []ListsAreWeighedSubtrees` | from `Listed` |
| `SealedChain_proofs!TypeCorrect` | `SealSpec => []SealTypeOK` | part of `IInv` |
| `SealedChain_proofs!WhatIsSealedIsValid` | `SealSpec => []SealedValidate` | from `EachFollows` |
| `SealedChain_proofs!RulesAreObeyed` | `SealSpec => []RulesInForce` | from `EachFollows` |
| `SealedChain_proofs!SlotsGoUp` | `SealSpec => []SlotsIncrease` | from `EachFollows` |
| `SealedChain_proofs!TurnsTaken` | `SealSpec => []TurnsAreTaken` | from `RulesInForce` |
| `SealedChain_proofs!AlternatesAlways` | `SealSpec => []Alternates` | from `EachFollows` |
| `SealedChain_proofs!NeverCrossesFork` | `SealSpec => []StopsAtFork`: what `promised_switch` comes from | part of `OnlyWork` |
| `Chains_proofs!AlwaysShaped` | `ChainsSpec => []Shaped` | inductive by itself |
| `Chains_proofs!OnlyBuiltVerifies` | `ChainsSpec => []VerifiesIffBuilt` | from `Shaped` |
| `Chains_proofs!VerificationComposes` | `ChainsSpec => []VerifiesPiecewise` | from `Shaped` |
| `Chains_proofs!BuildersKeepWord` | `MiningEnds` implies `ChainsSpec => []BuildersKeepTheirWord` | from `Shaped` |
| `Chains_proofs!BestChainIsBest` | `WorkIsNumber` implies `ChainsSpec => []BestScores` | from `Shaped` |

*Sums and folds.* `Collections_proofs` has what several modules need of sequences, maps and
sums. The library's sums and folds are recursive functions that `CHOOSE` picks, and its
induction theorems are out of reach (they take an operator). The module therefore proves
induction over numbers and finite sets in the form of sets, which need no operator
(`CountingUp`: a set of naturals with 0 and all successors is all of them; `TakingAway`: the
same for finite sets that lose one element), and with them that the chosen function exists and is
the only one (`SetRecursionExists`, `SumIsChosen`, `SumsAreUnique`). From there it
goes by plain algebra: a sum takes one more element, changes with one value, does not depend
on the order, grows with its set (`SumOfOneMore`, `SumOfOneChanged`, `SumOfImage`,
`PartOfSum`), and a fold that adds from the left is that sum (`AddedFromLeft`).

*Pools.* `IInv == PoolTypeOK /\ Ordered /\ Admissible`. `Ordered` alone is not inductive: that
a new entry goes behind all of its rank needs `Admissible`, which says that nothing waiting
arrived after now. The work is in the lemmas about the two operations on the queue, which
`Collections_proofs` has for the pools and for the client: `InsertAtElements`
(what is where after an insertion), `RetainElements` with `NthEnumerates` (the k-th kept
position grows with k, so that order survives removal), `InsertPosition` (the first position of
lower priority has only higher or equal ones before it). `QueueOrder` and `QueueEntries` lift
them to the queue. The refinement uses `Ordered`: the head of the queue is the `First` of
the abstract set.

*Currency.* Everything rests on `CreditEffect` and `DebitEffect`: each changes one balance, a
debit by its amount, a credit by its amount cut to a word. `Fair` says of one transition what
`OnlyOwnerPays` says of all; it is shown of each (`MintIsFair`, `BurnIsFair`,
`TransferIsFair`, the last for senders that are receivers too). Of the sum of all accounts,
`CreditSupply` and `DebitSupply` say how one credit or debit changes it. The invariant `Backed`
adds to `NoMoneyFromNothing` that finitely many users have accounts, without which there is no
sum; `TransfersConserve` also needs it, as only an amount that is backed is small enough
not to wrap at the receiver.

*Cash.* Both results about serials rest on one fact of every step, `StepAdds`: it adds bills that
carry the serials from `next_serial` on, each once, and keeps some of the others. With "every
issued bill has a serial below `next_serial`" (in `CashTypeOK`), new bills differ from all old
ones, spent or not. Money is `Funded`: of bills with different serials, a set, a sequence without
repetition and a fold over it have one sum (`TotalIsSum`), so that what `Transfer` compares is
what goes out of `bills` and what comes in.

*Machines.* The properties compare a state with the whole log; the proofs say what one more entry
does to what the log says. `Worn` is `ClothesWearOut` and the types it needs. `Ruled` says more than
`SecondSwitchRule`, what the code does whatever is toggled (`TogglesTell`: a toggle while the
first switch is on leaves the second off), and that the second was not touched since the first
went off, while that is off. `Served` is the loop of the cash machine: a card that is checked was
the last thing swiped and no Enter came since; authentication is `PinEntered`; the register is
`Keyed` since the last Enter. Neither of the three can be proved without the others: an Enter
compares the register with the card, and empties it. `AuthenticatedByPin` has one more direction,
that nobody who entered the PIN is turned away; it follows because the machine waits only while
nothing was swiped since the last session (`log` starts again).

*Client.* `IInv == StorageSound /\ TipSound`: an import builds on the tip and the current state,
which must be in the storage, and the tip moves to what was just stored, so neither is inductive
without the other. `Validated` says of imported blocks what the engine does; that
`verify_sub_chain` accepts them too is in `StorageSound` already. A block stored later may have
the header of a parent that an imported block has already, and becomes its parent, too; as
engines look at headers only (`OneReference`), what was validated stays so. `StoreKeeps` says
that nothing stored is ever replaced by something else, as a hash is a key for one value.
`EachAccountedFor` asks one thing of the pool, `PoolsKeep`: of each transaction it has as many as
before, and one more of what it accepts; the repository's pools do (`NodePoolsKeep`). How often
something is in a queue is the size of a set of positions: an insertion adds one to it
(`InsertedCount`), and `BatchSplits` says that the batch, what is swept away behind it and what
stays add up to the queue, and that nothing is swept away but equals of the batch. `StepShape`
sums up what a step does to storage, tip and rule. From it, `Below` (the tip is no higher than
the best block, which is stored) makes the tip climb, and `ChoosesStored` (everything that the
rule remembers is stored, and its weights have a greatest one) keeps the best block stored. The
latter asks that digests are numbers where a rule adds them up, `WorkIsCounted`; the code's types
say so (c4 p3:78, 192), and proof of work does it (`PowSealsNumbers`).

*Fork choice.* `Remembered`: `LongestChain` holds the first of the highest blocks it was
shown. `Heavier` is shown of each way to change a map of weights (`OneGrows`, `OneMore`).
`InOneList`: a Ghost that was shown every block after its parent has a single list, that of
all blocks in the order they came. `ShownBefore` makes that inductive: what was shown before
the last block was shown completely, too. For `NeverOverstated`, what a block and its
ancestors are worth is a recursive function over the tree, of which nothing is known until it
is shown to exist. `Accounted` carries it along: there is exactly one function on the stored
blocks that adds work over ancestors (`OnlySum`), and the rule credits no chain with more than it
says (`Credited`). A new block extends that function and changes none of its values
(`SumTakesBlock`), so that no induction over heights is needed. `Listed` says of each list of
Ghost that it weighs what its blocks carry and that each block but the first has its parent
before it (`WeighedSubtree`), in the two cases of the code: a block starts a list
(`OneOnList`) or goes on one (`OneMoreOnList`).

*Chains of headers.* `EachFollows`: every header has a digest of the engine's type and was
sealed by `Seals` or accepted by `Validates` on the header before. The promises about single
headers then follow from lemmas about one engine: what an engine
seals has its type (`SealsTyped`) and is valid (`EngineSealsValidate`, `ForkSealsValidate`), and
what it seals or accepts obeys it (`EngineObeys`, `ForkObeys`). Turns by height are a matter
of remainders (`DifferentRemainders`). `AlternatingFollows` is the interleaved engine on one
header; under a fork it gets the digest converted, which keeps its kind (`ForkAlternates`).
`OnlyWork`: under `pow_to_poa` every digest is one of work (`PowToPoaFollows`), and so no
header reaches the fork.

*Chains of the lessons.* What verification accepts is a statement about every chain, however
long, so that it is shown of all of them at once; the invariant only says which chains there are.
`Shaped`: the chain is one or more blocks, each with the fields that its lesson gives it
(`Fits`), of numbers where these are added and of the unit where the lesson has nothing. That
whatever the builders make is such a chain is the long part of it (`BuiltIsChain`), as each
builder is a loop (`LineExists`: what a loop makes exists and is the only such list). The other
loop is the running state of verification: `RunExists` and `RunsAgree` say that it exists and is
the only one, `RunGoesOn` that after `i + k` blocks it is what `k` blocks make of the state after
`i`. With these, all that `verify_sub_chain` checks becomes one condition per block and its
parent (`VerifiesEach`), and so it may be split anywhere (`VerifiesInParts`). `AcceptsChildren`,
by cases over the lessons, says that this condition is that `child` could have built the block;
where the code does not look, the block may differ, at the client's digest as `Built` says and at
the state in lesson 4 as `BuiltUpToState` does. What is built on a chain verifies if each new
block does after the one before (`GrownVerifies`, `VerifiesOnwards`). The sides of the
contentious fork need arithmetic on top: `AddParity` keeps parity on words, whose number is even,
and with it each extrinsic that a side draws puts its state on that side (`SideAccepted`);
`SidesGoOn` shows of each part of a side what is shown of the whole. `PlainHeadersDescend` is the
longer side of lesson 5, `MinedAgain` the work of the heavier one. For the best chain, a running
score in words is the true sum as long as that fits (`TallySum`, `CountIsSum`, `ScoreIsTrue`),
and of three candidates the fold keeps the last or the first of the highest (`BestOfThree`,
`HighestOfThree`).

Two of these theorems have a hypothesis. `MiningEnds`: for whatever else a header says, some nonce
makes it hash low; the code's loop ends only when it has found one (c2 p3:60-62), and without one
there is no side to speak of. `WorkIsNumber`: the work of a header is a natural number, as
it is a u64 (c2 p5:88). Both hold of the definitions that `MCChains` gives.

Assumptions: `PolicyAssumption`, `AmountsAssumption`, `MaxBalanceAssumption`,
`CashAssumption`, `BoundsAssumption`, `BatchAssumption`, `NodeAssumption`, `DigestsAssumption`,
`NoncesAssumption`, `ChainAssumption`, `AtmAssumption`, `MachinesAssumption` and
`LessonAssumption`. They type the constants; `LessonAssumption` also says that the number of
words is even (2^64 is), and that a lesson starts from a state of its kind; `ChainAssumption`
also says that an engine is one that the code's constructors make, with
authorities where it needs some, and that a fork is not at height 0. TLC
evaluates each in a passing run. The exploration bounds are constants, so the theorems hold
however large they are. The types of the pools and of `SealedChain` are proved and not run
again.

Only model-checked: liveness (`NobodyWaitsForEver`, `KeepsGrowing`), for which the prover has no
rules about `ENABLED`. Every other property of a passing run is a theorem.

## 5. Not modelled

- *Finality* (c4 p6) is a `todo!()`, and the *open-ended state machine* (c1 p6) an exercise
  without code.
- `FullClient::default` is a `todo!()`; `almost_valid_but_not_all_even` (c3) builds one fixed
  chain that only its test looks at; so do the `Default`s of `Block` and `Header`.
- `hash` has no collisions, and a state's root is determined by its content. In the code
  `BalancesB::hash` iterates over a `HashMap`, in an order that may differ between two equal
  maps (c1 p4:32-39).
- Proof-of-work sealing draws nonces until the hash is low enough; the model takes any
  nonce it might end with. That the search ends is assumed: an engine whose `seal` never
  returns, as proof of work with threshold 0, is in `Consensus` (nothing is sealed) and in
  no node.
- Where the code panics the model has no step: an empty set of authorities, a debug
  build's overflow.
- Names, `Debug`, the default methods that are `todo!()`, and what only tests construct.

## 6. What is left

All code with a state of its own is modelled. What could follow:

1. Two clients that exchange blocks. As the code is (`authored_blocks`), nothing that one
   authors is ever accepted by the other, so that the composition has no behaviour that
   `ImportOffered` does not have; it becomes worth its states once the parent's hash is
   fixed.
2. The hypotheses `MiningEnds` and `WorkIsNumber` speak of a hash that nothing else is known of.
   A model of the hash as a function to words would make them statements about it.
