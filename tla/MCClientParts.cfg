SPECIFICATION PartsSpec
CONSTANTS
    transfer = transfer
    burn = burn
    burn2 = burn2
    mint = mint
    dust = dust
    Txs <- MCTxs
    Prioritizer <- MCPrioritizer
    MinimumPriority = 4
    Terrorist <- MCTerrorist
    MaxArrivals = 4
    high = high
    high2 = high2
    low = low
    BatchSize = 2
    Submitted <- MCSubmitted
    PriorityOf <- MCPriorityOf
    MaxWaiting = 5
    Watching <- Rules
    WorkDigests <- MCWorkDigests
    Authorities <- MCAuthorities
    TreeRoots <- MCTreeRoots
    MaxHooks = 4
    MaxBlocks = 4
    Nonces <- MCNonces
    MaxSlot = 3
    Engines <- MCEngines
    StateRoots <- MCStateRoots
    Offered <- MCOffered
    MaxHeight = 4
CHECK_DEADLOCK FALSE
INVARIANTS
    Ordered
    FirstHighestIsBest
    NeverOverstated
    ListsAreWeighedSubtrees
    SealedValidate
    TurnsAreTaken
    SlotsIncrease
    Alternates
    RulesInForce
PROPERTIES
    ServesFairly
    NobodyWaitsForEver
    BestWeightNeverFalls
    KeepsGrowing
