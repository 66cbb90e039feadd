SPECIFICATION Spec
CONSTANTS
    Txs <- MCTxs
    NextOf <- NextBalances
    DefaultDigest <- MCDefaultDigest
    DefaultState <- MCDefaultState
    Nodes <- MCNodes
    TryInsert <- NodeTryInsert
    Validate <- NodeValidate
    Sealings <- NodeSeals
    Nonces <- MCNonces
    Threshold = 2
    OddStates <- MCOddStates
    BatchSize = 1
    GenesisStates <- MCGenesisStates
    Bodies <- MCBodies
    OfferedDigests <- MCOfferedDigests
    MaxCalls = 2
    MaxSubmitted = 2
CHECK_DEADLOCK FALSE
INVARIANT AuthoredVerify
