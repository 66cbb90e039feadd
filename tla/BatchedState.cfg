SPECIFICATION ChainsSpec
CONSTANTS
    Word = 8
    ForkHeight = 2
    LowHash <- MCLowHash
    EvenHash <- MCEvenHash
    Work <- MCWork
    NextOf <- MCNextOf
    DefaultDigest <- MCDefaultDigest
    Extrinsics <- MCExtrinsics
    Bodies <- MCBodies
    Nonces <- MCNonces
    StartStates <- MCStartStates
    BuiltLengths <- MCBuiltLengths
    SideLength = 2
    HardWork = 3
    MaxLength = 4
    MaxChanges = 1
CHECK_DEADLOCK FALSE
INVARIANT VerifiedIsExecuted
