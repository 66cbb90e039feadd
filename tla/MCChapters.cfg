SPECIFICATION ChaptersSpec
CONSTANTS
    Digits <- MCDigits
    Cards <- MCCards
    CashInside <- MCCashInside
    Lives <- MCLives
    AtmWord = 16
    MaxActions = 6
    anne = anne
    ben = ben
    Owners <- MCOwners
    BillAmounts <- MCBillAmounts
    MaxSerial = 4
    MaxBills = 2
    MaxWritten = 2
    alice = alice
    bob = bob
    charlie = charlie
    Users <- MCUsers
    MaxBalance = 3
    Amounts <- MCAmounts
    MaxMinted = 5
    Word = 8
    ForkHeight = 2
    LowHash <- MCLowHash
    EvenHash <- MCEvenHash
    Work <- MCWork
    NextOf <- MCNextOf
    DefaultDigest <- MCDefaultDigest
    Extrinsics <- MCExtrinsics
    Bodies <- MCBodies
    Nonces <- MCNonces
    StartStates <- MCStartStates
    BuiltLengths <- MCBuiltLengths
    SideLength = 2
    HardWork = 3
    MaxLength = 4
    MaxChanges = 1
CHECK_DEADLOCK FALSE
INVARIANTS
    SecondSwitchRule
    ClothesWearOut
    RegisterSinceEnter
    AuthenticatedByPin
    CashTypeOK
    SerialsUnique
    CashIsBacked
    TypeOK
    NoMoneyFromNothing
    VerifiesIffBuilt
    VerifiesPiecewise
    BuildersKeepTheirWord
    BestScores
PROPERTIES
    CashAgainstPin
    NeverRespent
    TransfersConserve
    OnlyOwnerPays
SYMMETRY EitherOwner
