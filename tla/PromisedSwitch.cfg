SPECIFICATION FairSealSpec
CONSTANTS
    Nonces <- MCNonces
    MaxSlot = 3
    Engines <- MCEngines
    StateRoots <- MCStateRoots
    Offered <- MCOffered
    MaxHeight = 4
CHECK_DEADLOCK FALSE
PROPERTY SwitchesToPoa
