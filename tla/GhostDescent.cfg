SPECIFICATION TreeSpec
CONSTANTS
    Watching <- Rules
    WorkDigests <- MCWorkDigests
    Authorities <- MCAuthorities
    TreeRoots <- MCTreeRoots
    MaxHooks = 4
    MaxBlocks = 4
CHECK_DEADLOCK FALSE
INVARIANT GreedyDescent
