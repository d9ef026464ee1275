SPECIFICATION PolyaSpec
CONSTANTS
    W = 2
    P = 2
    Kills = 0
INVARIANTS
    CancelIsCurrent
