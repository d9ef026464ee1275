SPECIFICATION VtreeSpec
CONSTANTS
    BUCKETS = 2
    EXTEND = 2
    Inputs <- MCInputs
    Deepest = 4
INVARIANT KeysFit
CHECK_DEADLOCK FALSE
