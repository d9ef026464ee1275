SPECIFICATION Spec
CONSTANTS
    Bytes = {97, 133}
    BlockSizes = {2}
    MaxText = 4
    MaxSymbols = 20
    MaxDigrams = 999983
INVARIANT TextIsRestored
CHECK_DEADLOCK FALSE
