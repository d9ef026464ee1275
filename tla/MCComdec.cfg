SPECIFICATION Spec
CONSTANTS
    Bytes = {97, 133}
    BlockSizes = {10}
    MaxText = 10
    MaxSymbols = 20
    MaxDigrams = 999983
INVARIANT CompressReturns
CHECK_DEADLOCK FALSE
