SPECIFICATION SfmmSpec
CONSTANTS
    Sizes = {56, 65530}
    Aligns = {96, 256}
    MaxPages = 1
    MaxLive = 2
    Word = 65536
INVARIANT RegionsAreLargeEnough
CHECK_DEADLOCK FALSE
