SPECIFICATION PolyaFairSpec
CONSTANTS
    W = 2
    P = 1
    Kills = 1
PROPERTIES
    MasterExits
CHECK_DEADLOCK FALSE
