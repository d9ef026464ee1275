SPECIFICATION ServerFairSpec
CONSTANTS
    N = 3
PROPERTIES
    SighupStartsShutdown
