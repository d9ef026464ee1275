SPECIFICATION ProgramsSpec
CONSTANTS
    Sizes = {0, 56, 2200, 65000}
    Aligns = {96, 256}
    MaxPages = 2
    MaxLive = 2
    Word = 65536
    MaxSymbols = 20
    MaxDigrams = 11
    Bytes = {97, 133}
    BlockSizes = {2, 10}
    MaxText = 10
    BUCKETS = 2
    EXTEND = 1
    Inputs <- MCInputs
    Deepest = 4
    Base = 3
    NSize = 2
    Workers = 2
    Diff = 1
    Digests <- MCDigests
    Chars = {"a", "cr", "lf", "ff"}
    Initial = 4
    MaxRead = 9
    f1 = f1
    f2 = f2
    Fd = {f1, f2}
    NoFd = NoFd
    MaxLines = 3
    MaxCommands = 2
SYMMETRY Symmetry
INVARIANTS
    HeapIsTiled
    FreeBlocksAreListed
    PayloadsAreKept
    ValidIsFreed
    GrammarKeepsText
    RulesAreUsed
    BlocksAreRestored
    WholeIsAccepted
    CornersAreLast
    TreesAreTotalled
    NoNonceIsSkipped
    LineIsRead
    FaultNeedsLongLine
    TesterIsSatisfied
    TesterKnowsState
PROPERTIES
    ImplementsAllocator
    FilesCountOnce
CHECK_DEADLOCK FALSE
