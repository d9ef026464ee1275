SPECIFICATION ProcessesSpec
CONSTANTS
    f1 = f1
    f2 = f2
    f3 = f3
    Fd = {f1, f2, f3}
    Valid = {f1, f2}
    NoFd = NoFd
    Addr = {1, 2}
    N = 3
    W = 2
    P = 2
    Kills = 1
INVARIANTS
    CallsAreSymmetric
    ServerTypeOK
    FreedAfterService
    PolyaTypeOK
    NoStaleProblem
    ResultIsAwaited
    IdleIsStopped
    SuccessMeansSolved
PROPERTIES
    PartyIsStable
    HolderFinishes
    ShutdownEnds
    HeardSighup
    ImplementsRounds
    MasterFinishes
    PolyaSolves
CHECK_DEADLOCK FALSE
