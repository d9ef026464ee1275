SPECIFICATION MCSpec
CONSTANTS
    f1 = f1
    f2 = f2
    f3 = f3
    f4 = f4
    Fd = {f1, f2, f3, f4}
    Valid = {f1, f2, f3}
    NoFd = NoFd
    Addr = {1, 2, 3}
SYMMETRY Symmetry
INVARIANTS
    TypeOK
    LockDiscipline
    NoCircularWait
    DecisionHolds
    ClientIsUpToDate
    FaultNeedsOrphan
PROPERTIES
    ImplementsCalls
