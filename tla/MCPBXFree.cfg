SPECIFICATION Spec
CONSTANTS
    f1 = f1
    f2 = f2
    f3 = f3
    Fd = {f1, f2, f3}
    Valid = {f1, f2}
    NoFd = NoFd
    Addr = {1, 2}
INVARIANTS
    NoUseAfterFree
