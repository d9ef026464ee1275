SPECIFICATION ServerSpec
CONSTANTS
    N = 3
INVARIANTS
    NoUseOfFreedPbx
