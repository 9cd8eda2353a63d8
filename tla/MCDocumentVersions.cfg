SPECIFICATION Spec
CONSTANTS
    t1 = t1
    t2 = t2
    t3 = t3
    t4 = t4
    Threads = {t1, t2, t3, t4}
    MaxRetries = 3
SYMMETRY ThreadSymmetry
CHECK_DEADLOCK FALSE
INVARIANTS
    VersionsContiguous
    ConflictNeedsContention
    DuplicatesOverlapped
PROPERTY
    ImplementsLedger
