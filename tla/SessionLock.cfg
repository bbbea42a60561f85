SPECIFICATION FairSpec
CONSTANTS
    Locks = {l1, l2}
    NoLock = NoLock
    Session = Session
    MaxFailures = 1
    MaxPauses = 1
INVARIANTS
    LockedScreen
    NeverAsleep
PROPERTIES
    OnlyHolderUnlocks
    LocksSettle
CHECK_DEADLOCK FALSE
