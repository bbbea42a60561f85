SPECIFICATION FairSpec
CONSTANTS
    Frames = {f1}
    Calls = {c1}
    Owners = {o1}
    OwnerOf <- MCOwnerOf
    Capacity = 1
INVARIANTS
    ConsentRequired
    EntriesSound
PROPERTIES
    DenyHolds
    ImplementsConsent
    CapturesResolved
CHECK_DEADLOCK FALSE
