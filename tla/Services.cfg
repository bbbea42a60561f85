SPECIFICATION ServicesSpec
CONSTANTS
    v1 = v1
    v2 = v2
    o1 = o1
    o2 = o2
    r1 = r1
    r2 = r2
    r3 = r3
    Clients = {"a", "b"}
    Requests <- SmallRequests
    Capacity = 2
    Memory = 3
    MaxBytes = 2
    Notice = 1
    Batch = 2
    MaxPending = 1
    Keys = {k1}
    Lifecycle = Lifecycle
    ServiceCapacity = 1
    ClientCapacity = 2
    SignalBound = 2
    MaxPublished = 3
    Shots = {r1, r2, r3}
    Screens = {s1}
    ScreenModes = {2, 3}
    MaxRequests = 2
    MaxCaptureBytes = 6
    Levels = {0, 1, 6}
    Inhibitors = {i1, i2}
    Commands = {c1}
    Views = {v1, v2}
    Outputs = {o1, o2}
    Interval = 2
INVARIANTS
    CallsConserved
    DeliveriesExact
    ShotsWithinBudget
    LightKept
PROPERTIES
    AskedIsDone
    DutiesDone
    CallbacksKept
CHECK_DEADLOCK FALSE
