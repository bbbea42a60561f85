SPECIFICATION SurfacesSpec
CONSTANTS
    MaxInt = 15
    l1 = l1
    l2 = l2
    Layers = {l1, l2}
    Requests <- MCRequests
    Default <- Plain
    OutputSizes <- MCOutputSizes
    Origin <- MCOrigin
    MaxConfigures = 4
    MaxResizes = 1
    Tiled = {1, 2, 3}
    Spaces = {1, 2}
    Arrangements <- MCArrangements
    w1 = w1
    w2 = w2
    bar = bar
    m1 = m1
    m2 = m2
    Windows = {w1, w2}
    Panels = {bar}
    Popups = {m1, m2}
    Client <- MCClient
    MaxInputs = 2
    MaxSerial = 2
    Keys = {k1, k2}
    Lifecycle = Lifecycle
    Ids <- MCIds
    Sizes = {1, 2, 3}
    EventCapacity = 3
    EventBytes = 4
    MaxEventBytes = 2
    MaxPublished = 5
SYMMETRY SurfacesSymmetry
INVARIANTS
    LayersSound
    TilesKept
    GrabsSound
    NoLostWakeup
    QueueExact
CHECK_DEADLOCK FALSE
