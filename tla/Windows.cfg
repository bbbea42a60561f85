SPECIFICATION WindowsSpec
CONSTANTS
    w1 = w1
    w2 = w2
    bar = bar
    c1 = c1
    c2 = c2
    o1 = o1
    o2 = o2
    Framed = {w1}
    OutputSizes = {4, 6}
    Locations = {2}
    Sizes = {2, 3}
    Opened <- MCOpened
    Inset = 1
    Frame = 2
    MaxMoves = 2
    Apps = {w1, w2}
    Points = {1, 2, 3, 4}
    Positions = {2, 3}
    Homes = {1, 2}
    Width <- MCWidth
    Style <- MCStyle
    OnTop = {w1}
    Panels <- MCPanels
    Outset = 1
    Corners = {c1, c2}
    Dwell = 2
    Themes <- MCThemes
    ClientSizes <- MCClientSizes
    IconPadding = 1
    TitlePadding = 2
    Margin = 3
    Reach = 1
    Outputs = {o1, o2}
    Scale <- MCScale
    TitlebarModes = {"theme", "auto", "blend"}
    Kinds = {"bar", "outline", "none"}
    Looks = {"on"}
    Texts = {"a"}
    Lengths = {1, 2}
    Modifiers = {"super", "ctrl"}
    OrdinaryKeys = {"a"}
    VtKeys = {}
    Bindings <- MCBindings
    MaxDown = 1
INVARIANTS
    FramesAgree
    PlacesKept
    PointerAgrees
    CornersWait
    FramesUsable
    FramesCurrent
    KeysReleased
PROPERTIES
    Restored
    FiresWhatIsHeld
CHECK_DEADLOCK FALSE
