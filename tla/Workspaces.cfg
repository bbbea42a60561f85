CONSTANTS
    w1 = w1
    w2 = w2
    Windows = {w1, w2}
    NoWindow = NoWindow
    NoFocus = NoFocus
    Layer = Layer
    Locker = Locker
    MaxOutputs = 2
    MaxWorkspace = 3
    Sessions <- MCSessions
SYMMETRY WindowsSymmetry
SPECIFICATION Spec
INVARIANTS
    DesktopSound
    EventsTell
    KeyboardSeen
    KeyboardClaimed
PROPERTIES
    ChangesTold
    SwitchFocuses
