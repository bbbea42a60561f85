SPECIFICATION Spec
CONSTANTS
    us = us
    de = de
    unknown = unknown
    m1 = m1
    m2 = m2
    d1 = d1
    d2 = d2
    Automatic = Automatic
    Broken = Broken
    Layouts = {us, de, unknown}
    Compilable = {us, de}
    Pointers = {0, 1}
    Modes = {m1, m2}
    Best = m1
    Devices = {d1, d2}
    Capable = {d1, d2}
    Defaults <- MCDefaults
    Asked <- MCAsked
    Edits <- MCEdits
    Fragments <- MCFragments
    SwitchFails = TRUE
    MaxTimers = 1
SYMMETRY MCSymmetry
INVARIANTS
    InForce
    EditsTaken
    Settled
CHECK_DEADLOCK FALSE
