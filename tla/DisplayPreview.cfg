SPECIFICATION FairSpec
CONSTANTS
    us = us
    de = de
    unknown = unknown
    m1 = m1
    m2 = m2
    d1 = d1
    d2 = d2
    Automatic = Automatic
    Broken = Broken
    Layouts = {us, de, unknown}
    Compilable = {us, de}
    Pointers = {0, 1}
    Modes = {m1, m2}
    Best = m1
    Devices = {}
    Capable = {}
    Defaults <- MCDefaults
    Asked <- MCAsked
    Edits <- MCNothing
    Fragments <- MCNothing
    SwitchFails = TRUE
    MaxTimers = 2
PROPERTIES
    PreviewEnds
CHECK_DEADLOCK FALSE
