SPECIFICATION Spec
CONSTANTS
    Frames = {f1}
    Calls = {c1}
    Owners = {o1}
    OwnerOf <- MCOwnerOf
    Capacity = 1
INVARIANT ExplicitDenialSurvives
CHECK_DEADLOCK FALSE
