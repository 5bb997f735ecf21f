\* Three stages, two messages of each.
SPECIFICATION Spec
CONSTANTS
    a = a
    b = b
    c = c
    d = d
    e = e
    f = f
    Message <- MCMessage
    Stage <- MCStage
    MaxStage = 2
    Needed = 1
INVARIANTS
    OnePlace
    OneStolen
PROPERTIES
    LostOnlyByLaggard
    IsTakenIn
    StageBegins
CHECK_DEADLOCK FALSE
