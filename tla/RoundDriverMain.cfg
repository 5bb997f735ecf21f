\* Four nodes: this one, two correct peers that answer calls, a liar.
SPECIFICATION Spec
CONSTANTS
    Me = 4
    Peer = {1, 2, 3}
    Liar = {3}
    Helper = {1, 2}
    MaxRound = 6
    Seen = {0, 2, 3, 6}
    SafeSize = 2
    CallSize = 1
    BlockSize = 1
INVARIANTS
    StoredIsAgreed
    MissingIsHeld
PROPERTIES
    Refinement
    WaitGoesOn
CHECK_DEADLOCK FALSE
