\* Four nodes, the leader correct, one follower that may crash.
SPECIFICATION FairSpec
CONSTANTS
    Node = {l, a, b, c}
    Leader = l
    Correct = {l, a, b}
    Elected = FALSE
INVARIANTS
    DeliveryIsCarried
    ConfirmedIsHeld
PROPERTIES
    Refinement
    Totality
    LeaderIsHeard
CHECK_DEADLOCK FALSE
