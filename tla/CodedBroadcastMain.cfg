\* Four nodes, one follower of which may crash; elected or not.
SPECIFICATION FairSpec
CONSTANTS
    Node = {l, a, b, c}
    Leader = l
    Correct = {l, a, b}
PROPERTIES
    Refinement
    Totality
    ElectedReachesAll
CHECK_DEADLOCK FALSE
