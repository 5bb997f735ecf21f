\* Three of four nodes run and never fail; each is handed the second input.
SPECIFICATION FairSpec
CONSTANTS
    n1 = n1
    n2 = n2
    n3 = n3
    n4 = n4
    Node = {n1, n2, n3, n4}
    Running = {n1, n2, n3}
    Correct = {n1, n2, n3}
    Inputs <- ByCount
    Late = {n1, n2, n3}
    Slow = {}
    Coin <- Alternating
    MaxLoop = 2
PROPERTIES
    Refinement
    ProgressOrFewDeciders
CHECK_DEADLOCK FALSE
