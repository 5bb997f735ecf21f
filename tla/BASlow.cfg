\* All four nodes, one of them caught between its signals and its writes.
SPECIFICATION Spec
CONSTANTS
    n1 = n1
    n2 = n2
    n3 = n3
    n4 = n4
    Node = {n1, n2, n3, n4}
    Running = {n1, n2, n3, n4}
    Correct = {n1, n2, n3, n4}
    Inputs <- AtMostOneTrue
    Late = {}
    Slow = {n1}
    Coin <- Alternating
    MaxLoop = 2
SYMMETRY Alike
INVARIANTS
    DecideSame
CHECK_DEADLOCK FALSE
