\* All four nodes, any inputs, no second input.
SPECIFICATION Spec
CONSTANTS
    n1 = n1
    n2 = n2
    n3 = n3
    n4 = n4
    Node = {n1, n2, n3, n4}
    Running = {n1, n2, n3, n4}
    Correct = {n1, n2, n3, n4}
    Inputs <- AnyInput
    Late = {}
    Slow = {}
    Coin <- Alternating
    MaxLoop = 2
SYMMETRY Alike
INVARIANTS
    Agreement
    OutputIsDecided
    TrueIsHeld
CHECK_DEADLOCK FALSE
