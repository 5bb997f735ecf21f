\* Three correct nodes, the fourth silent; the proposal drawn may be held by its own leader alone.
SPECIFICATION Spec
CONSTANTS
    n1 = n1
    n2 = n2
    n3 = n3
    n4 = n4
    Node = {n1, n2, n3, n4}
    Proposer = {n1, n2, n3, n4}
    Running = {n1, n2, n3}
    Correct = {n1, n2, n3}
    Settled = {n2, n3, n4}
    Ahead = {}
    Draw <- FirstThenSecond
    MaxRound = 1
INVARIANT
    SomeOutcome
CHECK_DEADLOCK FALSE
