\* Three nodes run; two broadcasts are still under way and both are drawn.
SPECIFICATION Spec
CONSTANTS
    n1 = n1
    n2 = n2
    n3 = n3
    n4 = n4
    Node = {n1, n2, n3, n4}
    Proposer = {n1, n2, n3, n4}
    Running = {n1, n2, n3}
    Correct = {n1, n2, n3}
    Settled = {n3, n4}
    Ahead = {}
    Draw <- FirstThenSecond
    MaxRound = 1
INVARIANTS
    OutcomeIsHeld
    Agreement
    OutcomeOrLoneLeader
    WaitEnds
PROPERTIES
    Refinement
CHECK_DEADLOCK FALSE
