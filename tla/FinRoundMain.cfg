\* Four nodes, one that may crash and one that may be preempted; two batches are under way.
SPECIFICATION Spec
CONSTANTS
    Node = {a, b, c, d}
    Running = {a, b, c, d}
    Correct = {a, b, c}
    Settled = {a, b}
    Slow = {b}
INVARIANTS
    BlocksAgree
    RoundEnds
PROPERTIES
    Refinement
CHECK_DEADLOCK FALSE
