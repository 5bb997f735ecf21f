--------------------------- MODULE BiasedAgreement ---------------------------
(***************************************************************************)
(* What one binary agreement promises to the multivalued agreement above it. *)
(* A node starts it with an input and may later hand it TRUE as a second    *)
(* input.  Nothing is output before a quorum of nodes has started, and all   *)
(* outputs are the same; TRUE is output only if a set of nodes              *)
(* too large to be all faulty held it, FALSE only if a full quorum began     *)
(* with it.                                                                 *)
(***************************************************************************)
EXTENDS Integers, FiniteSets

CONSTANT Node       \* the participants

VARIABLES
    input,      \* {} before the node starts, then {its input}
    second,     \* nodes that handed the agreement the second input
    outputs     \* the values some node has been given

vars == <<input, second, outputs>>

N == Cardinality(Node)
T == (N - 1) \div 3

Init ==
    /\ input \in [Node -> {{}, {FALSE}, {TRUE}}]
    /\ second = {}
    /\ outputs = {}

Started(v) == {n \in Node : v \in input[n]}

MayOutput(v) ==
    /\ outputs \subseteq {v}
    /\ Cardinality(Started(FALSE) \union Started(TRUE)) >= 2 * T + 1
    /\ IF v THEN Cardinality(Started(TRUE) \union second) >= T + 1
            ELSE Cardinality(Started(FALSE)) >= 2 * T + 1

Start(n, v) ==
    /\ input[n] = {}
    /\ input' = [input EXCEPT ![n] = {v}]
    /\ UNCHANGED <<second, outputs>>

HandSecond(n) ==
    /\ input[n] # {}
    /\ second' = second \union {n}
    /\ UNCHANGED <<input, outputs>>

Output(v) ==
    /\ MayOutput(v)
    /\ outputs' = outputs \union {v}
    /\ UNCHANGED <<input, second>>

Next ==
    \/ \E n \in Node, v \in BOOLEAN : Start(n, v)
    \/ \E n \in Node : HandSecond(n)
    \/ \E v \in BOOLEAN : Output(v)

Spec == Init /\ [][Next]_vars
=============================================================================
