-------------------------- MODULE ValidatedAgreement --------------------------
(***************************************************************************)
(* What the multivalued agreement of one round promises to the round: the    *)
(* nodes that get an outcome get the same one, a proposal of one of them,    *)
(* and one that enough nodes have looked at and found in order.  None gets   *)
(* an outcome before a quorum has joined.                                   *)
(***************************************************************************)
EXTENDS Integers, FiniteSets

CONSTANT Node       \* the participants

VARIABLES
    joined,     \* nodes that take part
    valid,      \* nodes whose proposal enough nodes have found in order
    outcome     \* by node: {} or {the node whose proposal was agreed on}

vars == <<joined, valid, outcome>>

N == Cardinality(Node)
T == (N - 1) \div 3

Init ==
    /\ joined \in SUBSET Node
    /\ valid \in SUBSET joined
    /\ outcome = [n \in Node |-> {}]

\* Nodes join, and proposals come to be valid; both last.
Prepare ==
    /\ \E more \in SUBSET Node : joined' = joined \union more
    /\ \E more \in SUBSET joined' : valid' = valid \union more
    /\ UNCHANGED outcome

Decide(n, p) ==
    /\ n \in joined /\ Cardinality(joined) >= 2 * T + 1
    /\ p \in valid
    /\ outcome[n] = {} /\ \A m \in Node : outcome[m] \subseteq {p}
    /\ outcome' = [outcome EXCEPT ![n] = {p}]
    /\ UNCHANGED <<joined, valid>>

Next == Prepare \/ \E n, p \in Node : Decide(n, p)

Spec == Init /\ [][Next]_vars
=============================================================================
