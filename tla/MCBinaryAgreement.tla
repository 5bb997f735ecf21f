-------------------------- MODULE MCBinaryAgreement --------------------------
(***************************************************************************)
(* Small instances of BinaryAgreement for TLC.                              *)
(***************************************************************************)
EXTENDS BinaryAgreement, TLC

CONSTANTS n1, n2, n3, n4

\* TRUE, FALSE, TRUE, ...: a decision of TRUE in loop 0 is followed by a loop in
\* which FALSE could be decided.
Alternating == [l \in 0 .. MaxLoop |-> l % 2 = 0]

AnyInput == [Node -> BOOLEAN]
InputsWith(k) == {[n \in Node |-> n \in X] : X \in {Y \in SUBSET Node : Cardinality(Y) \in k}}
AtMostOneTrue == InputsWith({0, 1})
\* One of each number of TRUE inputs: the nodes that run are alike.
ByCount == {[n \in Node |-> n \in X] : X \in {{}, {n1}, {n1, n2}, {n1, n2, n3}}}

\* Nodes with the same role may be exchanged.
Alike == Permutations(Running \ (Late \union Slow))
            \union Permutations(Late \ Slow) \union Permutations(Slow)
=============================================================================
