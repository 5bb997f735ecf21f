----------------------------- MODULE CommonBlock -----------------------------
(***************************************************************************)
(* What one round promises to the driver, and to the nodes that come after   *)
(* it: a block is a set of batches, the same at all nodes; whoever makes it   *)
(* has its batches, there are 2T + 1 of them, and 2T + 1 nodes have each.      *)
(***************************************************************************)
EXTENDS Integers, FiniteSets

CONSTANT Node       \* the participants

VARIABLES
    delivered,  \* by node: whose batches it has
    block       \* by node: {} or {the batches of its block}

vars == <<delivered, block>>

N == Cardinality(Node)
T == (N - 1) \div 3

Init ==
    /\ delivered \in [Node -> SUBSET Node]
    /\ block = [n \in Node |-> {}]

Deliver(n, p) ==
    /\ delivered' = [delivered EXCEPT ![n] = @ \union {p}]
    /\ UNCHANGED block

Holders(p) == {n \in Node : p \in delivered[n]}

MakeBlock(n, batches) ==
    /\ batches \subseteq delivered[n] /\ Cardinality(batches) >= 2 * T + 1
    /\ \A p \in batches : Cardinality(Holders(p)) >= 2 * T + 1
    /\ block[n] = {} /\ \A m \in Node : block[m] \subseteq {batches}
    /\ block' = [block EXCEPT ![n] = {batches}]
    /\ UNCHANGED delivered

Next ==
    \/ \E n, p \in Node : Deliver(n, p)
    \/ \E n \in Node : \E batches \in SUBSET Node : MakeBlock(n, batches)

Spec == Init /\ [][Next]_vars
=============================================================================
