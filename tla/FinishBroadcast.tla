--------------------------- MODULE FinishBroadcast ---------------------------
(***************************************************************************)
(* What one instance of the reliable broadcast with a finish round promises *)
(* to the agreement above it, without a message in sight.  The proposal of *)
(* Leader is validated by nodes one at a time; a node delivers it (its      *)
(* first output) only when a full quorum has validated it, and confirms it  *)
(* (its second output) only when a quorum has delivered it.                 *)
(***************************************************************************)
EXTENDS Integers, FiniteSets

CONSTANTS
    Node,       \* the participants
    Leader      \* the one whose proposal is broadcast

VARIABLES
    validated,  \* nodes that hold the proposal and found it acceptable
    delivered,  \* nodes that gave the first output
    confirmed   \* nodes that gave the second output

vars == <<validated, delivered, confirmed>>

N == Cardinality(Node)
T == (N - 1) \div 3

Init ==
    /\ validated = {}
    /\ delivered = {}
    /\ confirmed = {}

Validate(n) ==
    /\ validated' = validated \union {n}
    /\ UNCHANGED <<delivered, confirmed>>

Deliver(n) ==
    /\ Cardinality(validated) >= 2 * T + 1
    /\ delivered' = delivered \union {n}
    /\ UNCHANGED <<validated, confirmed>>

\* The leader settles for one node less than the others do.
Confirm(n) ==
    /\ Cardinality(delivered) >= IF n = Leader THEN 2 * T ELSE 2 * T + 1
    /\ confirmed' = confirmed \union {n}
    /\ UNCHANGED <<validated, delivered>>

Next == \E n \in Node : Validate(n) \/ Deliver(n) \/ Confirm(n)

Spec == Init /\ [][Next]_vars
=============================================================================
