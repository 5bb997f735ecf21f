------------------------------ MODULE BlockChain ------------------------------
(***************************************************************************)
(* What the driver of one node promises to whoever reads its database: the   *)
(* node goes through the rounds in order, stores only blocks that were        *)
(* agreed on, in rounds it or a correct peer has been through, and leaves     *)
(* out only rounds a correct peer has been through.                          *)
(***************************************************************************)
EXTENDS Integers

CONSTANT Round      \* the rounds

VARIABLES
    passed,     \* rounds a correct peer has been through
    round,      \* the round of the node
    db          \* the blocks stored: {<<round, content>>}

vars == <<passed, round, db>>

Agreed(r) == <<r, "agreed">>

Init == passed = {} /\ round = 0 /\ db = {}

PeersGoOn ==
    /\ \E s \in SUBSET Round : passed' = passed \union s
    /\ UNCHANGED <<round, db>>

\* The node's own round ends.
Store ==
    /\ round + 1 \in Round
    /\ db' = db \union {Agreed(round)}
    /\ round' = round + 1
    /\ UNCHANGED passed

\* A block comes from the peers.
Recover(r) ==
    /\ r \in passed
    /\ db' = db \union {Agreed(r)}
    /\ UNCHANGED <<passed, round>>

Jump(r) ==
    /\ r > round /\ \A s \in Round : round <= s /\ s < r => s \in passed
    /\ round' = r
    /\ UNCHANGED <<passed, db>>

Next ==
    \/ PeersGoOn
    \/ Store
    \/ \E r \in Round : Recover(r) \/ Jump(r)

Spec == Init /\ [][Next]_vars
=============================================================================
