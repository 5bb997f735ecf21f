------------------------------- MODULE FinRound -------------------------------
(***************************************************************************)
(* One round (consensus/fin/conseneus.go).  Every node broadcasts a batch;   *)
(* having 2T + 1 batches a node proposes the set of those it has to the      *)
(* multivalued agreement, waits for the batches of the set agreed on and     *)
(* makes them its block.                                                    *)
(*                                                                          *)
(* The broadcasts are those of CodedBroadcast, one for each node, and the    *)
(* agreement that of MVBA with the broadcasts of RBCFinish: here they are    *)
(* what those modules say of them.  Faults are crashes.                      *)
(***************************************************************************)
EXTENDS Integers, FiniteSets

CONSTANTS
    Node,       \* the participants
    Running,    \* those that take part
    Correct,    \* those that run for ever
    Settled,    \* broadcasts every running node has collected at the beginning
    Slow        \* nodes whose collector may be preempted between its two writes

N == Cardinality(Node)
T == (N - 1) \div 3         \* Fault

ASSUME NodeAssumption ==
    IsFiniteSet(Node) /\ Correct \subseteq Running /\ Running \subseteq Node
ASSUME SettledAssumption == Settled \subseteq Node /\ Cardinality(Settled) <= 2 * T

VARIABLES
    flag,       \* ctrbcoutputs, as the set of indices that are true
    content,    \* batches in ctrbcoutputscontent
    proposal,   \* {} until mvbaready, then what the node has, and proposes
    pc,         \* Run waits for "broadcasts", for the "agreement", for the
                \* "batches" agreed on; or it is "done", or "closed" by the driver
    outcome,    \* {} or {the proposer whose proposal was agreed on}
    block       \* {} or {[named: the batches of the block, empty: those of them
                \* whose payload is the empty string]}

vars == <<flag, content, proposal, pc, outcome, block>>

Init ==
    /\ flag = [n \in Node |-> IF n \in Running THEN Settled ELSE {}]
    /\ content = flag
    /\ proposal = [n \in Node |-> {}]
    /\ pc = [n \in Node |-> "broadcasts"]
    /\ outcome = {}
    /\ block = [n \in Node |-> {}]
-----------------------------------------------------------------------------
\* Mutant: the proposal waits for everyone's batch.
EnoughAll == N

Enough == 2 * T + 1

Over(n) == pc[n] \in {"done", "closed"}

\* The second half of the collector's step: the batch is stored, and the
\* batches counted, by whoever has just come to Enough of them.
Store(n, batches) ==
    /\ content' = [content EXCEPT ![n] = batches]
    /\ proposal' = IF Cardinality(batches) = Enough
                   THEN [proposal EXCEPT ![n] = batches]
                   ELSE proposal

\* The collector waits for an output it has not had.
Collects(n, p) ==
    /\ n \in Running /\ ~ Over(n)
    /\ p \notin flag[n] /\ content[n] = flag[n]

\* The broadcast of p gives its output and the collector takes it.
Collect(n, p) ==
    /\ Collects(n, p)
    /\ flag' = [flag EXCEPT ![n] = @ \union {p}]
    /\ IF n \in Slow
       THEN UNCHANGED <<content, proposal>>
       ELSE Store(n, flag[n] \union {p})
    /\ UNCHANGED <<pc, outcome, block>>

MidStep(n) == n \in Running /\ content[n] # flag[n]

\* A collector in the middle of its step completes it, whatever Run does.
SlowStore(n) ==
    /\ MidStep(n)
    /\ Store(n, flag[n])
    /\ UNCHANGED <<flag, pc, outcome, block>>

MayStart(n) == pc[n] = "broadcasts" /\ proposal[n] # {}

\* Run reads the array while the collector goes on writing it.
StartAgreement(n) ==
    /\ MayStart(n)
    /\ \E S \in SUBSET flag[n] :
        /\ proposal[n] \subseteq S
        /\ proposal' = [proposal EXCEPT ![n] = S]
    /\ pc' = [pc EXCEPT ![n] = "agreement"]
    /\ UNCHANGED <<flag, content, outcome, block>>

Started(n) == n \in Running /\ pc[n] # "broadcasts"

\* Mutant: a proposal is accepted as it comes.
AcceptAny(q) == {n \in Node : Started(n)}

\* check_input_rbc: the nodes that find q's proposal in order, once their flags
\* say so.
Accept(q) == {n \in Node : Started(n) /\ proposal[q] \subseteq flag[n]}

\* What MVBA promises: one outcome, of a broadcast that 2T + 1 nodes validated.
MayAgree(n, q) ==
    /\ pc[n] = "agreement" /\ Started(q)
    /\ outcome \subseteq {q}
    /\ Cardinality(Accept(q)) >= 2 * T + 1

Outcome(n, q) ==
    /\ MayAgree(n, q)
    /\ outcome' = {q}
    /\ pc' = [pc EXCEPT ![n] = "batches"]
    /\ UNCHANGED <<flag, content, proposal, block>>

\* Mutant: the block is made as soon as the outcome is there.
HasAllAtOnce(n, named) == TRUE

\* wait_rbc_done looks at the flags.
HasAll(n, named) == named \subseteq flag[n]

HasBatches(n, q) == pc[n] = "batches" /\ HasAll(n, proposal[q])

MakeBlock(n) ==
    \E q \in outcome :
        /\ HasBatches(n, q)
        /\ block' = [block EXCEPT ![n] =
                        {[named |-> proposal[q], empty |-> proposal[q] \ content[n]]}]
        /\ pc' = [pc EXCEPT ![n] = "done"]
        /\ UNCHANGED <<flag, content, proposal, outcome>>

\* The driver closes the round, for the next one or for a later one it jumps to:
\* what the node had still to send is dropped.  It looks for a safe priority to
\* jump to only now that Run has returned.
Close(n) ==
    /\ pc[n] = "done"
    /\ pc' = [pc EXCEPT ![n] = "closed"]
    /\ UNCHANGED <<flag, content, proposal, outcome, block>>
-----------------------------------------------------------------------------
Step(n) ==
    \/ \E p \in Node : Collect(n, p)
    \/ SlowStore(n)
    \/ StartAgreement(n)
    \/ \E q \in Node : Outcome(n, q)
    \/ MakeBlock(n)
    \/ Close(n)

Next == \E n \in Node : Step(n)

Spec == Init /\ [][Next]_vars

Holders(p) == {n \in Node : p \in flag[n]}
Named == UNION {proposal[q] : q \in outcome}

\* A node that has dropped its messages is to the others as if it had crashed.
Present == {n \in Correct : pc[n] # "closed"}
Tolerable == Cardinality(Present) >= N - T

\* What CodedBroadcast promises, as long as no more have crashed than it
\* tolerates: while no round is over, a correct node is heard and a follower's
\* delivery is repeated by all; and a batch that was agreed on reaches all.
Promised(p) ==
    /\ Tolerable
    /\ \/ p \in Named
       \/ /\ \A n \in Node : ~ Over(n)
          /\ p \in Present \/ Holders(p) \ {p} # {}

\* Goroutines of correct nodes are scheduled, and the agreement comes to an end
\* once a proposal can be agreed on: the steps that will be taken, for each that
\* it can be.
GoesOn(n) ==
    \/ \E p \in Node : Promised(p) /\ Collects(n, p)
    \/ MidStep(n)
    \/ MayStart(n)
    \/ \E q \in Node : MayAgree(n, q)
    \/ \E q \in outcome : HasBatches(n, q)

\* There are finitely many steps to take, each of them once: fairness comes down
\* to taking all there are.
AtRest == \A n \in Correct : ~ GoesOn(n)
-----------------------------------------------------------------------------
TypeOK ==
    /\ flag \in [Node -> SUBSET Node]
    /\ content \in [Node -> SUBSET Node]
    /\ proposal \in [Node -> SUBSET Node]
    /\ pc \in [Node -> {"broadcasts", "agreement", "batches", "done", "closed"}]
    /\ outcome \in {{}} \union {{q} : q \in Node}
    /\ block \in [Node -> SUBSET [named : SUBSET Node, empty : SUBSET Node]]

\* Nodes make the same block of the round, and where the collector was not
\* caught between flag and content, with every payload.
BlocksAgree ==
    /\ \A m, n \in Node : \A b \in block[m], c \in block[n] : b.named = c.named
    /\ \A n \in Node \ Slow : \A b \in block[n] : b.empty = {}

\* A block names 2T + 1 batches, each of which 2T + 1 nodes have delivered: this
\* is what the coded broadcasts rely on when a node leaves the round.
BlockIsBacked ==
    \A n \in Node : \A b \in block[n] :
        /\ Cardinality(b.named) >= 2 * T + 1
        /\ \A p \in b.named : Cardinality(Holders(p)) >= 2 * T + 1

\* The agreement as this round sees it.
Valid == {q \in Node : Started(q) /\ Cardinality(Accept(q)) >= 2 * T + 1}
Given == [n \in Node |-> IF pc[n] \in {"batches", "done", "closed"} THEN outcome ELSE {}]
Agreement == INSTANCE ValidatedAgreement
    WITH joined <- {n \in Node : Started(n)}, valid <- Valid, outcome <- Given

\* What the driver makes use of.
Common == INSTANCE CommonBlock
    WITH delivered <- flag, block <- [n \in Node |-> {b.named : b \in block[n]}]

\* The round makes the blocks a common block may be: one for all, of batches that
\* the node has and a quorum has each.
Refinement == Common!Spec

\* Correct nodes do not come to rest waiting for the broadcasts of others, for
\* others to accept a proposal or for the batches agreed on: they have their
\* blocks by then, unless too many have dropped messages.
AllHaveBlocks == \A n \in Correct : block[n] # {}
RoundEnds == AtRest => AllHaveBlocks \/ ~ Tolerable

\* "Wait for jump signal or consensus ends": one or the other comes to every
\* correct node.
EndsOrJumps == AtRest => AllHaveBlocks
=============================================================================
