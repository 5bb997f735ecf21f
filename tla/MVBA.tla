-------------------------------- MODULE MVBA --------------------------------
(***************************************************************************)
(* The multivalued agreement of one height (consensus/fin/MVBA/sfmvba.go).   *)
(* Every node broadcasts its proposal; after 2T + 1 confirmed broadcasts a   *)
(* node goes through rounds, in each of which a leader is drawn and a biased *)
(* binary agreement decides whether its proposal is the outcome.  A node     *)
(* that lacks the leader's proposal begins with FALSE and hands TRUE over    *)
(* later, should the proposal arrive.                                        *)
(*                                                                          *)
(* The broadcasts are those of FinishBroadcast and RBCFinish, one for each   *)
(* proposer; the agreements are those of BiasedAgreement, one for each       *)
(* round.  Faults are crashes.  A goroutine that hands a value to a waiting  *)
(* one, and the waiting one's next step, are one action.                     *)
(***************************************************************************)
EXTENDS Integers, FiniteSets

CONSTANTS
    Node,       \* the participants
    Proposer,   \* those whose proposals are broadcast
    Running,    \* those that take part
    Correct,    \* those that run for ever
    Settled,    \* proposers whose broadcast every running node has confirmed at
                \* the beginning
    Ahead,      \* nodes that have every broadcast's first output at the beginning
    Draw,       \* common_coin: the leader of each round
    MaxRound    \* bound: no node goes beyond this round

N == Cardinality(Node)
T == (N - 1) \div 3         \* faults
Round == 0 .. MaxRound

ASSUME NodeAssumption ==
    IsFiniteSet(Node) /\ Correct \subseteq Running /\ Running \subseteq Node
ASSUME ProposerAssumption == Proposer \subseteq Node /\ Settled \subseteq Proposer /\ Ahead \subseteq Node
ASSUME SettledAssumption == Settled # {} => Cardinality(Running) >= 2 * T + 1
ASSUME DrawAssumption == MaxRound \in Nat /\ Draw \in [Round -> Node]

VARIABLES
    \* The broadcasts, by proposer:
    delivered,  \* nodes whose broadcast has given output1 (and sent FINISH)
    \* The goroutines of Launch, by node:
    got1, got2, \* proposers whose output1, output2 the collector has taken
    taken,      \* tokens taken from rbcready, by leader
    fetching,   \* rounds whose second-input goroutine waits on rbcready
    pc,         \* Launch waits for "coinready", for the "agreement", for the
                \* "proposal" it decided on; or it is "done"
    round,      \* mvba.Roundba
    outcome,    \* {} or {the proposer whose proposal went to outputCH}
    \* The agreements, by round:
    input,      \* {} before the node starts, then {its input}
    second,     \* nodes that handed over the second input
    answers     \* what the agreement has answered

broadcasts == <<delivered, got1, got2>>
waiting == <<taken, fetching>>
place == <<pc, round, outcome>>
agreements == <<input, second, answers>>
vars == <<broadcasts, waiting, place, agreements>>

Init ==
    /\ delivered = [p \in Node |->
                        CASE p \in Settled -> Running \union Ahead
                          [] p \in Proposer \ Settled -> Ahead
                          [] OTHER -> {}]
    /\ got1 = [n \in Node |->
                    CASE n \in Ahead -> Proposer
                      [] n \in Running \ Ahead -> Settled
                      [] OTHER -> {}]
    /\ got2 = [n \in Node |-> IF n \in Running THEN Settled ELSE {}]
    /\ taken = [n \in Node |-> [p \in Node |-> 0]]
    /\ fetching = [n \in Node |-> {}]
    /\ pc = [n \in Node |-> "coinready"]
    /\ round = [n \in Node |-> 0]
    /\ outcome = [n \in Node |-> {}]
    /\ input = [r \in Round |-> [n \in Node |-> {}]]
    /\ second = [r \in Round |-> {}]
    /\ answers = [r \in Round |-> {}]
-----------------------------------------------------------------------------
\* Everything a node started stops when it closes MVBA_done.
Open(n) == n \in Running /\ pc[n] # "done"

\* mvba.rbcouts: the proposals a node holds.
Held(n) == got1[n] \union got2[n]

MayDeliver(n, p) == Open(n) /\ p \in Proposer /\ n \notin delivered[p]

\* The broadcast of p gives n its first output.  How far others must be is the
\* broadcast's own affair (RBCFinish).
Deliver(n, p) ==
    /\ MayDeliver(n, p)
    /\ delivered' = [delivered EXCEPT ![p] = @ \union {n}]
    /\ UNCHANGED <<got1, got2, waiting, place, agreements>>

HasDelivery(n, p) == Open(n) /\ n \in delivered[p] \ {m \in Node : p \in got1[m]}

\* The collector stores an output and puts two tokens on the proposer's rbcready.
CollectDelivery(n, p) ==
    /\ HasDelivery(n, p)
    /\ got1' = [got1 EXCEPT ![n] = @ \union {p}]
    /\ UNCHANGED <<delivered, got2, waiting, place, agreements>>

\* Mutant: one confirmation is as good as a quorum.
ConfirmQuorumOne(n, p) == 1

ConfirmQuorum(n, p) == IF n = p THEN 2 * T ELSE 2 * T + 1

HasConfirmation(n, p, from) ==
    /\ Open(n) /\ p \in Proposer \ got2[n]
    /\ Cardinality(delivered[p] \intersect from) >= ConfirmQuorum(n, p)

CollectConfirmation(n, p, from) ==
    /\ HasConfirmation(n, p, from)
    /\ got2' = [got2 EXCEPT ![n] = @ \union {p}]
    /\ UNCHANGED <<delivered, got1, waiting, place, agreements>>

\* Mutant: a token for Launch alone, none for the goroutine.
TokenForOne == 1

Count(S, p) == IF p \in S THEN 1 ELSE 0
TokensPut == 2
Tokens(n, p) == TokensPut * (Count(got1[n], p) + Count(got2[n], p)) - taken[n][p]

HasToken(n, p) == Tokens(n, p) > 0

Take(n, p) ==
    /\ HasToken(n, p)
    /\ taken' = [taken EXCEPT ![n][p] = @ + 1]
-----------------------------------------------------------------------------
(* The rounds.                                                               *)

Binary(r) == INSTANCE BiasedAgreement
    WITH input <- input[r], second <- second[r], outputs <- answers[r]

\* Mutant: mvba.Roundba stays where it is.
StartRoundZero(n, r) ==
    LET holds == Draw[r] \in Held(n) IN
    /\ input' = [input EXCEPT ![0][n] = {holds}]
    /\ fetching' = IF holds THEN fetching ELSE [fetching EXCEPT ![n] = @ \union {r}]

\* The body of the loop: draw a leader, start the agreement, and, without the
\* leader's proposal, a goroutine that waits for it.
StartRound(n, r) ==
    LET holds == Draw[r] \in Held(n) IN
    /\ input' = [input EXCEPT ![r][n] = {holds}]
    /\ fetching' = IF holds THEN fetching ELSE [fetching EXCEPT ![n] = @ \union {r}]

CoinQuorum == 2 * T + 1

IsCoinReady(n) ==
    /\ Open(n) /\ pc[n] = "coinready"
    /\ Cardinality(got2[n]) >= CoinQuorum

\* coinready: close closeval and begin with round 0.
FirstRound(n) ==
    /\ IsCoinReady(n)
    /\ pc' = [pc EXCEPT ![n] = "agreement"]
    /\ StartRound(n, 0)
    /\ UNCHANGED <<broadcasts, taken, round, outcome, second, answers>>

\* A goroutine of this round or of an earlier one that drew the same leader.
Fetch(n, r) ==
    /\ Open(n) /\ r \in fetching[n]
    /\ Take(n, Draw[r])
    /\ fetching' = [fetching EXCEPT ![n] = @ \ {r}]
    /\ second' = [second EXCEPT ![r] = @ \union {n}]
    /\ UNCHANGED <<broadcasts, place, input, answers>>

HasAnswer(n, v) ==
    /\ Open(n) /\ pc[n] = "agreement"
    /\ Binary(round[n])!MayOutput(v)

Answered(n, v) ==
    /\ HasAnswer(n, v)
    /\ answers' = [answers EXCEPT ![round[n]] = @ \union {v}]

AnsweredFalse(n) ==
    /\ Answered(n, FALSE)
    /\ round[n] < MaxRound
    /\ round' = [round EXCEPT ![n] = @ + 1]
    /\ StartRound(n, round[n] + 1)
    /\ UNCHANGED <<broadcasts, taken, pc, outcome, second>>

Finish(n) ==
    /\ pc' = [pc EXCEPT ![n] = "done"]
    /\ outcome' = [outcome EXCEPT ![n] = {Draw[round[n]]}]

\* Mutant: Launch gives out the proposal without looking for it.
MayReadTrueAlways(n) == TRUE

\* Launch reads `input', which the goroutine of this round sets to true some time
\* after it has handed over the second input.
MayReadTrue(n) == LET r == round[n] IN TRUE \in input[r][n] \/ n \in second[r]
MayReadFalse(n) == FALSE \in input[round[n]][n]

AnsweredTrueHolding(n) ==
    /\ Answered(n, TRUE)
    /\ MayReadTrue(n)
    /\ Finish(n)
    /\ UNCHANGED <<broadcasts, waiting, round, input, second>>

\* Mutant: a node without the proposal goes on to the next round.
AnsweredTrueSkips(n) ==
    /\ Answered(n, TRUE)
    /\ MayReadFalse(n)
    /\ round[n] < MaxRound
    /\ round' = [round EXCEPT ![n] = @ + 1]
    /\ StartRound(n, round[n] + 1)
    /\ UNCHANGED <<broadcasts, taken, pc, outcome, second>>

AnsweredTrueLacking(n) ==
    /\ Answered(n, TRUE)
    /\ MayReadFalse(n)
    /\ pc' = [pc EXCEPT ![n] = "proposal"]
    /\ UNCHANGED <<broadcasts, waiting, round, outcome, input, second>>

\* The wait for the proposal is a wait for a token.
AwaitProposal(n) ==
    /\ Open(n) /\ pc[n] = "proposal"
    /\ Take(n, Draw[round[n]])
    /\ Finish(n)
    /\ UNCHANGED <<broadcasts, fetching, round, agreements>>
-----------------------------------------------------------------------------
Step(n) ==
    \/ \E p \in Node : Deliver(n, p)
    \/ \E p \in Node : CollectDelivery(n, p)
    \/ \E p \in Node : CollectConfirmation(n, p, Node)
    \/ FirstRound(n)
    \/ \E r \in Round : Fetch(n, r)
    \/ AnsweredFalse(n)
    \/ AnsweredTrueHolding(n)
    \/ AnsweredTrueLacking(n)
    \/ AwaitProposal(n)

Next == \E n \in Node : Step(n)

Spec == Init /\ [][Next]_vars

\* What RBCFinish promises of a broadcast while no node has stopped: a delivery
\* by a follower or a confirmation is carried to everyone, and a correct
\* proposer is heard unless some node has closed closeval.
Promised(p) ==
    /\ \A n \in Node : pc[n] # "done"
    /\ \/ delivered[p] \ {p} # {}
       \/ \E n \in Node : p \in got2[n]
       \/ p \in Correct /\ \A n \in Node : pc[n] = "coinready"

\* Goroutines of correct nodes are scheduled, FINISH messages of correct nodes
\* arrive, and an agreement that may answer does so: the steps that will be taken,
\* for each that it can be.
GoesOn(n) ==
    \/ \E p \in Node : Promised(p) /\ MayDeliver(n, p)
    \/ \E p \in Node : HasDelivery(n, p) \/ HasConfirmation(n, p, Correct)
    \/ IsCoinReady(n)
    \/ Open(n) /\ \E r \in fetching[n] : HasToken(n, Draw[r])
    \/ HasAnswer(n, FALSE) /\ round[n] < MaxRound
    \/ HasAnswer(n, TRUE) /\ (MayReadTrue(n) \/ MayReadFalse(n))
    \/ Open(n) /\ pc[n] = "proposal" /\ HasToken(n, Draw[round[n]])

\* There are finitely many steps to take, each of them once: fairness comes down
\* to taking all there are.
AtRest == \A n \in Correct : ~ GoesOn(n)
-----------------------------------------------------------------------------
TypeOK ==
    /\ delivered \in [Node -> SUBSET Node]
    /\ got1 \in [Node -> SUBSET Node]
    /\ got2 \in [Node -> SUBSET Node]
    /\ taken \in [Node -> [Node -> 0 .. 4]]
    /\ fetching \in [Node -> SUBSET Round]
    /\ pc \in [Node -> {"coinready", "agreement", "proposal", "done"}]
    /\ round \in [Node -> Round]
    /\ outcome \in [Node -> SUBSET Node]
    /\ input \in [Round -> [Node -> {{}, {FALSE}, {TRUE}}]]
    /\ second \in [Round -> SUBSET Node]
    /\ answers \in [Round -> SUBSET BOOLEAN]

\* All outcomes are the proposal of one leader, reached in one round; no node
\* goes past that round.
Agreement ==
    \A m, n \in Node :
        outcome[m] # {} => /\ outcome[n] \subseteq outcome[m]
                           /\ round[n] <= round[m]

\* The node has the proposal it gives out (rbcouts[coin-1] is not nil), though
\* what it waited for was a token and the variable it looked at is written by
\* another goroutine.
OutcomeIsHeld == \A n \in Node : outcome[n] \subseteq Held(n)

\* An outcome is the proposal of a broadcast that a follower has delivered, so
\* that all the others will get it: the leader's own early delivery never
\* settles an agreement.
Carried(p) == delivered[p] \ {p} # {}
OutcomeIsCarried == T >= 1 => \A n \in Node : \A p \in outcome[n] : Carried(p)

\* What the round above makes use of: a proposal counts as valid when a follower
\* has delivered it, for then 2T + 1 nodes have validated it (FinishBroadcast).
Validated == INSTANCE ValidatedAgreement
    WITH joined <- Running \union Proposer, valid <- {p \in Node : Carried(p)}

\* MVBA gives the outcomes a validated agreement may give: one for all, of a valid
\* proposal, to nodes that have none.
Refinement == Validated!Spec

\* Once a node begins with the rounds, and has turned proposals away, there are
\* 2T + 1 proposals everyone will get: a draw of one of them ends the rounds.
EnoughCarried ==
    T >= 1 /\ (\E n \in Node : pc[n] # "coinready")
        => Cardinality({p \in Node : Carried(p)}) >= 2 * T + 1

\* Correct nodes do not come to rest without an outcome, unless the rounds may
\* outlast the bound.
OutlastsBound == Binary(MaxRound)!MayOutput(FALSE)
SomeOutcome == AtRest => OutlastsBound \/ \E n \in Node : outcome[n] # {}

\* There is one way to do so: the leader drawn is the only one that has its
\* proposal, on one ready too few.
LoneLeader ==
    \E n \in Correct :
        pc[n] = "agreement" /\ delivered[Draw[round[n]]] = {Draw[round[n]]}
OutcomeOrLoneLeader == SomeOutcome \/ LoneLeader

\* "Waite for rbc done": no correct node waits for a proposal it has.
WaitEnds ==
    AtRest => \A n \in Correct : pc[n] = "proposal" => Draw[round[n]] \notin Held(n)
=============================================================================
