------------------------------ MODULE MVBAProof ------------------------------
(***************************************************************************)
(* Proofs about MVBA, for any number of nodes and rounds, any draw of        *)
(* leaders and any state the broadcasts are in at the beginning.            *)
(***************************************************************************)
EXTENDS MVBA, FiniteSetTheorems, TLAPS

\* The numbers of nodes and of faults, and the first round.
LEMMA Sizes == N \in Nat /\ T \in Int /\ 0 \in Round
<1>1. N \in Nat
  BY NodeAssumption, FS_CardinalityType DEF N
<1> QED
  BY <1>1, DrawAssumption DEF T, Round

\* Sets of nodes are finite, and their cardinality is monotone.
LEMMA NodeSets ==
    ASSUME NEW S, S \subseteq Node, NEW R, R \subseteq S
    PROVE  /\ IsFiniteSet(S) /\ Cardinality(S) \in Nat
           /\ Cardinality(R) \in Nat /\ Cardinality(R) <= Cardinality(S)
<1>1. IsFiniteSet(S)
  BY NodeAssumption, FS_Subset
<1> QED
  BY <1>1, FS_Subset, FS_CardinalityType

\* Of two nodes one is not the proposer.
LEMMA TwoNodes ==
    ASSUME NEW S, S \subseteq Node, NEW p \in Node, Cardinality(S) >= 2
    PROVE  S \ {p} # {}
<1> SUFFICES ASSUME S \subseteq {p} PROVE FALSE
  OBVIOUS
<1>1. {p} \subseteq Node /\ Cardinality({p}) = 1
  BY FS_Singleton
<1> QED
  BY <1>1, NodeSets
-----------------------------------------------------------------------------
\* Taking a token keeps the count of tokens between 0 and 4.
LEMMA TakeType ==
    ASSUME TypeOK, NEW n \in Node, NEW p \in Node, Take(n, p)
    PROVE  taken' \in [Node -> [Node -> 0 .. 4]]
<1>1. taken[n] \in [Node -> 0 .. 4] /\ taken[n][p] \in 0 .. 4
  BY DEF TypeOK
<1>2. Count(got1[n], p) \in 0 .. 1 /\ Count(got2[n], p) \in 0 .. 1
  BY DEF Count
<1>3. taken[n][p] + 1 \in 0 .. 4
  BY <1>1, <1>2 DEF Take, HasToken, Tokens, TokensPut
<1>4. [taken[n] EXCEPT ![p] = @ + 1] \in [Node -> 0 .. 4]
  BY <1>1, <1>3
<1>5. taken' = [taken EXCEPT ![n] = [taken[n] EXCEPT ![p] = @ + 1]]
  BY DEF Take, TypeOK
<1> QED
  BY <1>4, <1>5 DEF TypeOK

\* Whoever can take a token of a proposer holds its proposal.
LEMMA TokenMeansHeld ==
    ASSUME TypeOK, NEW n \in Node, NEW p \in Node, Take(n, p)
    PROVE  p \in Held(n)
<1>1. taken[n][p] \in 0 .. 4
  BY DEF TypeOK
<1> QED
  BY <1>1 DEF Take, HasToken, Tokens, TokensPut, Count, Held

\* Starting a round keeps the types of the inputs and of the goroutines.
LEMMA StartRoundType ==
    ASSUME TypeOK, NEW n \in Node, NEW r \in Round, StartRound(n, r)
    PROVE  /\ input' \in [Round -> [Node -> {{}, {FALSE}, {TRUE}}]]
           /\ fetching' \in [Node -> SUBSET Round]
<1> DEFINE h == Draw[r] \in Held(n)
<1>1. {h} \in {{}, {FALSE}, {TRUE}}
  <2>1. h = TRUE \/ h = FALSE
    BY DEF h
  <2> HIDE DEF h
  <2> QED
    BY <2>1
<1>2. input[r] \in [Node -> {{}, {FALSE}, {TRUE}}]
  BY DEF TypeOK
<1>3. [input[r] EXCEPT ![n] = {h}] \in [Node -> {{}, {FALSE}, {TRUE}}]
  BY <1>1, <1>2
<1>4. input' = [input EXCEPT ![r] = [input[r] EXCEPT ![n] = {h}]]
  BY DEF StartRound, TypeOK, h
<1>5. input' \in [Round -> [Node -> {{}, {FALSE}, {TRUE}}]]
  BY <1>3, <1>4 DEF TypeOK
<1>6. fetching' = fetching \/ fetching' = [fetching EXCEPT ![n] = @ \union {r}]
  BY DEF StartRound
<1>7. fetching' \in [Node -> SUBSET Round]
  BY <1>6 DEF TypeOK
<1> QED
  BY <1>5, <1>7

\* New_mvba and the start of Launch type the variables.
LEMMA InitType == Init => TypeOK
<1> SUFFICES ASSUME Init PROVE TypeOK
  OBVIOUS
<1> USE NodeAssumption, ProposerAssumption
<1>1. delivered \in [Node -> SUBSET Node]
  BY DEF Init
<1>2. got1 \in [Node -> SUBSET Node] /\ got2 \in [Node -> SUBSET Node]
  BY DEF Init
<1>3. taken \in [Node -> [Node -> 0 .. 4]]
  BY DEF Init
<1>4. input \in [Round -> [Node -> {{}, {FALSE}, {TRUE}}]]
  BY DEF Init
<1> QED
  BY <1>1, <1>2, <1>3, <1>4, Sizes DEF Init, TypeOK

\* Every step keeps the types.
LEMMA StepType == TypeOK /\ [Next]_vars => TypeOK'
<1> SUFFICES ASSUME TypeOK, [Next]_vars PROVE TypeOK'
  OBVIOUS
<1>1. CASE UNCHANGED vars
  BY <1>1 DEF TypeOK, vars, broadcasts, waiting, place, agreements
<1>2. ASSUME NEW n \in Node, Step(n) PROVE TypeOK'
  <2> USE DEF TypeOK, broadcasts, waiting, place, agreements
  <2>0. \A r \in Round : Draw[r] \in Node
    BY DrawAssumption
  <2>1. ASSUME NEW p \in Node, Deliver(n, p) PROVE TypeOK'
    BY <2>1 DEF Deliver
  <2>2. ASSUME NEW p \in Node, CollectDelivery(n, p) PROVE TypeOK'
    BY <2>2 DEF CollectDelivery
  <2>3. ASSUME NEW p \in Node, CollectConfirmation(n, p, Node) PROVE TypeOK'
    BY <2>3 DEF CollectConfirmation
  <2>4. CASE FirstRound(n)
    <3>1. StartRound(n, 0)
      BY <2>4 DEF FirstRound
    <3>2. /\ input' \in [Round -> [Node -> {{}, {FALSE}, {TRUE}}]]
          /\ fetching' \in [Node -> SUBSET Round]
      BY <3>1, StartRoundType, Sizes
    <3> QED
      BY <2>4, <3>2 DEF FirstRound
  <2>5. ASSUME NEW r \in Round, Fetch(n, r) PROVE TypeOK'
    <3>1. taken' \in [Node -> [Node -> 0 .. 4]]
      BY <2>5, <2>0, TakeType DEF Fetch
    <3> QED
      BY <2>5, <3>1 DEF Fetch
  <2>6. CASE AnsweredFalse(n)
    <3>1. round[n] + 1 \in Round /\ round[n] \in Round
      BY <2>6, DrawAssumption DEF AnsweredFalse, Round
    <3>2. StartRound(n, round[n] + 1)
      BY <2>6 DEF AnsweredFalse
    <3>3. /\ input' \in [Round -> [Node -> {{}, {FALSE}, {TRUE}}]]
          /\ fetching' \in [Node -> SUBSET Round]
      BY <3>1, <3>2, StartRoundType
    <3> QED
      BY <2>6, <3>1, <3>3 DEF AnsweredFalse, Answered
  <2>7. CASE AnsweredTrueHolding(n)
    <3>1. round[n] \in Round /\ Draw[round[n]] \in Node
      BY <2>0
    <3> QED
      BY <2>7, <3>1 DEF AnsweredTrueHolding, Answered, Finish
  <2>8. CASE AnsweredTrueLacking(n)
    BY <2>8 DEF AnsweredTrueLacking, Answered
  <2>9. CASE AwaitProposal(n)
    <3>1. round[n] \in Round /\ Draw[round[n]] \in Node
      BY <2>0
    <3>2. taken' \in [Node -> [Node -> 0 .. 4]]
      BY <2>9, <3>1, TakeType DEF AwaitProposal
    <3> QED
      BY <2>9, <3>1, <3>2, ZenonT(60) DEF AwaitProposal, Finish
  <2> QED
    BY <1>2, <2>1, <2>2, <2>3, <2>4, <2>5, <2>6, <2>7, <2>8, <2>9 DEF Step
<1> QED
  BY <1>1, <1>2 DEF Next

\* Every state of Launch, its goroutines, its broadcasts and its agreements has
\* its type.
THEOREM TypeCorrect == Spec => []TypeOK
<1> QED
  BY InitType, StepType, PTL DEF Spec
-----------------------------------------------------------------------------
(* Agreement.  An agreement has one answer; a node past a round has had FALSE *)
(* from it, and a node that has decided had TRUE from the round it is in.    *)

RoundInv ==
    /\ \A r \in Round : answers[r] # BOOLEAN
    /\ \A n \in Node, r \in Round : r < round[n] => FALSE \in answers[r]
    /\ \A n \in Node : pc[n] \in {"proposal", "done"} => TRUE \in answers[round[n]]
    /\ \A n \in Node : outcome[n] # {} => pc[n] = "done" /\ outcome[n] = {Draw[round[n]]}

\* At the beginning nothing is answered and every node is in round 0.
LEMMA RoundInit == Init => RoundInv
<1> SUFFICES ASSUME Init PROVE RoundInv
  OBVIOUS
<1>1. \A r \in Round : answers[r] = {} /\ {} # BOOLEAN
  BY DEF Init
<1>2. \A n \in Node : /\ round[n] = 0 /\ outcome[n] = {}
                      /\ pc[n] \notin {"proposal", "done"}
  BY DEF Init
<1>3. \A r \in Round : ~ (r < 0)
  BY DrawAssumption DEF Round
<1> QED
  BY <1>1, <1>2, <1>3 DEF RoundInv

\* An answer does not contradict the answers given before.
LEMMA AnswerOnce ==
    ASSUME TypeOK, RoundInv, NEW n \in Node, NEW v \in BOOLEAN, Answered(n, v)
    PROVE  /\ \A r \in Round : answers'[r] # BOOLEAN
           /\ \A r \in Round : answers[r] \subseteq answers'[r]
           /\ v \in answers'[round[n]]
<1> DEFINE r0 == round[n]
<1>1. r0 \in Round
  BY DEF TypeOK
<1>2. answers[r0] \subseteq {v}
  BY DEF Answered, HasAnswer, Binary!MayOutput
<1>3. answers' = [answers EXCEPT ![r0] = @ \union {v}]
  BY DEF Answered
<1>4. answers'[r0] = {v} /\ {v} # BOOLEAN
  BY <1>1, <1>2, <1>3 DEF TypeOK
<1> QED
  BY <1>1, <1>3, <1>4 DEF TypeOK, RoundInv

\* Every step keeps the invariant of the rounds.
LEMMA RoundStep == TypeOK /\ RoundInv /\ [Next]_vars => RoundInv'
<1> SUFFICES ASSUME TypeOK, RoundInv, [Next]_vars PROVE RoundInv'
  OBVIOUS
<1> USE DEF broadcasts, waiting, place, agreements
<1>0. \A n \in Node : round[n] \in Round
  BY DEF TypeOK
<1>1. CASE UNCHANGED vars
  BY <1>1 DEF RoundInv, vars
<1>2. ASSUME NEW n \in Node, Step(n) PROVE RoundInv'
  <2>1. CASE UNCHANGED <<answers, round, pc, outcome>>
    BY <2>1 DEF RoundInv
  <2>2. CASE FirstRound(n)
    BY <2>2 DEF FirstRound, IsCoinReady, RoundInv, TypeOK
  <2>3. CASE AnsweredFalse(n)
    <3>1. /\ \A r \in Round : answers'[r] # BOOLEAN
          /\ \A r \in Round : answers[r] \subseteq answers'[r]
          /\ FALSE \in answers'[round[n]]
      BY <2>3, AnswerOnce DEF AnsweredFalse
    <3>2. /\ round' = [round EXCEPT ![n] = @ + 1]
          /\ UNCHANGED <<pc, outcome>> /\ pc[n] = "agreement"
      BY <2>3 DEF AnsweredFalse, Answered, HasAnswer
    <3>3. \A m \in Node, r \in Round : r < round'[m] => r < round[m] \/ (m = n /\ r = round[n])
      BY <3>2, <1>0, DrawAssumption DEF TypeOK, Round
    <3>4. \A m \in Node, r \in Round : r < round'[m] => FALSE \in answers'[r]
      BY <3>1, <3>3 DEF RoundInv
    <3>5. \A m \in Node : m # n => round'[m] = round[m]
      BY <3>2 DEF TypeOK
    <3>6. \A m \in Node : pc'[m] \in {"proposal", "done"} => TRUE \in answers'[round'[m]]
      BY <3>1, <3>2, <3>5, <1>0 DEF RoundInv
    <3>7. \A m \in Node : outcome'[m] # {} => pc'[m] = "done" /\ outcome'[m] = {Draw[round'[m]]}
      BY <3>2, <3>5 DEF RoundInv
    <3> QED
      BY <3>1, <3>4, <3>6, <3>7 DEF RoundInv
  <2>4. CASE AnsweredTrueHolding(n) \/ AnsweredTrueLacking(n)
    <3>1. /\ \A r \in Round : answers'[r] # BOOLEAN
          /\ \A r \in Round : answers[r] \subseteq answers'[r]
          /\ TRUE \in answers'[round[n]]
      BY <2>4, AnswerOnce DEF AnsweredTrueHolding, AnsweredTrueLacking
    <3>2. /\ round' = round
          /\ \A m \in Node \ {n} : pc'[m] = pc[m] /\ outcome'[m] = outcome[m]
          /\ \/ pc'[n] = "done" /\ outcome'[n] = {Draw[round[n]]}
             \/ pc'[n] = "proposal" /\ outcome'[n] = outcome[n] /\ pc[n] = "agreement"
      BY <2>4 DEF AnsweredTrueHolding, AnsweredTrueLacking, Answered, HasAnswer, Finish, TypeOK
    <3> QED
      BY <3>1, <3>2, <1>0 DEF RoundInv
  <2>5. CASE AwaitProposal(n)
    BY <2>5 DEF AwaitProposal, Finish, RoundInv, TypeOK
  <2> QED
    BY <1>2, <2>1, <2>2, <2>3, <2>4, <2>5
    DEF Step, Deliver, CollectDelivery, CollectConfirmation, Fetch
<1> QED
  BY <1>1, <1>2 DEF Next

\* Two outcomes come from one round, and no node is beyond it.
LEMMA RoundAgreement == TypeOK /\ RoundInv => Agreement
<1> SUFFICES ASSUME TypeOK, RoundInv, NEW m \in Node, NEW n \in Node, outcome[m] # {}
             PROVE  outcome[n] \subseteq outcome[m] /\ round[n] <= round[m]
  BY DEF Agreement
<1>1. \A i \in Node : round[i] \in Round /\ round[i] \in Int
  BY DrawAssumption DEF TypeOK, Round
<1>2. \A i, j \in Node : outcome[i] # {} => round[j] <= round[i]
  <2> SUFFICES ASSUME NEW i \in Node, NEW j \in Node, outcome[i] # {}, round[i] < round[j]
               PROVE  FALSE
    BY <1>1
  <2>1. TRUE \in answers[round[i]] /\ FALSE \in answers[round[i]]
    BY <1>1 DEF RoundInv
  <2>2. answers[round[i]] \in SUBSET BOOLEAN
    BY <1>1 DEF TypeOK
  <2>3. answers[round[i]] = BOOLEAN
    BY <2>1, <2>2
  <2> QED
    BY <2>3, <1>1 DEF RoundInv
<1>3. CASE outcome[n] = {}
  BY <1>2, <1>3
<1>4. CASE outcome[n] # {}
  <2>1. round[n] = round[m]
    BY <1>1, <1>2, <1>4
  <2> QED
    BY <2>1, <1>2, <1>4 DEF RoundInv
<1> QED
  BY <1>3, <1>4

\* All nodes that give out a proposal give out the same one, in the same round,
\* and nobody goes on past that round.
THEOREM OutcomesAgree == Spec => []Agreement
<1>1. TypeOK /\ RoundInv /\ [Next]_vars => TypeOK' /\ RoundInv'
  BY StepType, RoundStep
<1> QED
  BY <1>1, InitType, RoundInit, RoundAgreement, PTL DEF Spec
-----------------------------------------------------------------------------
(* What stands behind an outcome.  TRUE is handed to an agreement only by a    *)
(* node that holds the leader's proposal; a proposal is held because the      *)
(* broadcast delivered it here or at 2T nodes; hence T + 1 nodes that hold it, *)
(* two or more, have a follower's delivery among them or behind them.        *)

HeldInv ==
    /\ \A r \in Round, n \in Node :
        TRUE \in input[r][n] \/ n \in second[r] => Draw[r] \in Held(n)
    /\ \A n \in Node : outcome[n] \subseteq Held(n)

\* At the beginning nothing is handed to an agreement.
LEMMA HeldInit == Init => HeldInv
  BY DEF Init, HeldInv

\* Proposals are never given up again.
LEMMA HeldGrows ==
    TypeOK /\ [Next]_vars =>
        \A n \in Node : /\ Held(n) \subseteq Held(n)'
                       /\ got2[n] \subseteq got2'[n]
                       /\ \A p \in Node : delivered[p] \subseteq delivered'[p]
<1> USE DEF broadcasts, waiting, place, agreements, Held, TypeOK
<1> SUFFICES ASSUME TypeOK, [Next]_vars
             PROVE  /\ \A n \in Node : /\ got1[n] \subseteq got1'[n]
                                       /\ got2[n] \subseteq got2'[n]
                    /\ \A p \in Node : delivered[p] \subseteq delivered'[p]
  OBVIOUS
<1>1. CASE UNCHANGED broadcasts
  BY <1>1
<1>2. ASSUME NEW n \in Node, NEW p \in Node,
             Deliver(n, p) \/ CollectDelivery(n, p) \/ CollectConfirmation(n, p, Node)
      PROVE  /\ \A m \in Node : got1[m] \subseteq got1'[m] /\ got2[m] \subseteq got2'[m]
             /\ \A q \in Node : delivered[q] \subseteq delivered'[q]
  <2>1. CASE Deliver(n, p)
    BY <2>1 DEF Deliver
  <2>2. CASE CollectDelivery(n, p)
    BY <2>2 DEF CollectDelivery
  <2>3. CASE CollectConfirmation(n, p, Node)
    BY <2>3 DEF CollectConfirmation
  <2> QED
    BY <1>2, <2>1, <2>2, <2>3
<1> QED
  BY <1>1, <1>2
  DEF Next, Step, FirstRound, Fetch, AnsweredFalse, AnsweredTrueHolding,
      AnsweredTrueLacking, AwaitProposal, vars

\* StartRound begins with TRUE only if the node holds the leader's proposal.
LEMMA StartRoundHeld ==
    ASSUME TypeOK, HeldInv, NEW n \in Node, NEW r \in Round, StartRound(n, r)
    PROVE  \A q \in Round, m \in Node : TRUE \in input'[q][m] => Draw[q] \in Held(m)
<1> SUFFICES ASSUME NEW q \in Round, NEW m \in Node, TRUE \in input'[q][m]
             PROVE  Draw[q] \in Held(m)
  OBVIOUS
<1>1. CASE q = r /\ m = n
  <2>1. input'[r][n] = {Draw[r] \in Held(n)}
    BY DEF StartRound, TypeOK
  <2> QED
    BY <1>1, <2>1
<1>2. CASE ~ (q = r /\ m = n)
  <2>1. input'[q][m] = input[q][m]
    BY <1>2 DEF StartRound, TypeOK
  <2> QED
    BY <2>1 DEF HeldInv
<1> QED
  BY <1>1, <1>2

\* Every step keeps it.
LEMMA HeldStep == TypeOK /\ RoundInv /\ HeldInv /\ [Next]_vars => HeldInv'
<1> SUFFICES ASSUME TypeOK, RoundInv, HeldInv, [Next]_vars PROVE HeldInv'
  OBVIOUS
<1> USE DEF broadcasts, waiting, place, agreements
<1>0. /\ \A n \in Node : Held(n) \subseteq Held(n)'
      /\ \A r \in Round : Draw[r] \in Node
      /\ \A n \in Node : round[n] \in Round
  BY HeldGrows, DrawAssumption DEF TypeOK
<1>1. CASE UNCHANGED <<input, second, outcome>>
  BY <1>0, <1>1 DEF HeldInv
<1>2. ASSUME NEW n \in Node, NEW r \in Round, StartRound(n, r), UNCHANGED <<second, outcome>>
      PROVE  HeldInv'
  <2>1. \A q \in Round, m \in Node : TRUE \in input'[q][m] => Draw[q] \in Held(m)
    BY <1>2, StartRoundHeld
  <2> QED
    BY <1>0, <1>2, <2>1 DEF HeldInv
<1>3. ASSUME NEW n \in Node, NEW r \in Round, Fetch(n, r) PROVE HeldInv'
  <2>1. Draw[r] \in Held(n)
    BY <1>3, <1>0, TokenMeansHeld DEF Fetch
  <2> QED
    BY <1>0, <1>3, <2>1 DEF Fetch, HeldInv, TypeOK
<1>4. ASSUME NEW n \in Node, Finish(n), UNCHANGED <<input, second>>, Draw[round[n]] \in Held(n)
      PROVE  HeldInv'
  BY <1>0, <1>4 DEF Finish, HeldInv, TypeOK
<1>5. ASSUME NEW n \in Node, AnsweredTrueHolding(n) PROVE HeldInv'
  <2>1. Draw[round[n]] \in Held(n)
    BY <1>0, <1>5 DEF AnsweredTrueHolding, MayReadTrue, HeldInv
  <2> QED
    BY <1>4, <1>5, <2>1 DEF AnsweredTrueHolding
<1>6. ASSUME NEW n \in Node, AwaitProposal(n) PROVE HeldInv'
  <2>1. Draw[round[n]] \in Held(n)
    BY <1>0, <1>6, TokenMeansHeld DEF AwaitProposal
  <2> QED
    BY <1>4, <1>6, <2>1 DEF AwaitProposal
<1>7. ASSUME NEW n \in Node, FirstRound(n) \/ AnsweredFalse(n) PROVE HeldInv'
  <2>1. CASE FirstRound(n)
    BY <1>2, <2>1, Sizes DEF FirstRound
  <2>2. CASE AnsweredFalse(n)
    <3>1. round[n] + 1 \in Round
      BY <1>0, <2>2, DrawAssumption DEF AnsweredFalse, Round
    <3> QED
      BY <1>2, <2>2, <3>1 DEF AnsweredFalse
  <2> QED
    BY <1>7, <2>1, <2>2
<1> QED
  BY <1>1, <1>3, <1>5, <1>6, <1>7
  DEF Next, Step, Deliver, CollectDelivery, CollectConfirmation, AnsweredTrueLacking, vars

\* A node gives out only a proposal it holds, whatever it read of the variable its
\* goroutine writes.
THEOREM OutcomesHeld == Spec => []OutcomeIsHeld
<1>1. Init => TypeOK /\ RoundInv /\ HeldInv
  BY InitType, RoundInit, HeldInit
<1>2. TypeOK /\ RoundInv /\ HeldInv /\ [Next]_vars => TypeOK' /\ RoundInv' /\ HeldInv'
  BY StepType, RoundStep, HeldStep
<1>3. HeldInv => OutcomeIsHeld
  BY DEF HeldInv, OutcomeIsHeld
<1> QED
  BY <1>1, <1>2, <1>3, PTL DEF Spec
-----------------------------------------------------------------------------
(* A proposal settled on is carried.                                         *)

\* A first output is a delivery, a second one has 2T deliveries behind it and
\* 2T + 1 of those the rounds; TRUE is the answer only about a carried proposal.
CarryInv ==
    /\ \A n \in Node, p \in Node : p \in got1[n] => n \in delivered[p]
    /\ \A n \in Node, p \in Node : p \in got2[n] => Cardinality(delivered[p]) >= 2 * T
    /\ \A n \in Node : pc[n] # "coinready" => Cardinality(got2[n]) >= 2 * T + 1
    /\ T >= 1 => \A r \in Round : TRUE \in answers[r] => Carried(Draw[r])

\* At the beginning only settled broadcasts are confirmed, and those by a quorum.
LEMMA CarryInit == Init => CarryInv
<1> SUFFICES ASSUME Init PROVE CarryInv
  OBVIOUS
<1> USE NodeAssumption, ProposerAssumption
<1>1. ASSUME NEW n \in Node, NEW p \in Node, p \in got1[n]
      PROVE  n \in delivered[p]
  BY <1>1 DEF Init
<1>2. ASSUME NEW n \in Node, NEW p \in Node, p \in got2[n]
      PROVE  Cardinality(delivered[p]) >= 2 * T
  <2>1. p \in Settled
    BY <1>2 DEF Init
  <2>2. delivered[p] = Running \union Ahead
    BY <2>1 DEF Init
  <2>3. /\ Cardinality(Running) \in Nat /\ Cardinality(delivered[p]) \in Nat
        /\ Cardinality(Running) <= Cardinality(delivered[p])
    BY <2>2, NodeSets
  <2> QED
    BY <2>1, <2>3, SettledAssumption, Sizes
<1>3. \A n \in Node : pc[n] = "coinready"
  BY DEF Init
<1>4. \A r \in Round : TRUE \notin answers[r]
  BY DEF Init
<1> QED
  BY <1>1, <1>2, <1>3, <1>4 DEF CarryInv

\* A proposal that T + 1 nodes hold is carried: either each of them delivered it
\* itself, or one of them knows of 2T that did.
LEMMA HoldersCarry ==
    ASSUME TypeOK, CarryInv, T >= 1, NEW p \in Node, NEW S, S \subseteq Node,
           \A n \in S : p \in Held(n), Cardinality(S) >= T + 1
    PROVE  Carried(p)
<1>1. delivered[p] \subseteq Node
  BY DEF TypeOK
<1>2. CASE S \subseteq delivered[p]
  <2>1. /\ Cardinality(S) \in Nat /\ Cardinality(delivered[p]) \in Nat
        /\ Cardinality(S) <= Cardinality(delivered[p])
    BY <1>1, <1>2, NodeSets
  <2>2. Cardinality(delivered[p]) >= 2
    BY <2>1, Sizes
  <2> QED
    BY <1>1, <2>2, TwoNodes DEF Carried
<1>3. CASE ~ (S \subseteq delivered[p])
  <2>1. PICK n \in S : n \notin delivered[p]
    BY <1>3
  <2>2. p \in got2[n]
    BY <2>1 DEF CarryInv, Held
  <2>3. Cardinality(delivered[p]) \in Nat /\ Cardinality(delivered[p]) >= 2 * T
    BY <1>1, <2>2, NodeSets DEF CarryInv
  <2>4. Cardinality(delivered[p]) >= 2
    BY <2>3, Sizes
  <2> QED
    BY <1>1, <2>4, TwoNodes DEF Carried
<1> QED
  BY <1>2, <1>3

\* The agreement's module counts with an instance of Cardinality of its own.
LEMMA SameCardinality == \A r, S : Binary(r)!Cardinality(S) = Cardinality(S)
BY DEF Binary!Cardinality, Cardinality

\* An agreement answers TRUE only on a carried proposal.
LEMMA AnswerCarried ==
    ASSUME TypeOK, HeldInv, CarryInv, T >= 1, NEW n \in Node, Answered(n, TRUE)
    PROVE  Carried(Draw[round[n]])
<1> DEFINE r == round[n]
           S == {m \in Node : TRUE \in input[r][m]} \union second[r]
<1>1. r \in Round /\ Draw[r] \in Node
  BY DrawAssumption DEF TypeOK
<1>2. S \subseteq Node
  BY <1>1 DEF TypeOK
<1>3. Cardinality(S) >= T + 1
  <2>1. Binary(r)!T = T
    BY SameCardinality DEF Binary!T, Binary!N, T, N
  <2>2. Binary(r)!MayOutput(TRUE)
    BY DEF Answered, HasAnswer
  <2>3. Cardinality(Binary(r)!Started(TRUE) \union second[r]) >= T + 1
    BY <2>1, <2>2, SameCardinality DEF Binary!MayOutput
  <2> QED
    BY <2>3 DEF Binary!Started
<1>4. \A m \in S : Draw[r] \in Held(m)
  BY <1>1, <1>2 DEF HeldInv
<1> QED
  BY <1>1, <1>2, <1>3, <1>4, HoldersCarry

\* Every step keeps it.
LEMMA CarryStep == TypeOK /\ HeldInv /\ CarryInv /\ [Next]_vars => CarryInv'
<1> SUFFICES ASSUME TypeOK, HeldInv, CarryInv, [Next]_vars PROVE CarryInv'
  OBVIOUS
<1> USE DEF broadcasts, waiting, place, agreements
<1>0. /\ \A p \in Node : delivered[p] \subseteq delivered'[p] /\ delivered'[p] \subseteq Node
      /\ \A n \in Node : got2[n] \subseteq got2'[n] /\ got2'[n] \subseteq Node
  BY HeldGrows, StepType DEF TypeOK
<1>1. \A p \in Node : /\ Cardinality(delivered[p]) \in Nat /\ Cardinality(delivered'[p]) \in Nat
                      /\ Cardinality(delivered[p]) <= Cardinality(delivered'[p])
  BY <1>0, NodeSets
<1>2. \A n \in Node : /\ Cardinality(got2[n]) \in Nat /\ Cardinality(got2'[n]) \in Nat
                      /\ Cardinality(got2[n]) <= Cardinality(got2'[n])
  BY <1>0, NodeSets
<1>3. \A p \in Node : Carried(p) => Carried(p)'
  BY <1>0 DEF Carried
<1>4. ASSUME NEW n \in Node, NEW p \in Node, p \in got1'[n]
      PROVE  n \in delivered'[p]
  <2>1. CASE p \in got1[n]
    BY <1>0, <2>1 DEF CarryInv
  <2>2. CASE p \notin got1[n]
    <3>1. PICK m \in Node, q \in Node : CollectDelivery(m, q)
      BY <1>4, <2>2
      DEF Next, Step, Deliver, CollectConfirmation, FirstRound, Fetch, AnsweredFalse,
          AnsweredTrueHolding, AnsweredTrueLacking, AwaitProposal, vars
    <3>2. m = n /\ q = p
      BY <1>4, <2>2, <3>1 DEF CollectDelivery, TypeOK
    <3> QED
      BY <1>0, <3>1, <3>2 DEF CollectDelivery, HasDelivery
  <2> QED
    BY <2>1, <2>2
<1>5. ASSUME NEW n \in Node, NEW p \in Node, p \in got2'[n]
      PROVE  Cardinality(delivered'[p]) >= 2 * T
  <2>1. CASE p \in got2[n]
    BY <1>1, <2>1, Sizes DEF CarryInv
  <2>2. CASE p \notin got2[n]
    <3>1. PICK m \in Node, q \in Node : CollectConfirmation(m, q, Node)
      BY <1>5, <2>2
      DEF Next, Step, Deliver, CollectDelivery, FirstRound, Fetch, AnsweredFalse,
          AnsweredTrueHolding, AnsweredTrueLacking, AwaitProposal, vars
    <3>2. m = n /\ q = p
      BY <1>5, <2>2, <3>1 DEF CollectConfirmation, TypeOK
    <3>3. delivered[p] \intersect Node = delivered[p]
      BY DEF TypeOK
    <3>4. Cardinality(delivered[p]) >= ConfirmQuorum(n, p)
      BY <3>1, <3>2, <3>3 DEF CollectConfirmation, HasConfirmation
    <3>5. Cardinality(delivered[p]) >= 2 * T
      BY <1>1, <3>4, Sizes DEF ConfirmQuorum
    <3> QED
      BY <1>1, <3>5, Sizes
  <2> QED
    BY <2>1, <2>2
<1>6. ASSUME NEW n \in Node, pc'[n] # "coinready"
      PROVE  Cardinality(got2'[n]) >= 2 * T + 1
  <2>1. CASE pc[n] # "coinready"
    BY <1>2, <2>1, Sizes DEF CarryInv
  <2>2. CASE pc[n] = "coinready"
    <3>1. FirstRound(n)
      BY <1>6, <2>2, ZenonT(60)
      DEF Next, Step, Deliver, CollectDelivery, CollectConfirmation, FirstRound, Fetch,
          AnsweredFalse, AnsweredTrueHolding, AnsweredTrueLacking, AwaitProposal,
          Answered, HasAnswer, Finish, TypeOK, vars
    <3> QED
      BY <1>2, <3>1, Sizes DEF FirstRound, IsCoinReady, CoinQuorum
  <2> QED
    BY <2>1, <2>2
<1>7. ASSUME T >= 1, NEW r \in Round, TRUE \in answers'[r]
      PROVE  Carried(Draw[r])'
  <2>0. Draw[r] \in Node
    BY DrawAssumption
  <2>1. CASE TRUE \in answers[r]
    BY <1>3, <1>7, <2>0, <2>1 DEF CarryInv
  <2>2. CASE TRUE \notin answers[r]
    <3>1. PICK m \in Node : Answered(m, TRUE) \/ Answered(m, FALSE)
      BY <1>7, <2>2
      DEF Next, Step, Deliver, CollectDelivery, CollectConfirmation, FirstRound, Fetch,
          AnsweredFalse, AnsweredTrueHolding, AnsweredTrueLacking, AwaitProposal, vars
    <3>2. r = round[m] /\ Answered(m, TRUE)
      BY <1>7, <2>2, <3>1, ZenonT(60) DEF Answered, TypeOK
    <3>3. Carried(Draw[r])
      BY <1>7, <3>2, AnswerCarried
    <3> QED
      BY <1>3, <2>0, <3>3
  <2> QED
    BY <2>1, <2>2
<1> QED
  BY <1>4, <1>5, <1>6, <1>7 DEF CarryInv

\* The three invariants together.
LEMMA AllInvariant == Spec => [](TypeOK /\ RoundInv /\ HeldInv /\ CarryInv)
<1>1. Init => TypeOK /\ RoundInv /\ HeldInv /\ CarryInv
  BY InitType, RoundInit, HeldInit, CarryInit
<1>2. TypeOK /\ RoundInv /\ HeldInv /\ CarryInv /\ [Next]_vars
        => TypeOK' /\ RoundInv' /\ HeldInv' /\ CarryInv'
  BY StepType, RoundStep, HeldStep, CarryStep
<1> QED
  BY <1>1, <1>2, PTL DEF Spec

\* What a node gives out has been delivered by a follower of its broadcast, which
\* RBCFinish carries to every correct node that has not stopped.
THEOREM OutcomesCarried == Spec => []OutcomeIsCarried
<1>1. TypeOK /\ RoundInv /\ CarryInv => OutcomeIsCarried
  <2> SUFFICES ASSUME TypeOK, RoundInv, CarryInv, T >= 1,
                      NEW n \in Node, NEW p \in outcome[n]
               PROVE  Carried(p)
    BY DEF OutcomeIsCarried
  <2>1. round[n] \in Round /\ p = Draw[round[n]] /\ TRUE \in answers[round[n]]
    BY DEF RoundInv, TypeOK
  <2> QED
    BY <2>1 DEF CarryInv
<1> QED
  BY <1>1, AllInvariant, PTL

\* A node that has begun with the rounds leaves 2T + 1 proposals that everyone will
\* get, one of which ends the rounds when it is drawn.
THEOREM RoundsCanEnd == Spec => []EnoughCarried
<1>1. TypeOK /\ CarryInv => EnoughCarried
  <2> SUFFICES ASSUME TypeOK, CarryInv, T >= 1, NEW n \in Node, pc[n] # "coinready"
               PROVE  Cardinality({p \in Node : Carried(p)}) >= 2 * T + 1
    BY DEF EnoughCarried
  <2>1. \A p \in got2[n] : p \in Node /\ delivered[p] \subseteq Node
    BY DEF TypeOK
  <2>2. ASSUME NEW p \in got2[n] PROVE Carried(p)
    <3>1. Cardinality(delivered[p]) \in Nat /\ Cardinality(delivered[p]) >= 2 * T
      BY <2>1, NodeSets DEF CarryInv
    <3>2. Cardinality(delivered[p]) >= 2
      BY <3>1, Sizes
    <3> QED
      BY <2>1, <3>2, TwoNodes DEF Carried
  <2>3. got2[n] \subseteq {p \in Node : Carried(p)}
    BY <2>1, <2>2
  <2>4. /\ Cardinality(got2[n]) \in Nat
        /\ Cardinality({p \in Node : Carried(p)}) \in Nat
        /\ Cardinality(got2[n]) <= Cardinality({p \in Node : Carried(p)})
    BY <2>3, NodeSets
  <2> QED
    BY <2>4, Sizes DEF CarryInv
<1> QED
  BY <1>1, AllInvariant, PTL
-----------------------------------------------------------------------------
(* What the nodes come to rest with.  An answer has its grounds for good; a     *)
(* node that began a round with FALSE hands TRUE over or waits for a token;   *)
(* tokens are taken once for each round that drew the leader.                *)

Began(r, v) == {m \in Node : v \in input[r][m]}

Grounds(r, v) ==
    /\ Cardinality(Began(r, FALSE) \union Began(r, TRUE)) >= 2 * T + 1
    /\ IF v THEN Cardinality(Began(r, TRUE) \union second[r]) >= T + 1
            ELSE Cardinality(Began(r, FALSE)) >= 2 * T + 1

\* Every answer has its grounds.
GroundInv == \A r \in Round : \A v \in answers[r] : Grounds(r, v)

\* A broadcast is a proposer's.
SourceInv ==
    /\ \A n \in Node : got2[n] \subseteq Proposer
    /\ \A p \in Node : delivered[p] # {} => p \in Proposer

\* Rounds a node has begun and whose goroutine waits for no token of p.
Fetched(n, p) == {r \in Round : r <= round[n] /\ Draw[r] = p /\ r \notin fetching[n]}

Begun(n) ==
    /\ pc[n] = "coinready" =>
        round[n] = 0 /\ fetching[n] = {} /\ \A p \in Node : taken[n][p] = 0
    /\ \A r \in Round : input[r][n] # {} <=> pc[n] # "coinready" /\ r <= round[n]
    /\ \A r \in Round : FALSE \in input[r][n] => r \in fetching[n] \/ n \in second[r]
    /\ \A r \in fetching[n] : r <= round[n]
    /\ pc[n] = "done" => outcome[n] # {}
    /\ pc[n] # "done" => \A p \in Node : taken[n][p] <= Cardinality(Fetched(n, p))

BeginInv == \A n \in Node : Begun(n)

\* BiasedAgreement's condition for an answer, in the terms of this module.
LEMMA MayOutputIs ==
    ASSUME NEW r \in Round, NEW v \in BOOLEAN
    PROVE  Binary(r)!MayOutput(v) <=> answers[r] \subseteq {v} /\ Grounds(r, v)
<1>1. Binary(r)!T = T
  BY SameCardinality DEF Binary!T, Binary!N, T, N
<1>2. \A w : Binary(r)!Started(w) = Began(r, w)
  BY DEF Binary!Started, Began
<1> QED
  BY <1>1, <1>2, SameCardinality DEF Binary!MayOutput, Grounds

\* Sets of rounds are finite.
LEMMA RoundSets ==
    ASSUME NEW S, S \subseteq Round, NEW R, R \subseteq S
    PROVE  /\ IsFiniteSet(S) /\ IsFiniteSet(R) /\ Cardinality(S) \in Nat
           /\ Cardinality(R) \in Nat /\ Cardinality(R) <= Cardinality(S)
<1>1. IsFiniteSet(Round)
  BY DrawAssumption, FS_Interval DEF Round
<1>2. IsFiniteSet(S)
  BY <1>1, FS_Subset
<1> QED
  BY <1>2, FS_Subset, FS_CardinalityType

\* What StartRound gives the node that begins the round, and leaves the others.
Starts(n, r) ==
    /\ \E v \in BOOLEAN :
        /\ input'[r][n] = {v}
        /\ fetching'[n] = IF v THEN fetching[n] ELSE fetching[n] \union {r}
    /\ \A q \in Round, m \in Node : q # r \/ m # n => input'[q][m] = input[q][m]
    /\ \A m \in Node : m # n => fetching'[m] = fetching[m]

LEMMA StartRoundGives ==
    ASSUME TypeOK, NEW n \in Node, NEW r \in Round, StartRound(n, r)
    PROVE  Starts(n, r)
<1> DEFINE h == Draw[r] \in Held(n)
<1>1. h = TRUE \/ h = FALSE
  BY DEF h
<1>2. /\ input' = [input EXCEPT ![r] = [input[r] EXCEPT ![n] = {h}]]
      /\ fetching' = IF h THEN fetching ELSE [fetching EXCEPT ![n] = @ \union {r}]
  BY DEF StartRound, TypeOK, h
<1> HIDE DEF h
<1>3. input'[r][n] = {h} /\ fetching'[n] = IF h THEN fetching[n] ELSE fetching[n] \union {r}
  BY <1>1, <1>2 DEF TypeOK
<1>4. \A q \in Round, m \in Node : q # r \/ m # n => input'[q][m] = input[q][m]
  BY <1>2 DEF TypeOK
<1>5. \A m \in Node : m # n => fetching'[m] = fetching[m]
  BY <1>1, <1>2 DEF TypeOK
<1> QED
  BY <1>1, <1>3, <1>4, <1>5 DEF Starts

\* A step of one node leaves what the others are at.
LEMMA OthersStay ==
    ASSUME TypeOK, NEW n \in Node, Step(n), NEW m \in Node, m # n
    PROVE  /\ pc'[m] = pc[m] /\ round'[m] = round[m] /\ outcome'[m] = outcome[m]
           /\ fetching'[m] = fetching[m] /\ taken'[m] = taken[m]
           /\ \A r \in Round : /\ input'[r][m] = input[r][m]
                               /\ m \in second[r] => m \in second'[r]
<1> USE DEF broadcasts, waiting, place, agreements
<1>1. CASE UNCHANGED <<waiting, place, agreements>>
  BY <1>1
<1>2. CASE FirstRound(n)
  <2>1. StartRound(n, 0) /\ UNCHANGED <<taken, round, outcome, second>>
        /\ pc' = [pc EXCEPT ![n] = "agreement"]
    BY <1>2 DEF FirstRound
  <2>2. Starts(n, 0)
    BY <2>1, StartRoundGives, Sizes
  <2> QED
    BY <2>1, <2>2 DEF Starts, TypeOK
<1>3. CASE AnsweredFalse(n)
  <2>1. StartRound(n, round[n] + 1) /\ UNCHANGED <<taken, pc, outcome, second>>
        /\ round' = [round EXCEPT ![n] = @ + 1] /\ round[n] + 1 \in Round
    BY <1>3, DrawAssumption, SMTT(30) DEF AnsweredFalse, TypeOK, Round
  <2>2. Starts(n, round[n] + 1)
    BY <2>1, StartRoundGives
  <2> QED
    BY <2>1, <2>2 DEF Starts, TypeOK
<1>4. ASSUME NEW r \in Round, Fetch(n, r)
      PROVE  /\ UNCHANGED <<place, input>> /\ fetching'[m] = fetching[m] /\ taken'[m] = taken[m]
             /\ \A q \in Round : m \in second[q] => m \in second'[q]
  BY <1>4 DEF Fetch, Take, TypeOK
<1>5. CASE AnsweredTrueHolding(n) \/ AnsweredTrueLacking(n)
  BY <1>5 DEF AnsweredTrueHolding, AnsweredTrueLacking, Finish, TypeOK
<1>6. CASE AwaitProposal(n)
  BY <1>6 DEF AwaitProposal, Finish, Take, TypeOK
<1> QED
  BY <1>1, <1>2, <1>3, <1>4, <1>5, <1>6
  DEF Step, Deliver, CollectDelivery, CollectConfirmation

LEMMA BeginInit == Init => BeginInv /\ SourceInv /\ GroundInv
<1> SUFFICES ASSUME Init PROVE BeginInv /\ SourceInv /\ GroundInv
  OBVIOUS
<1>1. \A n \in Node :
        /\ pc[n] = "coinready" /\ round[n] = 0 /\ fetching[n] = {}
        /\ \A r \in Round : input[r][n] = {}
        /\ \A p \in Node : taken[n][p] = 0
  BY DEF Init
<1>2. \A n \in Node, p \in Node : Cardinality(Fetched(n, p)) \in Nat
  BY RoundSets DEF Fetched
<1>3. ASSUME NEW n \in Node PROVE Begun(n)
  <2>1. \A p \in Node : taken[n][p] <= Cardinality(Fetched(n, p))
    BY <1>1, <1>2
  <2> QED
    BY <1>1, <2>1 DEF Begun
<1>4. SourceInv
  BY ProposerAssumption DEF Init, SourceInv
<1>5. GroundInv
  BY DEF Init, GroundInv
<1> QED
  BY <1>3, <1>4, <1>5 DEF BeginInv

\* Beginning a round, the node's own part.
LEMMA StartRoundBegun ==
    ASSUME TypeOK, NEW n \in Node, Begun(n), NEW r \in Round, StartRound(n, r), UNCHANGED <<taken, second>>,
           pc'[n] = "agreement", round'[n] = r,
           pc[n] = "coinready" => r = 0, pc[n] # "coinready" => pc[n] # "done" /\ r = round[n] + 1
    PROVE  Begun(n)'
<1>1. PICK v \in BOOLEAN :
        /\ input'[r][n] = {v}
        /\ fetching'[n] = IF v THEN fetching[n] ELSE fetching[n] \union {r}
        /\ \A q \in Round : q # r => input'[q][n] = input[q][n]
  <2>1. Starts(n, r)
    BY StartRoundGives
  <2> QED
    BY <2>1 DEF Starts
<1>2. /\ Round \subseteq Int /\ round[n] \in Round /\ fetching[n] \subseteq Round
      /\ \A q \in Round : q <= r <=> q = r \/ (pc[n] # "coinready" /\ q <= round[n])
  BY DrawAssumption DEF TypeOK, Round
<1>3. \A q \in Round : input'[q][n] # {} <=> q <= r
  BY <1>1, <1>2 DEF Begun
<1>4. \A q \in Round : FALSE \in input'[q][n] => q \in fetching'[n] \/ n \in second'[q]
  BY <1>1 DEF Begun
<1>5. \A q \in fetching'[n] : q <= r
  BY <1>1, <1>2 DEF Begun
<1>6. ASSUME NEW p \in Node PROVE taken'[n][p] <= Cardinality(Fetched(n, p)')
  <2>1. taken[n][p] \in Int
    <3>1. taken[n] \in [Node -> 0 .. 4]
      BY DEF TypeOK
    <3> QED
      BY <3>1
  <2>2. CASE pc[n] = "coinready"
    <3>1. taken'[n][p] = 0
      BY <2>2 DEF Begun
    <3>2. Cardinality(Fetched(n, p)') \in Nat
      BY RoundSets DEF Fetched
    <3> QED
      BY <3>1, <3>2
  <2>3. CASE pc[n] # "coinready"
    <3>1. Fetched(n, p) \subseteq Fetched(n, p)'
      BY <1>1, <1>2, <2>3 DEF Fetched
    <3>2. /\ Cardinality(Fetched(n, p)) \in Nat /\ Cardinality(Fetched(n, p)') \in Nat
          /\ Cardinality(Fetched(n, p)) <= Cardinality(Fetched(n, p)')
      BY <3>1, RoundSets DEF Fetched
    <3> QED
      BY <2>1, <2>3, <3>2 DEF Begun
  <2> QED
    BY <2>2, <2>3
<1> QED
  BY <1>3, <1>4, <1>5, <1>6 DEF Begun

\* Taking a token for a round, the node's own part.
LEMMA FetchBegun ==
    ASSUME TypeOK, NEW n \in Node, Begun(n), NEW r \in Round, Fetch(n, r)
    PROVE  Begun(n)'
<1>1. /\ r \in fetching[n] /\ pc[n] # "done" /\ pc[n] # "coinready"
      /\ UNCHANGED <<pc, round, outcome, input>>
      /\ fetching'[n] = fetching[n] \ {r}
      /\ \A q \in Round : n \in second[q] \/ q = r => n \in second'[q]
  BY DEF Fetch, Open, Begun, place, TypeOK
<1>2. ASSUME NEW p \in Node PROVE taken'[n][p] <= Cardinality(Fetched(n, p)')
  <2>1. /\ taken'[n][p] = IF p = Draw[r] THEN taken[n][p] + 1 ELSE taken[n][p]
        /\ taken[n][p] \in Int /\ taken[n][p] <= Cardinality(Fetched(n, p))
    <3>1. taken[n] \in [Node -> 0 .. 4] /\ Draw[r] \in Node
      BY DrawAssumption DEF TypeOK
    <3>2. taken' = [taken EXCEPT ![n] = [taken[n] EXCEPT ![Draw[r]] = @ + 1]]
      BY DEF Fetch, Take, TypeOK
    <3>3. taken'[n] = [taken[n] EXCEPT ![Draw[r]] = @ + 1]
      BY <3>2 DEF TypeOK
    <3> QED
      BY <1>1, <3>1, <3>3 DEF Begun
  <2>2. /\ Cardinality(Fetched(n, p)) \in Nat /\ Cardinality(Fetched(n, p)') \in Nat
        /\ IsFiniteSet(Fetched(n, p))
    BY RoundSets DEF Fetched
  <2>3. CASE p # Draw[r]
    <3>1. Fetched(n, p)' = Fetched(n, p)
      BY <1>1, <2>3 DEF Fetched
    <3> QED
      BY <2>1, <2>3, <3>1
  <2>4. CASE p = Draw[r]
    <3>1. Fetched(n, p)' = Fetched(n, p) \union {r} /\ r \notin Fetched(n, p)
      BY <1>1, <2>4 DEF Fetched, Begun
    <3>2. Cardinality(Fetched(n, p)') = Cardinality(Fetched(n, p)) + 1
      BY <2>2, <3>1, FS_AddElement
    <3> QED
      BY <2>1, <2>2, <2>4, <3>2
  <2> QED
    BY <2>3, <2>4
<1> QED
  BY <1>1, <1>2 DEF Begun

\* Every step keeps what is said of the rounds begun.
LEMMA BeginStep == TypeOK /\ BeginInv /\ [Next]_vars => BeginInv'
<1> SUFFICES ASSUME TypeOK, BeginInv, [Next]_vars PROVE BeginInv'
  OBVIOUS
<1> USE DEF broadcasts, waiting, place, agreements
<1>1. ASSUME NEW n \in Node, UNCHANGED <<waiting, place, agreements>> PROVE Begun(n)'
  BY <1>1 DEF BeginInv, Begun, Fetched
<1>2. ASSUME NEW n \in Node, Step(n) PROVE Begun(n)'
  <2>0. Begun(n) /\ round[n] \in Round
    BY DEF BeginInv, TypeOK
  <2>1. CASE FirstRound(n)
    <3>1. /\ pc[n] = "coinready" /\ pc'[n] = "agreement" /\ round'[n] = 0
          /\ StartRound(n, 0) /\ UNCHANGED <<taken, second>>
      BY <2>0, <2>1 DEF FirstRound, IsCoinReady, Begun, TypeOK
    <3> QED
      BY <2>0, <3>1, StartRoundBegun, Sizes
  <2>2. CASE AnsweredFalse(n)
    <3>1. /\ pc[n] = "agreement" /\ pc'[n] = "agreement" /\ round'[n] = round[n] + 1
          /\ StartRound(n, round[n] + 1) /\ UNCHANGED <<taken, second>> /\ round[n] < MaxRound
      BY <2>2 DEF AnsweredFalse, Answered, HasAnswer, TypeOK
    <3>2. round[n] + 1 \in Round
      BY <2>0, <3>1, DrawAssumption DEF Round
    <3> QED
      BY <2>0, <3>1, <3>2, StartRoundBegun
  <2>3. ASSUME NEW r \in Round, Fetch(n, r) PROVE Begun(n)'
    BY <2>0, <2>3, FetchBegun
  <2>4. CASE AnsweredTrueLacking(n)
    <3>1. /\ pc[n] = "agreement" /\ pc'[n] = "proposal"
          /\ UNCHANGED <<waiting, round, outcome, input, second>>
      BY <2>4 DEF AnsweredTrueLacking, Answered, HasAnswer, TypeOK
    <3> QED
      BY <2>0, <3>1 DEF Begun, Fetched
  <2>5. CASE AnsweredTrueHolding(n) \/ AwaitProposal(n)
    <3>1. /\ pc[n] # "coinready" /\ pc'[n] = "done" /\ outcome'[n] # {}
          /\ UNCHANGED <<fetching, round, input, second>>
      <4>1. CASE AnsweredTrueHolding(n)
        BY <4>1 DEF AnsweredTrueHolding, Answered, HasAnswer, Finish, TypeOK
      <4>2. CASE AwaitProposal(n)
        BY <4>2 DEF AwaitProposal, Finish, TypeOK
      <4> QED
        BY <2>5, <4>1, <4>2
    <3> QED
      BY <2>0, <3>1 DEF Begun
  <2> QED
    BY <1>1, <1>2, <2>1, <2>2, <2>3, <2>4, <2>5
    DEF Step, Deliver, CollectDelivery, CollectConfirmation
<1>3. ASSUME NEW n \in Node, Step(n), NEW m \in Node, m # n PROVE Begun(m)'
  <2>1. Begun(m)
    BY DEF BeginInv
  <2>2. /\ pc'[m] = pc[m] /\ round'[m] = round[m] /\ outcome'[m] = outcome[m]
        /\ fetching'[m] = fetching[m] /\ taken'[m] = taken[m]
        /\ \A r \in Round : /\ input'[r][m] = input[r][m]
                            /\ m \in second[r] => m \in second'[r]
    BY <1>3, OthersStay
  <2>3. \A p \in Node : Fetched(m, p)' = Fetched(m, p)
    BY <2>2 DEF Fetched
  <2> QED
    BY <2>1, <2>2, <2>3 DEF Begun
<1>4. CASE UNCHANGED vars
  BY <1>1, <1>4 DEF vars, BeginInv
<1> QED
  BY <1>2, <1>3, <1>4 DEF Next, BeginInv

\* Inputs and second inputs are not taken back: grounds stay grounds.
LEMMA GroundsStay ==
    ASSUME TypeOK, BeginInv, [Next]_vars, NEW r \in Round, NEW v \in BOOLEAN, Grounds(r, v)
    PROVE  Grounds(r, v)'
<1> USE DEF broadcasts, waiting, place, agreements
<1>1. second[r] \subseteq second'[r]
  <2>1. ASSUME NEW n \in Node, NEW q \in Round, Fetch(n, q) PROVE second[r] \subseteq second'[r]
    BY <2>1 DEF Fetch, TypeOK
  <2>2. CASE UNCHANGED second
    BY <2>2
  <2> QED
    BY <2>1, <2>2
    DEF Next, Step, Deliver, CollectDelivery, CollectConfirmation, FirstRound, AnsweredFalse,
        AnsweredTrueHolding, AnsweredTrueLacking, AwaitProposal, vars
<1>2. ASSUME NEW m \in Node, input[r][m] # {} PROVE input'[r][m] = input[r][m]
  <2>1. /\ pc[m] # "coinready" /\ r <= round[m]
        /\ r \in Int /\ \A n \in Node : round[n] \in Int
    <3>1. Begun(m)
      BY DEF BeginInv
    <3> QED
      BY <1>2, <3>1, DrawAssumption DEF Begun, TypeOK, Round
  <2>2. CASE UNCHANGED input
    BY <2>2
  <2>3. ASSUME NEW n \in Node, FirstRound(n) PROVE input'[r][m] = input[r][m]
    <3>1. StartRound(n, 0) /\ n # m
      BY <2>1, <2>3 DEF FirstRound, IsCoinReady
    <3>2. Starts(n, 0)
      BY <3>1, StartRoundGives, Sizes
    <3> QED
      BY <3>1, <3>2 DEF Starts
  <2>4. ASSUME NEW n \in Node, AnsweredFalse(n) PROVE input'[r][m] = input[r][m]
    <3>1. StartRound(n, round[n] + 1) /\ round[n] + 1 \in Round
      BY <2>4, DrawAssumption, SMTT(30) DEF AnsweredFalse, TypeOK, Round
    <3>2. r # round[n] + 1 \/ m # n
      BY <2>1
    <3>3. Starts(n, round[n] + 1)
      BY <3>1, StartRoundGives
    <3> QED
      BY <3>2, <3>3 DEF Starts
  <2> QED
    BY <2>2, <2>3, <2>4
    DEF Next, Step, Deliver, CollectDelivery, CollectConfirmation, Fetch,
        AnsweredTrueHolding, AnsweredTrueLacking, AwaitProposal, vars
<1>3. \A w \in BOOLEAN : Began(r, w) \subseteq Began(r, w)'
  BY <1>2 DEF Began
<1>4. second'[r] \subseteq Node
  BY StepType DEF TypeOK
<1>5. ASSUME NEW S, NEW R, R \subseteq S, S \subseteq Node, NEW k \in Int, Cardinality(R) >= k
      PROVE  Cardinality(S) >= k
  BY <1>5, NodeSets
<1>6. 2 * T + 1 \in Int /\ T + 1 \in Int /\ \A w : Began(r, w)' \subseteq Node
  BY Sizes DEF Began
<1>7. Cardinality(Began(r, FALSE)' \union Began(r, TRUE)') >= 2 * T + 1
  <2>1. /\ Began(r, FALSE) \union Began(r, TRUE) \subseteq Began(r, FALSE)' \union Began(r, TRUE)'
        /\ Began(r, FALSE)' \union Began(r, TRUE)' \subseteq Node
    BY <1>3, <1>6
  <2> QED
    BY <1>5, <1>6, <2>1 DEF Grounds
<1>8. CASE v = TRUE
  <2>1. /\ Began(r, TRUE) \union second[r] \subseteq Began(r, TRUE)' \union second'[r]
        /\ Began(r, TRUE)' \union second'[r] \subseteq Node
    BY <1>1, <1>3, <1>4, <1>6
  <2>2. Cardinality(Began(r, TRUE)' \union second'[r]) >= T + 1
    BY <1>5, <1>6, <1>8, <2>1 DEF Grounds
  <2> QED
    BY <1>7, <1>8, <2>2 DEF Grounds
<1>9. CASE v = FALSE
  <2>1. Cardinality(Began(r, FALSE)') >= 2 * T + 1
    BY <1>3, <1>5, <1>6, <1>9 DEF Grounds
  <2> QED
    BY <1>7, <1>9, <2>1 DEF Grounds
<1> QED
  BY <1>8, <1>9

LEMMA GroundStep == TypeOK /\ BeginInv /\ GroundInv /\ [Next]_vars => GroundInv'
<1> SUFFICES ASSUME TypeOK, BeginInv, GroundInv, [Next]_vars, NEW r \in Round, NEW v \in answers'[r]
             PROVE  Grounds(r, v)'
  BY DEF GroundInv
<1>1. v \in BOOLEAN
  BY StepType DEF TypeOK
<1>2. CASE v \in answers[r]
  BY <1>1, <1>2, GroundsStay DEF GroundInv
<1>3. CASE v \notin answers[r]
  <2>1. PICK m \in Node : Answered(m, TRUE) \/ Answered(m, FALSE)
    BY <1>3
    DEF Next, Step, Deliver, CollectDelivery, CollectConfirmation, FirstRound, Fetch,
        AnsweredFalse, AnsweredTrueHolding, AnsweredTrueLacking, AwaitProposal, vars,
        broadcasts, waiting, place, agreements
  <2>2. r = round[m] /\ Answered(m, v)
    <3>1. ASSUME NEW w \in BOOLEAN, Answered(m, w) PROVE r = round[m] /\ v = w
      BY <1>3, <3>1 DEF Answered, TypeOK
    <3> QED
      BY <2>1, <3>1
  <2>3. Grounds(r, v)
    BY <1>1, <2>2, MayOutputIs DEF Answered, HasAnswer
  <2> QED
    BY <1>1, <2>3, GroundsStay
<1> QED
  BY <1>2, <1>3

LEMMA SourceStep == TypeOK /\ SourceInv /\ [Next]_vars => SourceInv'
<1> SUFFICES ASSUME TypeOK, SourceInv, [Next]_vars PROVE SourceInv'
  OBVIOUS
<1> USE DEF broadcasts, waiting, place, agreements
<1>1. CASE UNCHANGED <<delivered, got2>>
  BY <1>1 DEF SourceInv
<1>2. ASSUME NEW n \in Node, NEW p \in Node, Deliver(n, p) PROVE SourceInv'
  BY <1>2 DEF Deliver, MayDeliver, SourceInv, TypeOK
<1>3. ASSUME NEW n \in Node, NEW p \in Node, CollectConfirmation(n, p, Node) PROVE SourceInv'
  BY <1>3 DEF CollectConfirmation, HasConfirmation, SourceInv, TypeOK
<1> QED
  BY <1>1, <1>2, <1>3
  DEF Next, Step, CollectDelivery, FirstRound, Fetch, AnsweredFalse, AnsweredTrueHolding,
      AnsweredTrueLacking, AwaitProposal, vars

RestInv == RoundInv /\ HeldInv /\ CarryInv /\ BeginInv /\ SourceInv /\ GroundInv

LEMMA RestInvariant == Spec => [](TypeOK /\ RestInv)
<1>1. Init => TypeOK /\ RestInv
  BY InitType, RoundInit, HeldInit, CarryInit, BeginInit DEF RestInv
<1>2. TypeOK /\ RestInv /\ [Next]_vars => TypeOK' /\ RestInv'
  BY StepType, RoundStep, HeldStep, CarryStep, BeginStep, SourceStep, GroundStep DEF RestInv
<1> QED
  BY <1>1, <1>2, PTL DEF Spec

\* Rounds that draw p.
Draws(p) == {r \in Round : Draw[r] = p}

\* Of the tokens for p no more are taken than there are rounds that draw p.
LEMMA TokensLeft ==
    ASSUME TypeOK, BeginInv, NEW n \in Node, NEW p \in Node, pc[n] # "done"
    PROVE  taken[n][p] \in Nat /\ taken[n][p] <= Cardinality(Draws(p)) /\ Cardinality(Draws(p)) \in Nat
<1>1. taken[n] \in [Node -> 0 .. 4]
  BY DEF TypeOK
<1>2. taken[n][p] \in Nat
  BY <1>1
<1>3. taken[n][p] <= Cardinality(Fetched(n, p))
  BY DEF BeginInv, Begun
<1>4. Fetched(n, p) \subseteq Draws(p) /\ Draws(p) \subseteq Round
  BY DEF Fetched, Draws
<1>5. /\ Cardinality(Fetched(n, p)) \in Nat /\ Cardinality(Draws(p)) \in Nat
      /\ Cardinality(Fetched(n, p)) <= Cardinality(Draws(p))
  BY <1>4, RoundSets
<1> QED
  BY <1>2, <1>3, <1>5

\* As long as no leader is drawn twice, Launch never waits for the proposal of one
\* that the node has: each output puts two tokens, and the goroutine of one round
\* takes one (sfmvba.go:82-83, 130, 169).  A second draw of the leader can take the
\* other one away.
THEOREM WaitsAreAnswered == (\A p \in Node : Cardinality(Draws(p)) <= 1) => (Spec => []WaitEnds)
<1> SUFFICES ASSUME \A p \in Node : Cardinality(Draws(p)) <= 1 PROVE Spec => []WaitEnds
  OBVIOUS
<1>1. TypeOK /\ RestInv => WaitEnds
  <2> SUFFICES ASSUME TypeOK, RestInv, AtRest, NEW n \in Correct, pc[n] = "proposal",
                      Draw[round[n]] \in Held(n)
               PROVE  FALSE
    BY DEF WaitEnds
  <2>1. n \in Node /\ n \in Running /\ Draw[round[n]] \in Node
    BY NodeAssumption, DrawAssumption DEF TypeOK
  <2>2. /\ taken[n][Draw[round[n]]] \in Nat
        /\ taken[n][Draw[round[n]]] <= 1
    BY <2>1, TokensLeft DEF RestInv
  <2>3. HasToken(n, Draw[round[n]])
    BY <2>2 DEF HasToken, Tokens, TokensPut, Count, Held
  <2>4. GoesOn(n)
    BY <2>1, <2>3 DEF GoesOn, Open
  <2> QED
    BY <2>4 DEF AtRest
<1> QED
  BY <1>1, RestInvariant, PTL
-----------------------------------------------------------------------------
\* A system that faults leave working, and in which none is done.
Operational == T >= 1 /\ Cardinality(Correct) >= N - T /\ Correct \subseteq Proposer
Undone == \A n \in Node : pc[n] # "done"

LEMMA CorrectNodes ==
    ASSUME Operational
    PROVE  /\ Correct \subseteq Node /\ Correct \subseteq Running
           /\ Cardinality(Correct) \in Nat /\ Cardinality(Correct) >= 2 * T + 1
<1>1. Correct \subseteq Node /\ Correct \subseteq Running
  BY NodeAssumption
<1>2. Cardinality(Correct) \in Nat
  BY <1>1, NodeSets
<1> QED
  BY <1>1, <1>2, Sizes DEF Operational, T

\* What correct nodes all are in is a quorum.
LEMMA Quorum ==
    ASSUME Operational, NEW S, S \subseteq Node, Correct \subseteq S
    PROVE  Cardinality(S) \in Nat /\ Cardinality(S) >= 2 * T + 1 /\ Cardinality(S) >= T + 1
BY CorrectNodes, NodeSets, Sizes DEF Operational

\* At rest every correct node has both outputs of a broadcast that keeps its promise.
LEMMA HasPromised ==
    ASSUME TypeOK, Operational, AtRest, Undone, NEW p \in Proposer, Promised(p), NEW n \in Correct
    PROVE  p \in got1[n] /\ p \in got2[n]
<1>1. p \in Node /\ \A m \in Correct : m \in Node /\ Open(m) /\ ~ GoesOn(m)
  BY CorrectNodes, ProposerAssumption DEF Open, Undone, AtRest
<1>2. Correct \subseteq delivered[p]
  BY <1>1 DEF GoesOn, MayDeliver
<1>3. p \in got1[n]
  BY <1>1, <1>2 DEF GoesOn, HasDelivery
<1>4. Cardinality(delivered[p] \intersect Correct) >= ConfirmQuorum(n, p)
  <2>1. delivered[p] \intersect Correct = Correct
    BY <1>2
  <2> QED
    BY <2>1, CorrectNodes, Sizes DEF ConfirmQuorum
<1>5. p \in got2[n]
  BY <1>1, <1>4 DEF GoesOn, HasConfirmation
<1> QED
  BY <1>3, <1>5

\* The correct nodes have begun with the rounds.
LEMMA AllBegun ==
    ASSUME TypeOK, RestInv, Operational, AtRest, Undone, NEW n \in Correct
    PROVE  pc[n] # "coinready"
<1> SUFFICES ASSUME pc[n] = "coinready" PROVE FALSE
  OBVIOUS
<1>1. n \in Node /\ Open(n) /\ ~ GoesOn(n)
  BY CorrectNodes DEF Open, Undone, AtRest
<1>2. got2[n] \subseteq Node
  BY <1>1 DEF TypeOK
<1>3. ~ (Cardinality(got2[n]) >= 2 * T + 1)
  BY <1>1 DEF GoesOn, IsCoinReady, CoinQuorum
<1>4. CASE \A m \in Node : pc[m] = "coinready"
  <2>1. \A p \in Correct : p \in Proposer /\ Promised(p)
    BY <1>4 DEF Promised, Undone, Operational
  <2>2. Correct \subseteq got2[n]
    BY <2>1, HasPromised
  <2> QED
    BY <1>2, <1>3, <2>2, Quorum
<1>5. ASSUME NEW m \in Node, pc[m] # "coinready" PROVE FALSE
  <2>1. Cardinality(got2[m]) >= 2 * T + 1
    BY <1>5 DEF RestInv, CarryInv
  <2>2. \A p \in got2[m] : p \in Proposer /\ Promised(p)
    BY <1>5 DEF RestInv, SourceInv, Promised, Undone
  <2>3. got2[m] \subseteq got2[n]
    BY <2>2, HasPromised
  <2>4. /\ Cardinality(got2[m]) \in Nat /\ Cardinality(got2[n]) \in Nat
        /\ Cardinality(got2[m]) <= Cardinality(got2[n])
    BY <1>2, <2>3, NodeSets
  <2> QED
    BY <1>3, <2>1, <2>4, Sizes
<1> QED
  BY <1>4, <1>5

\* A correct node has taken every answer it is given.
LEMMA NoAnswerWaits ==
    ASSUME TypeOK, RestInv, Operational, AtRest, Undone, NEW n \in Correct, pc[n] = "agreement"
    PROVE  /\ round[n] < MaxRound => ~ Binary(round[n])!MayOutput(FALSE)
           /\ ~ Binary(round[n])!MayOutput(TRUE)
<1>1. n \in Node /\ Open(n) /\ ~ GoesOn(n) /\ round[n] \in Round
  BY CorrectNodes DEF Open, Undone, AtRest, TypeOK
<1>2. \A v \in BOOLEAN : HasAnswer(n, v) <=> Binary(round[n])!MayOutput(v)
  BY <1>1 DEF HasAnswer
<1>3. input[round[n]][n] # {} /\ input[round[n]][n] \in {{}, {FALSE}, {TRUE}}
  <2>1. Begun(n)
    BY <1>1 DEF RestInv, BeginInv
  <2>2. round[n] \in Int /\ round[n] <= round[n]
    BY <1>1, DrawAssumption DEF Round
  <2> QED
    BY <1>1, <2>1, <2>2 DEF Begun, TypeOK
<1>4. MayReadTrue(n) \/ MayReadFalse(n)
  BY <1>3 DEF MayReadTrue, MayReadFalse
<1>5. ~ (HasAnswer(n, FALSE) /\ round[n] < MaxRound) /\ ~ HasAnswer(n, TRUE)
  BY <1>1, <1>4 DEF GoesOn
<1> QED
  BY <1>2, <1>5

\* No node is in a later round than a correct one.
LEMMA CorrectAreLast ==
    ASSUME TypeOK, RestInv, Operational, AtRest, Undone, NEW n \in Correct, NEW m \in Node
    PROVE  round[m] <= round[n]
<1> SUFFICES ASSUME ~ (round[m] <= round[n]) PROVE FALSE
  OBVIOUS
<1>1. n \in Node /\ round[n] \in Round /\ round[m] \in Round
  BY CorrectNodes DEF TypeOK
<1>2. round[n] < round[m] /\ round[n] < MaxRound
  BY <1>1, DrawAssumption DEF Round
<1>3. FALSE \in answers[round[n]] /\ answers[round[n]] # BOOLEAN /\ answers[round[n]] \subseteq BOOLEAN
  BY <1>1, <1>2 DEF RestInv, RoundInv, TypeOK
<1>4. answers[round[n]] = {FALSE}
  BY <1>3
<1>5. pc[n] = "agreement"
  <2>1. pc[n] \in {"agreement", "proposal"}
    BY <1>1, AllBegun DEF Undone, TypeOK
  <2>2. pc[n] # "proposal"
    BY <1>1, <1>4 DEF RestInv, RoundInv
  <2> QED
    BY <2>1, <2>2
<1>6. Grounds(round[n], FALSE)
  BY <1>1, <1>3 DEF RestInv, GroundInv
<1> QED
  BY <1>1, <1>2, <1>4, <1>5, <1>6, MayOutputIs, NoAnswerWaits

\* Both outputs put four tokens: after three draws of the leader one is left.
LEMMA TokenIsThere ==
    ASSUME TypeOK, RestInv, Operational, AtRest, Undone, NEW p \in Proposer, Promised(p),
           Cardinality(Draws(p)) <= 3, NEW n \in Correct
    PROVE  HasToken(n, p)
<1>1. n \in Node /\ p \in Node
  BY CorrectNodes, ProposerAssumption
<1>2. taken[n][p] \in Nat /\ taken[n][p] <= 3
  BY <1>1, TokensLeft DEF RestInv, Undone
<1>3. p \in got1[n] /\ p \in got2[n]
  BY HasPromised
<1> QED
  BY <1>2, <1>3 DEF HasToken, Tokens, TokensPut, Count

\* At rest every correct node is in the agreement of the same round, which has a
\* quorum of inputs.
LEMMA RoundIsFull ==
    ASSUME TypeOK, RestInv, Operational, AtRest, Undone, NEW n \in Correct
    PROVE  /\ \A m \in Correct : round[m] = round[n] /\ input[round[n]][m] # {}
           /\ Correct \subseteq Began(round[n], FALSE) \union Began(round[n], TRUE)
           /\ Cardinality(Began(round[n], FALSE) \union Began(round[n], TRUE)) >= 2 * T + 1
<1>1. \A m \in Correct : m \in Node /\ round[m] \in Round /\ round[m] \in Int
  BY CorrectNodes, DrawAssumption DEF TypeOK, Round
<1>2. ASSUME NEW m \in Correct
      PROVE  /\ round[m] = round[n] /\ input[round[n]][m] # {}
             /\ m \in Began(round[n], FALSE) \union Began(round[n], TRUE)
  <2>1. round[m] <= round[n] /\ round[n] <= round[m]
    BY <1>1, CorrectAreLast
  <2>2. pc[m] # "coinready" /\ Begun(m)
    BY <1>1, AllBegun DEF RestInv, BeginInv
  <2>3. input[round[n]][m] # {}
    BY <1>1, <2>1, <2>2 DEF Begun
  <2>4. input[round[n]][m] \in {{}, {FALSE}, {TRUE}}
    BY <1>1, ZenonT(60) DEF TypeOK
  <2>5. FALSE \in input[round[n]][m] \/ TRUE \in input[round[n]][m]
    BY <2>3, <2>4
  <2>6. m \in Began(round[n], FALSE) \/ m \in Began(round[n], TRUE)
    BY <1>1, <2>5 DEF Began
  <2>7. round[m] = round[n]
    BY <1>1, <2>1
  <2> QED
    BY <2>3, <2>6, <2>7
<1>3. Began(round[n], FALSE) \union Began(round[n], TRUE) \subseteq Node
  BY DEF Began
<1> QED
  BY <1>2, <1>3, Quorum

\* At rest nobody has TRUE from the agreement the correct nodes are in: whoever had
\* would give out the leader's proposal.
LEMMA NotAnsweredTrue ==
    ASSUME TypeOK, RestInv, Operational, AtRest, Undone, NEW n \in Correct,
           Cardinality(Draws(Draw[round[n]])) <= 3
    PROVE  TRUE \notin answers[round[n]]
<1> DEFINE r == round[n]
           p == Draw[r]
<1> SUFFICES ASSUME TRUE \in answers[r] PROVE FALSE
  OBVIOUS
<1>1. n \in Node /\ r \in Round /\ p \in Node /\ Open(n) /\ ~ GoesOn(n)
  BY CorrectNodes, DrawAssumption DEF Open, Undone, AtRest, TypeOK
<1>2. answers[r] \subseteq BOOLEAN /\ answers[r] # BOOLEAN
  BY <1>1 DEF RestInv, RoundInv, TypeOK
<1>3. Grounds(r, TRUE)
  BY <1>1 DEF RestInv, GroundInv
<1>4. Binary(r)!MayOutput(TRUE)
  BY <1>1, <1>2, <1>3, MayOutputIs
<1>5. pc[n] = "proposal"
  BY <1>1, <1>4, AllBegun, NoAnswerWaits DEF Undone, TypeOK
<1>6. Carried(p)
  BY <1>1 DEF RestInv, CarryInv, Operational
<1>7. p \in Proposer /\ Promised(p)
  BY <1>1, <1>6 DEF RestInv, SourceInv, Carried, Promised, Undone
<1>8. HasToken(n, p)
  BY <1>7, TokenIsThere
<1> QED
  BY <1>1, <1>5, <1>8 DEF GoesOn

\* At rest, with the leader's broadcast promised, every correct node has handed TRUE
\* over in the round it is in.
LEMMA AllHandOver ==
    ASSUME TypeOK, RestInv, Operational, AtRest, Undone, NEW n \in Correct,
           Cardinality(Draws(Draw[round[n]])) <= 3,
           Draw[round[n]] \in Proposer, Promised(Draw[round[n]])
    PROVE  Correct \subseteq Began(round[n], TRUE) \union second[round[n]]
<1> DEFINE r == round[n]
           p == Draw[r]
<1> SUFFICES ASSUME NEW m \in Correct, m \notin Began(r, TRUE) PROVE m \in second[r]
  OBVIOUS
<1>1. n \in Node /\ m \in Node /\ r \in Round /\ Open(m) /\ ~ GoesOn(m) /\ Begun(m)
  BY CorrectNodes DEF Open, Undone, AtRest, TypeOK, RestInv, BeginInv
<1>2. FALSE \in input[r][m]
  BY <1>1, RoundIsFull DEF Began
<1>3. HasToken(m, p)
  BY TokenIsThere
<1>4. r \notin fetching[m]
  BY <1>1, <1>3 DEF GoesOn
<1> QED
  BY <1>1, <1>2, <1>4 DEF Begun

\* With no outcome at rest, the leader of the round is one nobody else has heard.
LEMMA LeaderIsLone ==
    ASSUME TypeOK, RestInv, Operational, AtRest, Undone, ~ OutlastsBound, NEW n \in Correct,
           Cardinality(Draws(Draw[round[n]])) <= 3
    PROVE  LoneLeader
<1> DEFINE r == round[n]
           p == Draw[r]
<1>1. n \in Node /\ r \in Round /\ p \in Node /\ r \in Int /\ MaxRound \in Int /\ r <= MaxRound
  BY CorrectNodes, DrawAssumption DEF TypeOK, Round
<1>2. answers[r] \subseteq {FALSE}
  BY <1>1, NotAnsweredTrue DEF TypeOK
<1>3. pc[n] = "agreement"
  <2>1. pc[n] \in {"agreement", "proposal"}
    BY <1>1, AllBegun DEF Undone, TypeOK
  <2>2. pc[n] # "proposal"
    BY <1>1, <1>2 DEF RestInv, RoundInv
  <2> QED
    BY <2>1, <2>2
<1>4. ~ Grounds(r, FALSE)
  <2>1. ~ Binary(r)!MayOutput(FALSE)
    <3>1. CASE r < MaxRound
      BY <1>3, <3>1, NoAnswerWaits
    <3>2. CASE ~ (r < MaxRound)
      <4>1. r = MaxRound
        BY <1>1, <3>2
      <4> QED
        BY <4>1 DEF OutlastsBound
    <3> QED
      BY <3>1, <3>2
  <2> QED
    BY <1>1, <1>2, <2>1, MayOutputIs
<1>5. answers[r] = {}
  BY <1>1, <1>2, <1>4 DEF RestInv, GroundInv
<1>6. ~ Grounds(r, TRUE)
  BY <1>1, <1>3, <1>5, NoAnswerWaits, MayOutputIs
<1>7. ~ (Cardinality(Began(r, FALSE)) >= 2 * T + 1)
  BY <1>4, RoundIsFull DEF Grounds
<1>8. ~ (Cardinality(Began(r, TRUE) \union second[r]) >= T + 1)
  BY <1>6, RoundIsFull DEF Grounds
<1>9. Began(r, FALSE) \subseteq Node /\ Began(r, TRUE) \union second[r] \subseteq Node
  BY <1>1 DEF Began, TypeOK
<1>10. PICK m \in Correct : m \notin Began(r, FALSE)
  BY <1>7, <1>9, Quorum
<1>11. m \in Node /\ TRUE \in input[r][m]
  BY <1>10, CorrectNodes, RoundIsFull DEF Began
<1>12. p \in Held(m)
  BY <1>1, <1>11 DEF RestInv, HeldInv
<1>13. ~ (p \in Proposer /\ Promised(p))
  BY <1>8, <1>9, AllHandOver, Quorum
<1>14. p \in got1[m] \/ p \in got2[m]
  BY <1>12 DEF Held
<1>15. p \notin got2[m]
  BY <1>11, <1>13 DEF RestInv, SourceInv, Promised, Undone
<1>16. m \in delivered[p]
  BY <1>1, <1>11, <1>14, <1>15 DEF RestInv, CarryInv
<1>17. delivered[p] \ {p} = {}
  BY <1>1, <1>13, <1>16 DEF RestInv, SourceInv, Promised, Undone
<1>18. delivered[p] = {p}
  BY <1>16, <1>17
<1> QED
  BY <1>3, <1>18 DEF LoneLeader

\* With no more faults than are tolerated, and no leader drawn four times, the
\* correct nodes rest with an outcome, with the rounds left to go on, or with a leader
\* whose proposal nobody but itself has delivered (sfmvba.go:117-175).
THEOREM RestsWithOutcome ==
    Operational /\ (\A p \in Node : Cardinality(Draws(p)) <= 3) => (Spec => []OutcomeOrLoneLeader)
<1> SUFFICES ASSUME Operational, \A p \in Node : Cardinality(Draws(p)) <= 3
             PROVE  Spec => []OutcomeOrLoneLeader
  OBVIOUS
<1>1. TypeOK /\ RestInv => OutcomeOrLoneLeader
  <2> SUFFICES ASSUME TypeOK, RestInv, AtRest, ~ OutlastsBound, \A n \in Node : outcome[n] = {}
               PROVE  LoneLeader
    BY DEF OutcomeOrLoneLeader, SomeOutcome
  <2>1. Undone
    BY DEF Undone, RestInv, BeginInv, Begun
  <2>2. Cardinality(Correct) # 0
    BY CorrectNodes, Sizes DEF Operational
  <2>3. PICK n \in Correct : TRUE
    BY <2>2, FS_EmptySet
  <2>4. Draw[round[n]] \in Node
    BY CorrectNodes, DrawAssumption DEF TypeOK
  <2> QED
    BY <2>1, <2>4, LeaderIsLone
<1> QED
  BY <1>1, RestInvariant, PTL
-----------------------------------------------------------------------------
(* The other side of the bargain: what the modules of the broadcasts and of the *)
(* agreements assume of the one above them.                                  *)

\* Each agreement sees the steps BiasedAgreement expects: a node starts it once,
\* hands TRUE over only afterwards, and takes an answer it may have (sfmvba.go:117-150).
THEOREM UsesAgreements == ASSUME NEW r \in Round PROVE Spec => Binary(r)!Spec
<1> USE DEF broadcasts, waiting, place, agreements
<1>1. Init => Binary(r)!Init
  BY DEF Init, Binary!Init
<1>2. TypeOK /\ RestInv /\ [Next]_vars => [Binary(r)!Next]_(Binary(r)!vars)
  <2> SUFFICES ASSUME TypeOK, RestInv, [Next]_vars
               PROVE  [Binary(r)!Next]_(Binary(r)!vars)
    OBVIOUS
  <2>1. ASSUME UNCHANGED <<input[r], second[r], answers[r]>>
        PROVE  UNCHANGED Binary(r)!vars
    BY <2>1 DEF Binary!vars
  <2>2. ASSUME NEW n \in Node, NEW q \in Round, StartRound(n, q), UNCHANGED second,
               pc[n] = "coinready" \/ q > round[n],
               \A s \in Round : s # round[n] \/ pc[n] = "coinready" => answers'[s] = answers[s]
        PROVE  (q = r => Binary(r)!Next) /\ (q # r => input'[r] = input[r])
    <3>1. input[q][n] = {}
      <4>1. Begun(n) /\ round[n] \in Int /\ q \in Int
        BY DrawAssumption DEF RestInv, BeginInv, TypeOK, Round
      <4> QED
        BY <2>2, <4>1 DEF Begun
    <3> DEFINE v == Draw[q] \in Held(n)
    <3>2. /\ v \in BOOLEAN
          /\ input' = [input EXCEPT ![q] = [input[q] EXCEPT ![n] = {v}]]
      BY <2>2 DEF StartRound, TypeOK
    <3> HIDE DEF v
    <3>3. CASE q = r
      <4>1. input'[r] = [input[r] EXCEPT ![n] = {v}]
        BY <3>2, <3>3 DEF TypeOK
      <4>2. r # round[n] \/ pc[n] = "coinready"
        BY <2>2, <3>3, DrawAssumption DEF TypeOK, Round
      <4>3. answers'[r] = answers[r] /\ second'[r] = second[r]
        BY <2>2, <4>2
      <4>4. Binary(r)!Start(n, v)
        BY <3>1, <3>3, <4>1, <4>3 DEF Binary!Start
      <4>5. \E m \in Node, w \in BOOLEAN : Binary(r)!Start(m, w)
        BY <3>2, <4>4, Zenon
      <4>6. Binary(r)!Next
        BY <4>5, Zenon DEF Binary!Next
      <4> QED
        BY <3>3, <4>6
    <3>4. CASE q # r
      BY <3>2, <3>4 DEF TypeOK
    <3> QED
      BY <3>3, <3>4
  <2>3. ASSUME NEW n \in Node, NEW v \in BOOLEAN, Answered(n, v)
        PROVE  /\ round[n] = r /\ input'[r] = input[r] /\ second'[r] = second[r]
                    => Binary(r)!Next
               /\ \A s \in Round : s # round[n] => answers'[s] = answers[s]
    <3>1. answers' = [answers EXCEPT ![round[n]] = answers[round[n]] \union {v}]
      BY <2>3 DEF Answered, TypeOK
    <3>2. ASSUME round[n] = r, input'[r] = input[r], second'[r] = second[r]
          PROVE  Binary(r)!Next
      <4>1. Binary(r)!MayOutput(v) /\ answers'[r] = answers[r] \union {v}
        BY <2>3, <3>1, <3>2 DEF Answered, HasAnswer, TypeOK
      <4>2. Binary(r)!Output(v)
        BY <3>2, <4>1 DEF Binary!Output
      <4>3. \E w \in BOOLEAN : Binary(r)!Output(w)
        BY <4>2, Zenon
      <4> QED
        BY <4>3, Zenon DEF Binary!Next
    <3>3. \A s \in Round : s # round[n] => answers'[s] = answers[s]
      BY <3>1 DEF TypeOK
    <3> QED
      BY <3>2, <3>3
  <2>4. ASSUME NEW n \in Node, FirstRound(n)
        PROVE  [Binary(r)!Next]_(Binary(r)!vars)
    <3>1. StartRound(n, 0) /\ UNCHANGED <<second, answers>> /\ pc[n] = "coinready"
      BY <2>4 DEF FirstRound, IsCoinReady
    <3> QED
      BY <2>1, <2>2, <3>1, Sizes
  <2>5. ASSUME NEW n \in Node, AnsweredFalse(n)
        PROVE  [Binary(r)!Next]_(Binary(r)!vars)
    <3>0. Answered(n, FALSE) /\ StartRound(n, round[n] + 1) /\ UNCHANGED second /\ round[n] < MaxRound
      BY <2>5 DEF AnsweredFalse
    <3>1. round[n] \in Round /\ round[n] + 1 \in Round /\ round[n] + 1 > round[n]
      BY <3>0, DrawAssumption DEF TypeOK, Round
    <3>2. \A s \in Round : s # round[n] => answers'[s] = answers[s]
      BY <2>3, <3>0
    <3>A. \A s \in Round : s # round[n] \/ pc[n] = "coinready" => answers'[s] = answers[s]
      BY <3>0, <3>2 DEF Answered, HasAnswer
    <3>B. /\ round[n] + 1 = r => Binary(r)!Next
          /\ round[n] + 1 # r => input'[r] = input[r]
      BY <2>2, <3>0, <3>1, <3>A
    <3>3. CASE r = round[n] + 1
      BY <3>3, <3>B
    <3>4. CASE r # round[n] + 1
      <4>1. input'[r] = input[r] /\ second'[r] = second[r]
        BY <3>0, <3>4, <3>B
      <4>2. CASE r = round[n]
        BY <2>3, <3>0, <4>1, <4>2
      <4>3. CASE r # round[n]
        BY <2>1, <3>2, <4>1, <4>3
      <4> QED
        BY <4>2, <4>3
    <3> QED
      BY <3>3, <3>4
  <2>6. ASSUME NEW n \in Node, NEW q \in Round, Fetch(n, q)
        PROVE  [Binary(r)!Next]_(Binary(r)!vars)
    <3>1. UNCHANGED <<input, answers>> /\ second' = [second EXCEPT ![q] = second[q] \union {n}]
      BY <2>6 DEF Fetch, TypeOK
    <3>2. CASE q = r
      <4>1. input[r][n] # {}
        BY <2>6, <3>2 DEF Fetch, RestInv, BeginInv, Begun
      <4>2. second'[r] = second[r] \union {n}
        BY <3>1, <3>2 DEF TypeOK
      <4>3. Binary(r)!HandSecond(n)
        BY <3>1, <4>1, <4>2 DEF Binary!HandSecond
      <4> QED
        BY <4>3 DEF Binary!Next
    <3>3. CASE q # r
      BY <2>1, <3>1, <3>3 DEF TypeOK
    <3> QED
      BY <3>2, <3>3
  <2>7. ASSUME NEW n \in Node, AnsweredTrueHolding(n) \/ AnsweredTrueLacking(n)
        PROVE  [Binary(r)!Next]_(Binary(r)!vars)
    <3>1. Answered(n, TRUE) /\ UNCHANGED <<input, second>>
      BY <2>7 DEF AnsweredTrueHolding, AnsweredTrueLacking
    <3>2. CASE round[n] = r
      BY <2>3, <3>1, <3>2
    <3>3. CASE round[n] # r
      BY <2>1, <2>3, <3>1, <3>3
    <3> QED
      BY <3>2, <3>3
  <2>8. CASE UNCHANGED agreements
    BY <2>1, <2>8
  <2> QED
    BY <2>4, <2>5, <2>6, <2>7, <2>8
    DEF Next, Step, Deliver, CollectDelivery, CollectConfirmation, AwaitProposal, vars
<1> QED
  BY <1>1, <1>2, RestInvariant, PTL DEF Spec, Binary!Spec

\* What RBCFinish assumes of a node that closes its channels with an outcome (Close
\* with Elected): it has an output of the elected broadcast, as have T + 1 nodes.
ElectedIsHeld ==
    \A n \in Node : \A p \in outcome[n] :
        /\ p \in Held(n)
        /\ Cardinality({m \in Node : p \in Held(m)}) >= T + 1

\* MVBA closes the broadcasts only when they have done their part: the agreement
\* on TRUE has T + 1 holders of the leader's proposal behind it (sfmvba.go:150-176).
THEOREM ElectedBroadcastHeld == Spec => []ElectedIsHeld
<1>1. TypeOK /\ RestInv => ElectedIsHeld
  <2> SUFFICES ASSUME TypeOK, RestInv, NEW n \in Node, NEW p \in outcome[n]
               PROVE  p \in Held(n) /\ Cardinality({m \in Node : p \in Held(m)}) >= T + 1
    BY DEF ElectedIsHeld
  <2> DEFINE r == round[n]
             S == Began(r, TRUE) \union second[r]
             H == {m \in Node : p \in Held(m)}
  <2>1. r \in Round /\ p = Draw[r] /\ TRUE \in answers[r]
    BY DEF RestInv, RoundInv, TypeOK
  <2>2. Cardinality(S) >= T + 1
    BY <2>1 DEF RestInv, GroundInv, Grounds
  <2>3. S \subseteq H /\ H \subseteq Node
    BY <2>1 DEF RestInv, HeldInv, Began, TypeOK
  <2>4. Cardinality(S) \in Nat /\ Cardinality(H) \in Nat /\ Cardinality(S) <= Cardinality(H)
    BY <2>3, NodeSets
  <2>5. Cardinality(H) >= T + 1
    BY <2>2, <2>4, Sizes
  <2> QED
    BY <2>5 DEF RestInv, HeldInv
<1> QED
  BY <1>1, RestInvariant, PTL
-----------------------------------------------------------------------------
(* The abstract specification.                                               *)

\* Only running nodes begin with the rounds.
TakePart == \A n \in Node : pc[n] # "coinready" => n \in Running

LEMMA TakePartStep == TypeOK /\ TakePart /\ [Next]_vars => TakePart'
<1> SUFFICES ASSUME TypeOK, TakePart, [Next]_vars, NEW m \in Node, pc'[m] # "coinready", m \notin Running
             PROVE  FALSE
  BY DEF TakePart
<1> USE DEF broadcasts, waiting, place, agreements
<1>1. pc[m] = "coinready"
  BY DEF TakePart
<1>2. PICK n \in Node : Step(n)
  BY <1>1 DEF Next, vars
<1>3. n \in Running
  BY <1>1, <1>2 DEF Step, Deliver, CollectDelivery, CollectConfirmation, FirstRound, IsCoinReady, Fetch,
         AnsweredFalse, AnsweredTrueHolding, AnsweredTrueLacking, AwaitProposal, Answered, HasAnswer, Open,
         MayDeliver, HasDelivery, HasConfirmation
<1> QED
  BY <1>1, <1>2, <1>3, OthersStay

\* An outcome means that a quorum of nodes began its round.
QuorumBegan ==
    \A n \in Node : outcome[n] # {} => Cardinality(Running \union Proposer) >= 2 * T + 1

LEMMA OutcomeHasQuorum == TypeOK /\ RestInv /\ TakePart => QuorumBegan
<1> SUFFICES ASSUME TypeOK, RestInv, TakePart, NEW n \in Node, outcome[n] # {}
             PROVE  Cardinality(Running \union Proposer) >= 2 * T + 1
  BY DEF QuorumBegan
<1> DEFINE r == round[n]
           S == Began(r, FALSE) \union Began(r, TRUE)
           J == Running \union Proposer
<1>1. r \in Round /\ TRUE \in answers[r]
  BY DEF RestInv, RoundInv, TypeOK
<1>2. Cardinality(S) >= 2 * T + 1
  BY <1>1 DEF RestInv, GroundInv, Grounds
<1>3. S \subseteq J
  <2> SUFFICES ASSUME NEW m \in S PROVE m \in Running
    OBVIOUS
  <2>1. m \in Node /\ input[r][m] # {} /\ Begun(m)
    BY DEF Began, RestInv, BeginInv
  <2> QED
    BY <1>1, <2>1 DEF Begun, TakePart
<1>4. J \subseteq Node
  BY NodeAssumption, ProposerAssumption
<1>5. Cardinality(S) \in Nat /\ Cardinality(J) \in Nat /\ Cardinality(S) <= Cardinality(J)
  BY <1>3, <1>4, NodeSets
<1> HIDE DEF S, J
<1>6. Cardinality(J) >= 2 * T + 1
  BY <1>2, <1>5, Sizes
<1> QED
  BY <1>6 DEF J

\* MVBA is a validated agreement: whatever rounds the nodes go through, with whichever
\* leaders, each gets one outcome at most, the same as the others, of a broadcast that
\* a follower has delivered, when 2T + 1 nodes take part (sfmvba.go:107-186).
THEOREM Implements == T >= 1 => (Spec => Refinement)
<1> SUFFICES ASSUME T >= 1 PROVE Spec => Refinement
  OBVIOUS
<1> USE DEF broadcasts, waiting, place, agreements
<1> DEFINE Inv == TypeOK /\ RestInv /\ TakePart
           J == Running \union Proposer
           V == {p \in Node : Carried(p)}
<1>0. Inv => J \subseteq Node /\ V \subseteq J
  BY NodeAssumption, ProposerAssumption DEF RestInv, SourceInv, Carried
<1>A. Inv' => V' \subseteq J /\ J' = J
  BY NodeAssumption, ProposerAssumption DEF RestInv, SourceInv, Carried
<1>B. Inv => Agreement
  BY RoundAgreement DEF RestInv
<1>1. Init => Validated!Init
  <2> SUFFICES ASSUME Init PROVE Validated!Init
    OBVIOUS
  <2>1. Inv
    BY InitType, RoundInit, HeldInit, CarryInit, BeginInit DEF RestInv, Init, TakePart
  <2>2. outcome = [n \in Node |-> {}]
    BY DEF Init
  <2> QED
    BY <1>0, <2>1, <2>2 DEF Validated!Init
<1>2. Inv /\ Inv' /\ Agreement' /\ QuorumBegan' /\ [Next]_vars
          => [Validated!Next]_(Validated!vars)
  <2> SUFFICES ASSUME Inv, Inv', Agreement', QuorumBegan', [Next]_vars
               PROVE [Validated!Next]_(Validated!vars)
    OBVIOUS
  <2>1. CASE UNCHANGED outcome
    <3>1. V \subseteq V'
      BY HeldGrows DEF Carried
    <3>2. V' \subseteq J /\ J' = J
      BY <1>A
    <3>3. J' = J \union {} /\ V' = V \union V' /\ V' \in SUBSET J' /\ {} \in SUBSET Node
      BY <3>1, <3>2
    <3>4. (\E more \in SUBSET Node : J' = J \union more) /\ \E more \in SUBSET J' : V' = V \union more
      BY <3>3
    <3>5. Validated!Prepare
      BY <2>1, <3>4 DEF Validated!Prepare
    <3> QED
      BY <3>5 DEF Validated!Next
  <2>2. ASSUME NEW n \in Node, AnsweredTrueHolding(n) \/ AwaitProposal(n) PROVE Validated!Next
    <3> DEFINE p == Draw[round[n]]
    <3>1. /\ Open(n) /\ UNCHANGED <<delivered, round>>
          /\ outcome' = [outcome EXCEPT ![n] = {p}]
      BY <2>2 DEF AnsweredTrueHolding, AwaitProposal, Answered, HasAnswer, Finish
    <3>2. p \in Node /\ outcome'[n] = {p} /\ \A m \in Node : m # n => outcome'[m] = outcome[m]
      BY <3>1, DrawAssumption DEF TypeOK
    <3>3. outcome[n] = {} /\ \A m \in Node : outcome[m] \subseteq {p}
      <4>1. outcome[n] = {}
        BY <3>1 DEF RestInv, RoundInv, Open
      <4>2. \A m \in Node : outcome'[m] \subseteq {p}
        BY <3>2 DEF Agreement
      <4> QED
        BY <3>2, <4>1, <4>2
    <3>4. p \in V
      <4>1. round'[n] \in Round /\ TRUE \in answers'[round'[n]]
        BY <3>2 DEF RestInv, RoundInv, TypeOK
      <4>2. Carried(p)'
        BY <3>1, <4>1 DEF RestInv, CarryInv
      <4> QED
        BY <3>1, <3>2, <4>2 DEF Carried
    <3>5. Cardinality(J) >= 2 * T + 1 /\ n \in J
      <4>1. outcome'[n] # {}
        BY <3>2
      <4>2. Cardinality(J) >= 2 * T + 1
        BY <4>1 DEF QuorumBegan
      <4> QED
        BY <3>1, <4>2 DEF Open
    <3>6. Validated!T = T /\ Validated!Cardinality(J) = Cardinality(J)
      BY DEF Validated!T, Validated!N, T, N, Validated!Cardinality, Cardinality
    <3>7. J' = J /\ V' = V
      BY <3>1 DEF Carried
    <3>8. PICK q \in Node : q = p
      BY <3>2
    <3> HIDE DEF J, V, p
    <3>9. Validated!Decide(n, q)
      BY <3>1, <3>3, <3>4, <3>5, <3>6, <3>7, <3>8 DEF Validated!Decide, J, V
    <3> QED
      BY <3>9 DEF Validated!Next
  <2> QED
    BY <2>1, <2>2
    DEF Next, Step, Deliver, CollectDelivery, CollectConfirmation, FirstRound, Fetch, AnsweredFalse,
        AnsweredTrueLacking, vars
<1>3. Init => TakePart
  BY DEF Init, TakePart
<1> QED
  BY <1>1, <1>2, <1>3, <1>B, TakePartStep, OutcomeHasQuorum, RestInvariant, PTL
  DEF Spec, Refinement, Validated!Spec
=============================================================================
