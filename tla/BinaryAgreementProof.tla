------------------------ MODULE BinaryAgreementProof ------------------------
(***************************************************************************)
(* Proofs about BinaryAgreement, for any nodes, inputs, coin, preempted     *)
(* nodes and bound.                                                         *)
(***************************************************************************)
EXTENDS BinaryAgreement, FiniteSetTheorems, FunctionTheorems, TLAPS

\* What the thresholds are made of.
LEMMA Sizes == N \in Nat /\ T \in Int /\ IsFiniteSet(Node) /\ 0 \in Loop
<1>1. N \in Nat
  BY NodeAssumption, FS_CardinalityType DEF N
<1> QED
  BY <1>1, NodeAssumption, LoopAssumption DEF T, Loop

\* Sets of nodes are finite, and their cardinality is monotone.
LEMMA Subsets ==
    ASSUME NEW S, S \subseteq Node, NEW R, R \subseteq S
    PROVE  /\ IsFiniteSet(S) /\ IsFiniteSet(R)
           /\ Cardinality(S) \in Nat /\ Cardinality(R) \in Nat
           /\ Cardinality(R) <= Cardinality(S)
<1>1. IsFiniteSet(S)
  BY NodeAssumption, FS_Subset
<1> QED
  BY <1>1, FS_Subset, FS_CardinalityType

\* The per-loop sets of values a node keeps.
Votes == [Node -> [Loop -> SUBSET BOOLEAN]]

\* Adding a vote keeps the votes' type.
LEMMA WithType ==
    ASSUME NEW f \in Votes, NEW n \in Node, NEW l \in Loop, NEW v \in BOOLEAN
    PROVE  With(f, n, l, v) \in Votes
  BY DEF With, Votes

\* sendval keeps the types of what it touches.
LEMMA SendValType ==
    ASSUME TypeOK, NEW n \in Node, NEW l \in Loop, NEW v \in BOOLEAN, SendVal(n, l, v)
    PROVE  val' \in Votes /\ aux' \in Votes /\ values' \in Votes
<1>1. val \in Votes /\ aux \in Votes /\ values \in Votes
  BY DEF TypeOK, Votes
<1>2. /\ With(val, n, l, v) \in Votes
      /\ With(aux, n, 0, TRUE) \in Votes
      /\ With(values, n, 0, TRUE) \in Votes
  BY <1>1, WithType, Sizes
<1> QED
  BY <1>1, <1>2 DEF SendVal

\* handle_val's write keeps the types of what it touches.
LEMMA WriteValueType ==
    ASSUME TypeOK, NEW n \in Node, NEW l \in Loop, NEW v \in BOOLEAN, NEW counted,
           WriteValue(n, l, v, counted)
    PROVE  aux' \in Votes /\ values' \in Votes
<1>1. aux \in Votes /\ values \in Votes
  BY DEF TypeOK, Votes
<1>2. With(aux, n, l, v) \in Votes /\ With(values, n, l, v) \in Votes
  BY <1>1, WithType
<1> QED
  BY <1>1, <1>2 DEF WriteValue
-----------------------------------------------------------------------------
\* NewBA and the start of Launch type the variables.
LEMMA InitType == Init => TypeOK
<1> SUFFICES ASSUME Init PROVE TypeOK
  OBVIOUS
<1>1. input \in [Node -> BOOLEAN]
  BY InputAssumption DEF Init
<1>2. val \in Votes
  BY <1>1 DEF Init, Votes
<1>3. values \in Votes /\ aux \in Votes
  BY <1>1 DEF Init, Votes
<1>4. loop \in [Node -> Loop] /\ pc \in [Node -> {"aux", "conf", "decided"}]
  BY Sizes DEF Init
<1>5. bin \in Votes /\ conf \in [Node -> [Loop -> SUBSET SUBSET BOOLEAN]]
  BY DEF Init, Votes
<1>6. tokens \in [Node -> Seq(BOOLEAN)]
  BY DEF Init
<1>7. amplified \in [Node -> SUBSET BOOLEAN] /\ output \in [Node -> SUBSET BOOLEAN]
  BY DEF Init
<1>8. input \in Inputs /\ second \subseteq Late
  BY DEF Init
<1> QED
  BY <1>2, <1>3, <1>4, <1>5, <1>6, <1>7, <1>8 DEF TypeOK, Votes

\* Every step keeps the types.
LEMMA StepType ==
    ASSUME TypeOK, [Next]_vars
    PROVE  TypeOK'
<1>1. ASSUME NEW n \in Node, SecondInput(n) PROVE TypeOK'
  BY <1>1, SendValType, Sizes DEF SecondInput, place, finishing, TypeOK, Votes
<1>2. ASSUME NEW n \in Node, SlowBias(n) PROVE TypeOK'
  BY <1>2, WithType, Sizes DEF SlowBias, inputs, place, finishing, TypeOK, Votes
<1>3. ASSUME NEW n \in Node, NEW l \in Loop, NEW v \in BOOLEAN, SlowWrite(n, l, v) PROVE TypeOK'
  BY <1>3, WriteValueType DEF SlowWrite, inputs, place, finishing, TypeOK, Votes
<1>4. ASSUME NEW n \in Node, NEW v \in BOOLEAN, AmplifyVal(n, v, Node) PROVE TypeOK'
  BY <1>4, SendValType DEF AmplifyVal, inputs, place, finishing, TypeOK, Votes
<1>5. ASSUME NEW n \in Node, NEW v \in BOOLEAN, CountVal(n, v, Node) PROVE TypeOK'
  <2>1. bin' \in Votes
    BY <1>5, WithType DEF CountVal, TypeOK, Votes
  <2>2. aux' \in Votes /\ values' \in Votes
    BY <1>5, WriteValueType DEF CountVal, TypeOK, Votes
  <2> QED
    BY <1>5, <2>1, <2>2 DEF CountVal, inputs, place, finishing, TypeOK, Votes
<1>6. ASSUME NEW n \in Node, SendConf(n, Node) PROVE TypeOK'
  BY <1>6 DEF SendConf, inputs, finishing, TypeOK, Votes
<1>7. ASSUME NEW n \in Node, Decide(n, Node) PROVE TypeOK'
  BY <1>7, LoopAssumption DEF Decide, inputs, votes, TypeOK, Votes
<1>8. ASSUME NEW n \in Node, NextLoop(n, Node) PROVE TypeOK'
  <2>1. loop[n] + 1 \in Loop
    BY <1>8, LoopAssumption DEF NextLoop, TypeOK, Votes, Loop
  <2>2. Coin[loop[n]] \in BOOLEAN /\ NextInput(values[n][loop[n]], Coin[loop[n]]) \in BOOLEAN
    BY LoopAssumption DEF NextInput, TypeOK, Votes
  <2> QED
    BY <1>8, <2>1, <2>2, WithType DEF NextLoop, TypeOK, Votes, inputs, finishing
<1>9. ASSUME NEW n \in Node, NEW v \in BOOLEAN, AmplifyFinish(n, v, Node) PROVE TypeOK'
  BY <1>9 DEF AmplifyFinish, inputs, place, votes, TypeOK, Votes
<1>10. ASSUME NEW n \in Node, NEW v \in BOOLEAN, Output(n, v, Node) PROVE TypeOK'
  BY <1>10 DEF Output, inputs, place, votes, TypeOK, Votes
<1>11. CASE UNCHANGED vars
  BY <1>11 DEF vars, inputs, place, votes, finishing, TypeOK, Votes
<1> QED
  BY <1>1, <1>2, <1>3, <1>4, <1>5, <1>6, <1>7, <1>8, <1>9, <1>10, <1>11, Zenon DEF Next, Step

\* The variables keep their types.
THEOREM TypeCorrect == Spec => []TypeOK
  BY InitType, StepType, PTL DEF Spec
-----------------------------------------------------------------------------
(* Outputs rest on deciders.  Before anybody amplifies a value, a FINISH of *)
(* it is some decider's own, and a decider sends one: T + 1 of them have    *)
(* T + 1 senders, who have decided.  Deciders stay deciders.                *)

\* A value is put on sendfinishsignal by the node's decision, once, or by its
\* amplification.
TokenGrounded(n, i) ==
    \/ tokens[n][i] \in amplified[n]
    \/ /\ n \in Deciders(tokens[n][i])
       /\ \A j \in 1 .. Len(tokens[n]) : tokens[n][j] = tokens[n][i] => j = i

TokensGrounded == \A n \in Node : \A i \in 1 .. Len(tokens[n]) : TokenGrounded(n, i)

AmplifiedIsDecided ==
    \A n \in Node : \A v \in amplified[n] : Cardinality(Deciders(v)) >= T + 1

OutputIsAmplified == \A n \in Node : output[n] \subseteq amplified[n]

FinishInv == TokensGrounded /\ AmplifiedIsDecided /\ OutputIsAmplified

\* What decisions and outputs are made of, and the steps that touch it.
core == <<loop, pc, conf, tokens, amplified, output>>

\* The other steps leave decisions, FINISH messages and outputs alone.
LEMMA CoreSteps ==
    ASSUME [Next]_vars
    PROVE  \/ UNCHANGED core
           \/ \E n \in Node :
                \/ SendConf(n, Node)
                \/ Decide(n, Node)
                \/ NextLoop(n, Node)
                \/ \E v \in BOOLEAN : AmplifyFinish(n, v, Node)
                \/ \E v \in BOOLEAN : Output(n, v, Node)
<1>1. ASSUME NEW n \in Node, SecondInput(n) PROVE UNCHANGED core
  BY <1>1 DEF SecondInput, core, place, finishing
<1>2. ASSUME NEW n \in Node, SlowBias(n) PROVE UNCHANGED core
  BY <1>2 DEF SlowBias, core, place, finishing
<1>3. ASSUME NEW n \in Node, NEW l \in Loop, NEW v \in BOOLEAN, SlowWrite(n, l, v)
      PROVE  UNCHANGED core
  BY <1>3 DEF SlowWrite, core, place, finishing
<1>4. ASSUME NEW n \in Node, NEW v \in BOOLEAN, AmplifyVal(n, v, Node) PROVE UNCHANGED core
  BY <1>4 DEF AmplifyVal, core, place, finishing
<1>5. ASSUME NEW n \in Node, NEW v \in BOOLEAN, CountVal(n, v, Node) PROVE UNCHANGED core
  BY <1>5 DEF CountVal, core, place, finishing
<1>6. CASE UNCHANGED vars
  BY <1>6 DEF vars, core, place, votes, finishing
<1> QED
  BY <1>1, <1>2, <1>3, <1>4, <1>5, <1>6, Zenon DEF Next, Step

\* Nodes only go forward, and who has decided stays where it is.
LEMMA Forward ==
    ASSUME TypeOK, [Next]_vars, NEW n \in Node
    PROVE  /\ loop'[n] >= loop[n]
           /\ pc[n] = "decided" => pc'[n] = "decided" /\ loop'[n] = loop[n]
           /\ amplified[n] \subseteq amplified'[n]
<1>1. CASE UNCHANGED core
  BY <1>1 DEF core, TypeOK, Loop
<1>2. CASE \E k \in Node : SendConf(k, Node)
  BY <1>2 DEF SendConf, finishing, TypeOK, Loop
<1>3. CASE \E k \in Node : Decide(k, Node)
  BY <1>3 DEF Decide, CoinReady, TypeOK, Loop
<1>4. CASE \E k \in Node : NextLoop(k, Node)
  BY <1>4 DEF NextLoop, CoinReady, finishing, TypeOK, Loop
<1>5. CASE \E k \in Node, v \in BOOLEAN : AmplifyFinish(k, v, Node)
  BY <1>5 DEF AmplifyFinish, place, TypeOK, Loop
<1>6. CASE \E k \in Node, v \in BOOLEAN : Output(k, v, Node)
  BY <1>6 DEF Output, place, TypeOK, Loop
<1> QED
  BY <1>1, <1>2, <1>3, <1>4, <1>5, <1>6, CoreSteps, Zenon

\* A decider stays one.
LEMMA DecidersGrow ==
    ASSUME TypeOK, [Next]_vars, NEW v
    PROVE  /\ Deciders(v) \subseteq Deciders(v)'
           /\ Cardinality(Deciders(v)') \in Nat
           /\ Cardinality(Deciders(v)) \in Nat
           /\ Cardinality(Deciders(v)') >= Cardinality(Deciders(v))
<1>1. Deciders(v) \subseteq Deciders(v)' /\ Deciders(v)' \subseteq Node
  BY Forward DEF Deciders
<1> QED
  BY <1>1, Subsets

\* While nobody has amplified a value, each FINISH of it comes from a different
\* node, which has decided it.
LEMMA FinishesAreDecisions ==
    ASSUME TypeOK, TokensGrounded, NEW v \in BOOLEAN, \A n \in Node : v \notin amplified[n]
    PROVE  /\ Cardinality(Finishes(v, Node)) \in Nat
           /\ Cardinality(Finishes(v, Node)) <= Cardinality(Deciders(v))
<1> DEFINE sender == [m \in Finishes(v, Node) |-> m[1]]
<1>1. ASSUME NEW m \in Finishes(v, Node)
      PROVE  /\ m[1] \in Node /\ m[2] \in 1 .. Len(tokens[m[1]])
             /\ tokens[m[1]][m[2]] = v
             /\ m = <<m[1], m[2]>>
  BY DEF Finishes, HasSent, TypeOK
<1>2. ASSUME NEW m \in Finishes(v, Node)
      PROVE  m[1] \in Deciders(v)
  BY <1>1 DEF TokensGrounded, TokenGrounded
<1>3. ASSUME NEW m \in Finishes(v, Node), NEW k \in Finishes(v, Node), m[1] = k[1]
      PROVE  m = k
  <2>1. m[2] = k[2]
    BY <1>1, <1>3 DEF TokensGrounded, TokenGrounded
  <2> QED
    BY <1>1, <1>3, <2>1
<1>4. sender \in Injection(Finishes(v, Node), Deciders(v))
  BY <1>2, <1>3, Fun_IsInj
<1>5. IsFiniteSet(Deciders(v)) /\ Cardinality(Deciders(v)) \in Nat
  BY Subsets, Deciders(v) \subseteq Node DEF Deciders
<1> QED
  BY <1>4, <1>5, FS_Injection, FS_CardinalityType

\* Every step keeps the invariant of the FINISH messages.
LEMMA FinishStep ==
    ASSUME TypeOK, FinishInv, [Next]_vars
    PROVE  FinishInv'
<1> USE DEF FinishInv
<1>1. CASE UNCHANGED core
  BY <1>1 DEF core, TokensGrounded, TokenGrounded, AmplifiedIsDecided, OutputIsAmplified, Deciders
<1>2. CASE \E k \in Node : SendConf(k, Node) \/ NextLoop(k, Node)
  <2>1. UNCHANGED finishing
    BY <1>2 DEF SendConf, NextLoop
  <2>2. TokensGrounded'
    BY <2>1, DecidersGrow DEF TokensGrounded, TokenGrounded, finishing
  <2>3. AmplifiedIsDecided'
    BY <2>1, DecidersGrow, Sizes DEF AmplifiedIsDecided, finishing
  <2> QED
    BY <2>1, <2>2, <2>3 DEF OutputIsAmplified, finishing
<1>3. ASSUME NEW k \in Node, Decide(k, Node) PROVE FinishInv'
  <2>1. UNCHANGED <<loop, amplified, output>> /\ pc[k] = "conf"
    BY <1>3 DEF Decide, CoinReady
  <2>2. TokensGrounded'
    <3> DEFINE c == Coin[loop[k]]
    <3>1. /\ c \in BOOLEAN
          /\ tokens' = [tokens EXCEPT ![k] = Append(@, c)]
          /\ k \in Deciders(c)'
      BY <1>3, LoopAssumption DEF Decide, TypeOK, Deciders
    <3>2. \A i \in 1 .. Len(tokens[k]) : tokens[k][i] \in amplified[k]
      BY <2>1 DEF TokensGrounded, TokenGrounded, Deciders
    <3>3. ASSUME NEW n \in Node, NEW i \in 1 .. Len(tokens'[n]), n # k
          PROVE  TokenGrounded(n, i)'
      <4>1. TokenGrounded(n, i) /\ tokens'[n] = tokens[n]
        BY <3>1, <3>3 DEF TokensGrounded, TypeOK
      <4> QED
        BY <2>1, <4>1, DecidersGrow DEF TokenGrounded
    <3>4. ASSUME NEW i \in 1 .. Len(tokens'[k])
          PROVE  TokenGrounded(k, i)'
      <4>1. tokens'[k] = Append(tokens[k], c) /\ tokens[k] \in Seq(BOOLEAN)
        BY <3>1 DEF TypeOK
      <4>2. CASE i \in 1 .. Len(tokens[k])
        BY <2>1, <3>2, <4>1, <4>2 DEF TokenGrounded
      <4>3. CASE i = Len(tokens[k]) + 1 /\ c \in amplified[k]
        BY <2>1, <4>1, <4>3 DEF TokenGrounded
      <4>4. CASE i = Len(tokens[k]) + 1 /\ c \notin amplified[k]
        <5>1. tokens'[k][i] = c
          BY <4>1, <4>4
        <5>2. \A j \in 1 .. Len(tokens'[k]) : j # i => tokens'[k][j] # c
          BY <3>2, <4>1, <4>4
        <5>3. c' = c
          BY <2>1
        <5>4. k \in Deciders(tokens[k][i])'
          BY <3>1, <5>1, <5>3
        <5> QED
          BY <5>1, <5>2, <5>4 DEF TokenGrounded
      <4> QED
        BY <4>1, <4>2, <4>3, <4>4
    <3> QED
      BY <3>3, <3>4 DEF TokensGrounded
  <2>3. AmplifiedIsDecided'
    BY <2>1, DecidersGrow, Sizes DEF AmplifiedIsDecided
  <2> QED
    BY <2>1, <2>2, <2>3 DEF OutputIsAmplified
<1>4. ASSUME NEW k \in Node, NEW v \in BOOLEAN, AmplifyFinish(k, v, Node) PROVE FinishInv'
  <2>1. /\ UNCHANGED <<loop, pc, output>>
        /\ amplified' = [amplified EXCEPT ![k] = @ \union {v}]
        /\ tokens' = [tokens EXCEPT ![k] = Append(@, v)]
        /\ Cardinality(Finishes(v, Node)) >= T + 1
    BY <1>4 DEF AmplifyFinish, place, Amplify
  <2>2. Cardinality(Deciders(v)) >= T + 1
    <3>1. CASE \E n \in Node : v \in amplified[n]
      BY <3>1 DEF AmplifiedIsDecided
    <3>2. CASE \A n \in Node : v \notin amplified[n]
      BY <2>1, <3>2, FinishesAreDecisions, DecidersGrow, Sizes
    <3> QED
      BY <3>1, <3>2
  <2>3. AmplifiedIsDecided'
    BY <2>1, <2>2, DecidersGrow, Sizes DEF AmplifiedIsDecided, TypeOK
  <2>4. ASSUME NEW n \in Node, NEW i \in 1 .. Len(tokens'[n])
        PROVE  TokenGrounded(n, i)'
    <3>1. /\ tokens[n] \in Seq(BOOLEAN)
          /\ tokens'[n] = IF n = k THEN Append(tokens[n], v) ELSE tokens[n]
          /\ amplified'[n] = IF n = k THEN amplified[n] \union {v} ELSE amplified[n]
      BY <2>1 DEF TypeOK
    <3>2. CASE n = k /\ tokens'[n][i] = v
      BY <3>1, <3>2 DEF TokenGrounded
    <3>3. CASE n = k /\ tokens'[n][i] # v
      <4>1. i \in 1 .. Len(tokens[n]) /\ tokens'[n][i] = tokens[n][i]
        BY <3>1, <3>3
      <4>2. TokenGrounded(n, i)
        BY <4>1 DEF TokensGrounded
      <4>3. \A j \in 1 .. Len(tokens'[n]) :
                tokens'[n][j] = tokens'[n][i] => j \in 1 .. Len(tokens[n]) /\ tokens'[n][j] = tokens[n][j]
        BY <3>1, <3>3
      <4> QED
        BY <3>1, <4>1, <4>2, <4>3, DecidersGrow DEF TokenGrounded
    <3>4. CASE n # k
      <4>1. TokenGrounded(n, i) /\ tokens'[n] = tokens[n] /\ amplified'[n] = amplified[n]
        BY <3>1, <3>4 DEF TokensGrounded
      <4> QED
        BY <4>1, DecidersGrow DEF TokenGrounded
    <3> QED
      BY <3>2, <3>3, <3>4
  <2> QED
    BY <2>1, <2>3, <2>4 DEF OutputIsAmplified, TokensGrounded, TypeOK
<1>5. ASSUME NEW k \in Node, NEW v \in BOOLEAN, Output(k, v, Node) PROVE FinishInv'
  <2>1. /\ UNCHANGED <<loop, pc, tokens, amplified>>
        /\ output' = [output EXCEPT ![k] = {v}] /\ v \in amplified[k]
    BY <1>5 DEF Output, place
  <2>2. TokensGrounded'
    BY <2>1 DEF TokensGrounded, TokenGrounded, Deciders
  <2>3. AmplifiedIsDecided'
    BY <2>1 DEF AmplifiedIsDecided, Deciders
  <2> QED
    BY <2>1, <2>2, <2>3 DEF OutputIsAmplified, TypeOK
<1> QED
  BY <1>1, <1>2, <1>3, <1>4, <1>5, CoreSteps, Zenon

\* Whoever outputs a value has T + 1 deciders of it behind it, for any nodes,
\* inputs and coin, and however many goroutines are preempted: counting
\* messages, not senders, in handle_finish does no harm.
THEOREM OutputRestsOnDeciders == Spec => []OutputIsDecided
<1>1. Init => FinishInv
  BY DEF Init, FinishInv, TokensGrounded, TokenGrounded, AmplifiedIsDecided, OutputIsAmplified
<1>2. TypeOK /\ FinishInv => OutputIsDecided
  BY DEF FinishInv, AmplifiedIsDecided, OutputIsAmplified, OutputIsDecided
<1> QED
  BY <1>1, <1>2, TypeCorrect, FinishStep, PTL DEF Spec
-----------------------------------------------------------------------------
(* Agreement.  Who decides in a loop has heard 2T + 1 nodes that got there.  *)
(* Take a decider in the last loop any has reached: those that decided       *)
(* otherwise did so in an earlier loop and are still there, so they are      *)
(* among the others, of which there are T.                                   *)

AtOrBeyond(l) == {m \in Node : loop[m] >= l}

\* Only a node that came to a loop has broadcast a CONF there.
ConfIsBehind == \A n \in Node, l \in Loop : conf[n][l] # {} => loop[n] >= l

DecisionIsHeard ==
    \A n \in Node : pc[n] = "decided" => Cardinality(AtOrBeyond(loop[n])) >= 2 * T + 1

LastDecider ==
    \A n \in Node : pc[n] = "decided" =>
        \E t \in Node : pc[t] = "decided" /\ \A m \in Node : pc[m] = "decided" => loop[m] <= loop[t]

LoopInv == ConfIsBehind /\ DecisionIsHeard /\ LastDecider

\* Nodes that have reached a loop stay there or go beyond.
LEMMA BeyondGrows ==
    ASSUME TypeOK, [Next]_vars, NEW l \in Loop
    PROVE  /\ Cardinality(AtOrBeyond(l)) \in Nat
           /\ Cardinality(AtOrBeyond(l)') \in Nat
           /\ Cardinality(AtOrBeyond(l)') >= Cardinality(AtOrBeyond(l))
<1>1. loop \in [Node -> Int] /\ loop' \in [Node -> Int]
  BY StepType DEF TypeOK, Loop
<1>2. AtOrBeyond(l) \subseteq AtOrBeyond(l)' /\ AtOrBeyond(l)' \subseteq Node
  BY <1>1, Forward DEF AtOrBeyond, Loop
<1> QED
  BY <1>2, Subsets

\* Every step keeps the invariant of the loops.
LEMMA LoopStep ==
    ASSUME TypeOK, LoopInv, [Next]_vars
    PROVE  LoopInv'
<1> USE DEF LoopInv
<1>1. CASE UNCHANGED <<loop, pc, conf>>
  BY <1>1 DEF ConfIsBehind, DecisionIsHeard, LastDecider, AtOrBeyond
<1>2. ASSUME NEW k \in Node, SendConf(k, Node) PROVE LoopInv'
  <2>1. /\ UNCHANGED loop
        /\ \A n \in Node : pc'[n] = "decided" <=> pc[n] = "decided"
        /\ \A n \in Node, l \in Loop : conf'[n][l] # {} => conf[n][l] # {} \/ (n = k /\ l = loop[k])
    BY <1>2 DEF SendConf, TypeOK
  <2>2. ConfIsBehind'
    <3>1. loop[k] \in Int
      BY DEF TypeOK, Loop
    <3>2. ASSUME NEW n \in Node, NEW l \in Loop, conf'[n][l] # {} PROVE loop[n] >= l
      BY <2>1, <3>1, <3>2 DEF ConfIsBehind
    <3> QED
      BY <2>1, <3>2 DEF ConfIsBehind
  <2>3. DecisionIsHeard' /\ LastDecider'
    BY <2>1 DEF DecisionIsHeard, LastDecider, AtOrBeyond
  <2> QED
    BY <2>2, <2>3
<1>3. ASSUME NEW k \in Node, Decide(k, Node) PROVE LoopInv'
  <2>1. /\ UNCHANGED <<loop, conf>>
        /\ pc' = [pc EXCEPT ![k] = "decided"]
        /\ CoinReady(k, Node)
    BY <1>3 DEF Decide, votes
  <2>2. ConfIsBehind'
    BY <2>1 DEF ConfIsBehind
  <2>3. Cardinality(AtOrBeyond(loop[k])) >= 2 * T + 1
    <3> DEFINE l == loop[k]
    <3>1. l \in Loop
      BY DEF TypeOK
    <3>2. /\ AtOrBeyond(l) \subseteq Node
          /\ ConfVoters(l) \intersect Node \subseteq AtOrBeyond(l)
          /\ \A v \in BOOLEAN : ConfSenders(l, v) \intersect Node \subseteq AtOrBeyond(l)
      BY <3>1 DEF ConfIsBehind, AtOrBeyond, ConfVoters, ConfSenders, ConfSeenAs
    <3>3. \/ \E v \in BOOLEAN : Cardinality(ConfSenders(l, v) \intersect Node) >= 2 * T + 1
          \/ Cardinality(ConfVoters(l) \intersect Node) >= 2 * T + 1
      <4>1. bin[k][l] \subseteq BOOLEAN
        BY <3>1 DEF TypeOK
      <4> QED
        BY <2>1, <4>1, Zenon DEF CoinReady, Quorum
    <3>4. /\ Cardinality(AtOrBeyond(l)) \in Nat
          /\ Cardinality(ConfVoters(l) \intersect Node) \in Nat
          /\ Cardinality(ConfVoters(l) \intersect Node) <= Cardinality(AtOrBeyond(l))
      BY <3>2, Subsets
    <3>5. ASSUME NEW v \in BOOLEAN
          PROVE  /\ Cardinality(ConfSenders(l, v) \intersect Node) \in Nat
                 /\ Cardinality(ConfSenders(l, v) \intersect Node) <= Cardinality(AtOrBeyond(l))
      BY <3>2, Subsets
    <3>6. CASE \E v \in BOOLEAN : Cardinality(ConfSenders(l, v) \intersect Node) >= 2 * T + 1
      <4>1. PICK v \in BOOLEAN : Cardinality(ConfSenders(l, v) \intersect Node) >= 2 * T + 1
        BY <3>6
      <4> QED
        BY <3>4, <3>5, <4>1, Sizes
    <3>7. CASE Cardinality(ConfVoters(l) \intersect Node) >= 2 * T + 1
      BY <3>4, <3>7, Sizes
    <3> QED
      BY <3>3, <3>6, <3>7
  <2>4. DecisionIsHeard'
    BY <2>1, <2>3 DEF DecisionIsHeard, AtOrBeyond, TypeOK
  <2>5. LastDecider'
    <3>1. \A n \in Node : loop[n] \in Int
      BY DEF TypeOK, Loop
    <3>2. CASE \A n \in Node : pc[n] # "decided"
      BY <2>1, <3>1, <3>2 DEF LastDecider, TypeOK
    <3>3. CASE \E n \in Node : pc[n] = "decided"
      <4>1. PICK t \in Node :
                pc[t] = "decided" /\ \A m \in Node : pc[m] = "decided" => loop[m] <= loop[t]
        BY <3>3 DEF LastDecider
      <4>2. CASE loop[k] <= loop[t]
        BY <2>1, <3>1, <4>1, <4>2 DEF LastDecider, TypeOK
      <4>3. CASE loop[k] > loop[t]
        <5>1. pc'[k] = "decided"
          BY <2>1 DEF TypeOK
        <5>2. ASSUME NEW m \in Node, pc'[m] = "decided" PROVE loop'[m] <= loop'[k]
          BY <2>1, <3>1, <4>1, <4>3, <5>2 DEF TypeOK
        <5> QED
          BY <5>1, <5>2 DEF LastDecider
      <4> QED
        BY <3>1, <4>2, <4>3
    <3> QED
      BY <3>2, <3>3
  <2> QED
    BY <2>2, <2>4, <2>5
<1>4. ASSUME NEW k \in Node, NextLoop(k, Node) PROVE LoopInv'
  <2>1. /\ UNCHANGED conf /\ pc[k] # "decided"
        /\ pc' = [pc EXCEPT ![k] = "aux"]
        /\ loop' = [loop EXCEPT ![k] = loop[k] + 1]
    BY <1>4 DEF NextLoop, CoinReady
  <2>2. \A n \in Node : pc'[n] = "decided" <=> pc[n] = "decided"
    BY <2>1 DEF TypeOK
  <2>3. \A n \in Node : pc[n] = "decided" => loop'[n] = loop[n]
    BY <2>1 DEF TypeOK
  <2>4. ConfIsBehind'
    BY <2>1 DEF ConfIsBehind, TypeOK, Loop
  <2>5. DecisionIsHeard'
    <3> SUFFICES ASSUME NEW n \in Node, pc'[n] = "decided"
                 PROVE  Cardinality(AtOrBeyond(loop[n])') >= 2 * T + 1
      BY DEF DecisionIsHeard
    <3>1. /\ loop[n] \in Loop /\ loop'[n] = loop[n]
          /\ Cardinality(AtOrBeyond(loop[n])) >= 2 * T + 1
      BY <2>2, <2>3 DEF DecisionIsHeard, TypeOK
    <3> QED
      BY <3>1, BeyondGrows, Sizes
  <2>6. LastDecider'
    BY <2>2, <2>3 DEF LastDecider
  <2> QED
    BY <2>4, <2>5, <2>6
<1>5. ASSUME NEW k \in Node, NEW v \in BOOLEAN, AmplifyFinish(k, v, Node) \/ Output(k, v, Node)
      PROVE  LoopInv'
  BY <1>1, <1>5 DEF AmplifyFinish, Output, place, votes
<1> QED
  BY <1>1, <1>2, <1>3, <1>4, <1>5, CoreSteps DEF core

\* At most one value has T + 1 deciders.
LEMMA OneValueDecided ==
    ASSUME N = 3 * T + 1, TypeOK, LoopInv, NEW v \in BOOLEAN, NEW w \in BOOLEAN,
           Cardinality(Deciders(v)) >= T + 1, Cardinality(Deciders(w)) >= T + 1
    PROVE  v = w
<1>1. ASSUME NEW x \in BOOLEAN, Cardinality(Deciders(x)) >= T + 1
      PROVE  Deciders(x) # {}
  <2>1. T >= 0
    BY Sizes
  <2>2. Cardinality(Deciders(x)) # 0
    BY <1>1, <2>1, Sizes
  <2> QED
    BY <2>2, FS_EmptySet
<1>2. PICK t \in Node :
          pc[t] = "decided" /\ \A m \in Node : pc[m] = "decided" => loop[m] <= loop[t]
  BY <1>1 DEF LoopInv, LastDecider, Deciders
<1>3. ASSUME NEW x \in BOOLEAN, x # Coin[loop[t]] PROVE Cardinality(Deciders(x)) <= T
  <2> DEFINE Up == AtOrBeyond(loop[t])
  <2>1. \A m \in Node : loop[m] \in Int
    BY DEF TypeOK, Loop
  <2>2. Up \subseteq Node /\ Deciders(x) \subseteq Node \ Up
    <3>1. ASSUME NEW m \in Deciders(x) PROVE m \in Node \ Up
      BY <1>2, <1>3, <2>1, <3>1 DEF AtOrBeyond, Deciders
    <3> QED
      BY <3>1 DEF AtOrBeyond
  <2>3. Cardinality(Up) >= 2 * T + 1
    BY <1>2 DEF LoopInv, DecisionIsHeard
  <2>4. Cardinality(Node \ Up) = N - Cardinality(Up)
    <3>1. Cardinality(Node \ Up) = Cardinality(Node) - Cardinality(Node \intersect Up)
      BY NodeAssumption, FS_Difference
    <3>2. Node \intersect Up = Up
      BY <2>2
    <3> QED
      BY <3>1, <3>2 DEF N
  <2>5. /\ Cardinality(Up) \in Nat
        /\ Cardinality(Node \ Up) \in Nat /\ Cardinality(Deciders(x)) \in Nat
        /\ Cardinality(Deciders(x)) <= Cardinality(Node \ Up)
    BY <2>2, Subsets, Node \ Up \subseteq Node
  <2> QED
    BY <2>3, <2>4, <2>5, Sizes
<1>4. Coin[loop[t]] \in BOOLEAN
  BY LoopAssumption DEF TypeOK
<1>5. ASSUME NEW x \in BOOLEAN, Cardinality(Deciders(x)) >= T + 1
      PROVE  x = Coin[loop[t]]
  <2>1. Cardinality(Deciders(x)) \in Nat
    BY Subsets, Deciders(x) \subseteq Node DEF Deciders
  <2> QED
    BY <1>3, <1>5, <2>1, Sizes
<1> QED
  BY <1>5

\* With N = 3T + 1 nodes no two nodes output differently, for any inputs, any
\* coin and any number of preempted goroutines.
THEOREM OutputsAgree == N = 3 * T + 1 => (Spec => []Agreement)
<1> SUFFICES ASSUME N = 3 * T + 1 PROVE Spec => []Agreement
  OBVIOUS
<1>1. Init => LoopInv
  BY DEF Init, LoopInv, ConfIsBehind, DecisionIsHeard, LastDecider
<1>2. TypeOK /\ LoopInv /\ [Next]_vars => LoopInv'
  BY LoopStep
<1>3. TypeOK /\ OutputIsDecided /\ LoopInv => Agreement
  BY OneValueDecided DEF TypeOK, OutputIsDecided, Agreement
<1> QED
  BY <1>1, <1>2, <1>3, TypeCorrect, OutputRestsOnDeciders, PTL DEF Spec
-----------------------------------------------------------------------------
(* Where a vote comes from.  VAL, AUX and the array only grow, and what a    *)
(* step adds to them is known from a few variables.                          *)

\* Those that write the array at once.
Prompt == Node \ Slow

\* What sendval adds.
LEMMA SendValAdds ==
    ASSUME TypeOK, NEW k \in Node, NEW j \in Loop, NEW w \in BOOLEAN, SendVal(k, j, w)
    PROVE  \A n \in Node, l \in Loop :
               /\ val[n][l] \subseteq val'[n][l] /\ values[n][l] \subseteq values'[n][l]
               /\ \A v \in val'[n][l] \ val[n][l] : n = k /\ l = j /\ v = w
               /\ values'[n][l] \ values[n][l] \subseteq val'[n][l]
<1> SUFFICES ASSUME NEW n \in Node, NEW l \in Loop
             PROVE  /\ val[n][l] \subseteq val'[n][l] /\ values[n][l] \subseteq values'[n][l]
                    /\ \A v \in val'[n][l] \ val[n][l] : n = k /\ l = j /\ v = w
                    /\ values'[n][l] \ values[n][l] \subseteq val'[n][l]
  OBVIOUS
<1>1. val \in Votes /\ values \in Votes /\ 0 \in Loop
  BY Sizes DEF TypeOK, Votes
<1>2. /\ With(val, k, j, w)[n][l] = IF n = k /\ l = j THEN val[n][l] \union {w} ELSE val[n][l]
      /\ With(values, k, 0, TRUE)[n][l] = IF n = k /\ l = 0 THEN values[n][l] \union {TRUE} ELSE values[n][l]
  BY <1>1 DEF With, Votes
<1> QED
  BY <1>2 DEF SendVal

\* How a node comes to a loop with a value: it has looked at the coin.
Arrives(n, l, v) ==
    /\ l # 0 /\ loop[n] = l - 1 /\ CoinReady(n, Node)
    /\ values[n][l - 1] # {Coin[l - 1]}
    /\ v = NextInput(values[n][l - 1], Coin[l - 1])

\* A new VAL is the second input, an echo of T + 1 others, or what the node
\* carries into the loop.
LEMMA NewVal ==
    ASSUME TypeOK, [Next]_vars, NEW n \in Node, NEW l \in Loop,
           NEW v \in val'[n][l], v \notin val[n][l]
    PROVE  \/ n \in second' /\ v = TRUE /\ l = 0
           \/ Cardinality(Senders(val, l, v)) >= T + 1
           \/ Arrives(n, l, v)
<1> DEFINE Goal == \/ n \in second' /\ v = TRUE /\ l = 0
                   \/ Cardinality(Senders(val, l, v)) >= T + 1
                   \/ Arrives(n, l, v)
<1>1. ASSUME NEW k \in Node, SecondInput(k) PROVE Goal
  <2>1. PICK w \in BOOLEAN : w = TRUE /\ SendVal(k, 0, w)
    BY <1>1 DEF SecondInput
  <2>2. PICK j \in Loop : j = 0
    BY Sizes
  <2>3. SendVal(k, j, w)
    BY <2>1, <2>2
  <2>4. n = k /\ v = w /\ l = j
    BY <2>3, SendValAdds
  <2> QED
    BY <1>1, <2>1, <2>2, <2>4 DEF SecondInput
<1>2. ASSUME NEW k \in Node, NEW w \in BOOLEAN, AmplifyVal(k, w, Node) PROVE Goal
  <2>1. /\ SendVal(k, loop[k], w) /\ loop[k] \in Loop
        /\ Cardinality(Senders(val, loop[k], w) \intersect Node) >= T + 1
    BY <1>2 DEF AmplifyVal, Amplify, TypeOK
  <2>2. l = loop[k] /\ v = w
    BY <2>1, SendValAdds
  <2>3. Senders(val, l, v) \intersect Node = Senders(val, l, v)
    BY DEF Senders
  <2> QED
    BY <2>1, <2>2, <2>3
<1>3. ASSUME NEW k \in Node, NextLoop(k, Node) PROVE Goal
  <2> DEFINE j == loop[k]
             w == NextInput(values[k][j], Coin[j])
  <2>1. /\ CoinReady(k, Node) /\ values[k][j] # {Coin[j]}
        /\ val' = With(val, k, j + 1, w)
        /\ j \in Loop /\ j + 1 \in Loop
    BY <1>3, LoopAssumption DEF NextLoop, TypeOK, Loop
  <2>2. val \in Votes /\ w \in BOOLEAN
    BY <2>1, LoopAssumption DEF TypeOK, Votes, NextInput
  <2> HIDE DEF w
  <2>3. n = k /\ l = j + 1 /\ v = w
    BY <2>1, <2>2 DEF With, Votes
  <2>4. l # 0 /\ l - 1 = loop[n] /\ j = l - 1
    BY <2>1, <2>3 DEF Loop
  <2> QED
    BY <2>1, <2>3, <2>4 DEF Arrives, w
<1>4. ASSUME UNCHANGED val PROVE Goal
  BY <1>4
<1>5. ASSUME NEW k \in Node,
             \/ SlowBias(k)
             \/ \E j \in Loop, w \in BOOLEAN : SlowWrite(k, j, w)
             \/ \E w \in BOOLEAN : CountVal(k, w, Node)
             \/ SendConf(k, Node)
             \/ Decide(k, Node)
             \/ \E w \in BOOLEAN : AmplifyFinish(k, w, Node)
             \/ \E w \in BOOLEAN : Output(k, w, Node)
      PROVE  UNCHANGED val
  BY <1>5 DEF SlowBias, SlowWrite, CountVal, SendConf, Decide, AmplifyFinish, Output, votes
<1>6. CASE UNCHANGED vars
  BY <1>6 DEF vars, votes
<1> QED
  BY <1>1, <1>2, <1>3, <1>4, <1>5, <1>6, Zenon DEF Next, Step

\* A value is counted on the VAL of 2T + 1 nodes, its own among them, and a
\* prompt node has it in the array by then.
LEMMA NewBin ==
    ASSUME TypeOK, [Next]_vars, NEW n \in Node, NEW l \in Loop,
           NEW v \in bin'[n][l], v \notin bin[n][l]
    PROVE  /\ T > 0 /\ v \in val[n][l]
           /\ Cardinality(Senders(val, l, v)) >= 2 * T + 1
           /\ n \in Prompt => v \in values'[n][l]
<1> DEFINE Goal == /\ T > 0 /\ v \in val[n][l]
                   /\ Cardinality(Senders(val, l, v)) >= 2 * T + 1
                   /\ n \in Prompt => v \in values'[n][l]
<1>1. ASSUME NEW k \in Node, NEW w \in BOOLEAN, CountVal(k, w, Node) PROVE Goal
  <2>1. /\ T > 0 /\ loop[k] \in Loop /\ w \in val[k][loop[k]]
        /\ Cardinality(Senders(val, loop[k], w) \intersect Node) >= 2 * T + 1
        /\ bin' = With(bin, k, loop[k], w)
        /\ k \notin Slow => values' = With(values, k, loop[k], w)
        /\ bin \in Votes /\ values \in Votes
    BY <1>1 DEF CountVal, WriteValue, SecondTest, Quorum, TypeOK, Votes
  <2>2. n = k /\ l = loop[k] /\ v = w
    BY <2>1 DEF With, Votes
  <2>3. Senders(val, l, v) \intersect Node = Senders(val, l, v)
    BY DEF Senders
  <2>4. n \in Prompt => v \in values'[n][l]
    BY <2>1, <2>2 DEF Prompt, With, Votes
  <2> QED
    BY <2>1, <2>2, <2>3, <2>4
<1>2. ASSUME UNCHANGED bin PROVE Goal
  BY <1>2
<1>3. ASSUME NEW k \in Node,
             \/ SecondInput(k)
             \/ SlowBias(k)
             \/ \E j \in Loop, w \in BOOLEAN : SlowWrite(k, j, w)
             \/ \E w \in BOOLEAN : AmplifyVal(k, w, Node)
             \/ SendConf(k, Node)
             \/ Decide(k, Node)
             \/ NextLoop(k, Node)
             \/ \E w \in BOOLEAN : AmplifyFinish(k, w, Node)
             \/ \E w \in BOOLEAN : Output(k, w, Node)
      PROVE  UNCHANGED bin
  BY <1>3 DEF SecondInput, SlowBias, SlowWrite, AmplifyVal, SendConf, Decide, NextLoop,
              AmplifyFinish, Output, votes
<1>4. CASE UNCHANGED vars
  BY <1>4 DEF vars, votes
<1> QED
  BY <1>1, <1>2, <1>3, <1>4, Zenon DEF Next, Step

\* What is written to the array has been broadcast or counted.
LEMMA NewValue ==
    ASSUME TypeOK, [Next]_vars, NEW n \in Node, NEW l \in Loop,
           NEW v \in values'[n][l], v \notin values[n][l]
    PROVE  v \in val'[n][l] \union bin'[n][l]
<1> DEFINE Goal == v \in val'[n][l] \union bin'[n][l]
<1>0. val \in Votes /\ bin \in Votes /\ values \in Votes
  BY DEF TypeOK, Votes
<1>1. ASSUME NEW k \in Node, SecondInput(k) PROVE Goal
  BY <1>1, SendValAdds, Sizes DEF SecondInput
<1>2. ASSUME NEW k \in Node, NEW w \in BOOLEAN, AmplifyVal(k, w, Node) PROVE Goal
  BY <1>2, SendValAdds DEF AmplifyVal, TypeOK
<1>3. ASSUME NEW k \in Node, SlowBias(k) PROVE Goal
  <2>1. values' = With(values, k, 0, TRUE) /\ TRUE \in val[k][0] /\ val' = val
    BY <1>3 DEF SlowBias
  <2>2. n = k /\ l = 0 /\ v = TRUE
    BY <1>0, <2>1, Sizes DEF With, Votes
  <2> QED
    BY <2>1, <2>2
<1>4. ASSUME NEW k \in Node, NEW j \in Loop, NEW w \in BOOLEAN, SlowWrite(k, j, w) PROVE Goal
  <2>1. values' = With(values, k, j, w) /\ w \in bin[k][j] /\ bin' = bin
    BY <1>4 DEF SlowWrite, WriteValue
  <2>2. n = k /\ l = j /\ v = w
    BY <1>0, <2>1 DEF With, Votes
  <2> QED
    BY <2>1, <2>2
<1>5. ASSUME NEW k \in Node, NEW w \in BOOLEAN, CountVal(k, w, Node) PROVE Goal
  <2>1. /\ values' = With(values, k, loop[k], w) \/ values' = values
        /\ w \in val[k][loop[k]] /\ val' = val /\ loop[k] \in Loop
    BY <1>5 DEF CountVal, WriteValue, TypeOK
  <2>2. n = k /\ l = loop[k] /\ v = w
    BY <1>0, <2>1 DEF With, Votes
  <2> QED
    BY <2>1, <2>2
<1>6. ASSUME UNCHANGED values PROVE Goal
  BY <1>6
<1>7. ASSUME NEW k \in Node,
             \/ SendConf(k, Node)
             \/ Decide(k, Node)
             \/ NextLoop(k, Node)
             \/ \E w \in BOOLEAN : AmplifyFinish(k, w, Node)
             \/ \E w \in BOOLEAN : Output(k, w, Node)
      PROVE  UNCHANGED values
  BY <1>7 DEF SendConf, Decide, NextLoop, AmplifyFinish, Output, votes
<1>8. CASE UNCHANGED vars
  BY <1>8 DEF vars, votes
<1> QED
  BY <1>1, <1>2, <1>3, <1>4, <1>5, <1>6, <1>7, <1>8, Zenon DEF Next, Step

\* Votes and second inputs are never withdrawn, and inputs never change.
LEMMA VotesGrow ==
    ASSUME TypeOK, [Next]_vars
    PROVE  /\ input' = input /\ second \subseteq second' /\ second' \ second \subseteq Node
           /\ \A n \in Node, l \in Loop :
                /\ val[n][l] \subseteq val'[n][l]
                /\ bin[n][l] \subseteq bin'[n][l]
                /\ values[n][l] \subseteq values'[n][l]
<1> DEFINE Kept(f, g) == \A n \in Node, l \in Loop : f[n][l] \subseteq g[n][l]
           Goal == /\ input' = input /\ second \subseteq second' /\ second' \ second \subseteq Node
                   /\ Kept(val, val') /\ Kept(bin, bin') /\ Kept(values, values')
<1>0. val \in Votes /\ bin \in Votes /\ values \in Votes /\ 0 \in Loop /\ loop \in [Node -> Loop]
  BY Sizes DEF TypeOK, Votes
<1>a. ASSUME NEW f \in Votes, NEW k \in Node, NEW j \in Loop, NEW w \in BOOLEAN
      PROVE  Kept(f, With(f, k, j, w))
  BY <1>a DEF With, Votes
<1>b. ASSUME NEW k \in Node, NEW j \in Loop, NEW w \in BOOLEAN, SendVal(k, j, w)
      PROVE  Kept(val, val') /\ Kept(values, values')
  BY <1>b, SendValAdds
<1>1. ASSUME NEW k \in Node, SecondInput(k) PROVE Goal
  BY <1>0, <1>1, <1>b DEF SecondInput
<1>2. ASSUME NEW k \in Node, NEW w \in BOOLEAN, AmplifyVal(k, w, Node) PROVE Goal
  BY <1>0, <1>2, <1>b DEF AmplifyVal, inputs
<1>3. ASSUME NEW k \in Node, SlowBias(k) PROVE Goal
  BY <1>0, <1>3, <1>a DEF SlowBias, inputs
<1>4. ASSUME NEW k \in Node, NEW j \in Loop, NEW w \in BOOLEAN, SlowWrite(k, j, w) PROVE Goal
  BY <1>0, <1>4, <1>a DEF SlowWrite, WriteValue, inputs
<1>5. ASSUME NEW k \in Node, NEW w \in BOOLEAN, CountVal(k, w, Node) PROVE Goal
  BY <1>0, <1>5, <1>a DEF CountVal, WriteValue, inputs
<1>6. ASSUME NEW k \in Node, NextLoop(k, Node) PROVE Goal
  <2>1. loop[k] + 1 \in Loop /\ Coin[loop[k]] \in BOOLEAN
    BY <1>0, <1>6, LoopAssumption DEF NextLoop, Loop
  <2>2. NextInput(values[k][loop[k]], Coin[loop[k]]) \in BOOLEAN
    BY <2>1 DEF NextInput
  <2>3. Kept(val, val')
    BY <1>0, <1>6, <1>a, <2>1, <2>2 DEF NextLoop
  <2> QED
    BY <1>6, <2>3 DEF NextLoop, inputs
<1>7. ASSUME NEW k \in Node,
             \/ SendConf(k, Node)
             \/ Decide(k, Node)
             \/ \E w \in BOOLEAN : AmplifyFinish(k, w, Node)
             \/ \E w \in BOOLEAN : Output(k, w, Node)
      PROVE  Goal
  BY <1>7 DEF SendConf, Decide, AmplifyFinish, Output, votes, inputs
<1>8. CASE UNCHANGED vars
  BY <1>8 DEF vars, votes, inputs
<1>9. Goal
  BY <1>1, <1>2, <1>3, <1>4, <1>5, <1>6, <1>7, <1>8, Zenon DEF Next, Step
<1> QED
  BY <1>9

\* A CONF is sent once in a loop, holds the array as it was then, and comes
\* from a node that has counted a value.
LEMMA NewConf ==
    ASSUME TypeOK, [Next]_vars, NEW n \in Node, NEW l \in Loop, conf'[n][l] # conf[n][l]
    PROVE  /\ l = loop[n] /\ loop'[n] = loop[n] /\ pc[n] = "aux" /\ pc'[n] = "conf"
           /\ n \in Running /\ bin[n][l] # {} /\ conf'[n][l] = {values[n][l]}
<1> DEFINE Goal == /\ l = loop[n] /\ loop'[n] = loop[n] /\ pc[n] = "aux" /\ pc'[n] = "conf"
                   /\ n \in Running /\ bin[n][l] # {} /\ conf'[n][l] = {values[n][l]}
<1>1. ASSUME NEW k \in Node, SendConf(k, Node) PROVE Goal
  <2>1. /\ conf' = [conf EXCEPT ![k][loop[k]] = {values[k][loop[k]]}]
        /\ pc[k] = "aux" /\ pc' = [pc EXCEPT ![k] = "conf"]
        /\ k \in Running /\ bin[k][loop[k]] # {} /\ UNCHANGED loop
    BY <1>1 DEF SendConf, Open
  <2> QED
    BY <2>1 DEF TypeOK
<1>2. ASSUME UNCHANGED conf PROVE Goal
  BY <1>2
<1>3. ASSUME NEW k \in Node,
             \/ Decide(k, Node)
             \/ NextLoop(k, Node)
             \/ \E w \in BOOLEAN : AmplifyFinish(k, w, Node)
             \/ \E w \in BOOLEAN : Output(k, w, Node)
      PROVE  UNCHANGED conf
  BY <1>3 DEF Decide, NextLoop, AmplifyFinish, Output, votes
<1> QED
  BY <1>1, <1>2, <1>3, CoreSteps, Zenon DEF core

\* Who decides has looked at the coin and holds it and nothing else.
LEMMA NewDecision ==
    ASSUME TypeOK, [Next]_vars, NEW n \in Node, pc'[n] = "decided", pc[n] # "decided"
    PROVE  /\ CoinReady(n, Node) /\ loop'[n] = loop[n]
           /\ values[n][loop[n]] = {Coin[loop[n]]}
<1> DEFINE Goal == /\ CoinReady(n, Node) /\ loop'[n] = loop[n]
                   /\ values[n][loop[n]] = {Coin[loop[n]]}
<1>1. ASSUME NEW k \in Node, Decide(k, Node) PROVE Goal
  <2>1. pc' = [pc EXCEPT ![k] = "decided"]
    BY <1>1 DEF Decide
  <2>2. n = k
    BY <2>1 DEF TypeOK
  <2> QED
    BY <1>1, <2>2 DEF Decide
<1>2. ASSUME NEW k \in Node, SendConf(k, Node) \/ NextLoop(k, Node) PROVE Goal
  BY <1>2 DEF SendConf, NextLoop, TypeOK
<1>3. ASSUME UNCHANGED pc PROVE Goal
  BY <1>3
<1>4. ASSUME NEW k \in Node,
             \/ \E w \in BOOLEAN : AmplifyFinish(k, w, Node)
             \/ \E w \in BOOLEAN : Output(k, w, Node)
      PROVE  UNCHANGED pc
  BY <1>4 DEF AmplifyFinish, Output, place
<1> QED
  BY <1>1, <1>2, <1>3, <1>4, CoreSteps, Zenon DEF core

\* A node waits for AUX again only in a later loop.
LEMMA NewWait ==
    ASSUME TypeOK, [Next]_vars, NEW n \in Node, pc'[n] = "aux", pc[n] # "aux"
    PROVE  loop'[n] = loop[n] + 1
<1> DEFINE Goal == loop'[n] = loop[n] + 1
<1>1. ASSUME NEW k \in Node, NextLoop(k, Node) PROVE Goal
  <2>1. pc' = [pc EXCEPT ![k] = "aux"] /\ loop' = [loop EXCEPT ![k] = loop[k] + 1]
    BY <1>1 DEF NextLoop
  <2> QED
    BY <2>1 DEF TypeOK
<1>2. ASSUME NEW k \in Node, SendConf(k, Node) \/ Decide(k, Node) PROVE Goal
  BY <1>2 DEF SendConf, Decide, TypeOK
<1>3. ASSUME UNCHANGED pc PROVE Goal
  BY <1>3
<1>4. ASSUME NEW k \in Node,
             \/ \E w \in BOOLEAN : AmplifyFinish(k, w, Node)
             \/ \E w \in BOOLEAN : Output(k, w, Node)
      PROVE  UNCHANGED pc
  BY <1>4 DEF AmplifyFinish, Output, place
<1> QED
  BY <1>1, <1>2, <1>3, <1>4, CoreSteps, Zenon DEF core
-----------------------------------------------------------------------------
(* TRUE is held.  A prompt node carries into the next loop a value it holds  *)
(* in this one, and counts a value only on the VAL of 2T + 1 nodes: so TRUE  *)
(* spreads beyond the nodes that held it, or may be late with their writes,  *)
(* only when there are T + 1 of these.                                       *)

Backers == Holders \union Slow
WellBacked == Cardinality(Backers) >= T + 1

\* What the array holds, and what is counted, has been broadcast.
CountedIsVal ==
    \A n \in Node, l \in Loop : values[n][l] \subseteq val[n][l] /\ bin[n][l] \subseteq val[n][l]

PromptWrites == \A n \in Prompt, l \in Loop : bin[n][l] \subseteq values[n][l]

TrueIsBacked ==
    \A n \in Node, l \in Loop :
        /\ TRUE \in val[n][l] => n \in Backers \/ WellBacked
        /\ TRUE \in bin[n][l] => WellBacked

DecidesCounted ==
    \A n \in Prompt : pc[n] = "decided" => Coin[loop[n]] \in bin[n][loop[n]]

HeldInv == CountedIsVal /\ PromptWrites /\ TrueIsBacked /\ DecidesCounted

\* Backers stay backers.
LEMMA BackersGrow ==
    ASSUME TypeOK, [Next]_vars
    PROVE  /\ Backers \subseteq Backers' /\ second' \subseteq Backers'
           /\ WellBacked => WellBacked'
<1>1. Backers \subseteq Backers' /\ second' \subseteq Backers'
  BY VotesGrow DEF Backers, Holders
<1>2. Backers' \subseteq Node
  BY StepType, RoleAssumption, NodeAssumption DEF Backers, Holders, TypeOK
<1> QED
  BY <1>1, <1>2, Subsets, Sizes DEF WellBacked

\* T + 1 nodes that broadcast TRUE have backing.
LEMMA EnoughBacked ==
    ASSUME TypeOK, TrueIsBacked, NEW l \in Loop, Cardinality(Senders(val, l, TRUE)) >= T + 1
    PROVE  WellBacked
<1>1. CASE Senders(val, l, TRUE) \subseteq Backers
  <2> DEFINE S == Senders(val, l, TRUE)
  <2>1. S \subseteq Backers /\ Backers \subseteq Node /\ Cardinality(S) >= T + 1
    BY <1>1, RoleAssumption, NodeAssumption DEF Backers, Holders, TypeOK
  <2> HIDE DEF S
  <2>2. /\ Cardinality(S) \in Nat /\ Cardinality(Backers) \in Nat
        /\ Cardinality(S) <= Cardinality(Backers)
    BY <2>1, Subsets
  <2> QED
    BY <2>1, <2>2, Sizes DEF WellBacked
<1>2. CASE ~ Senders(val, l, TRUE) \subseteq Backers
  BY <1>2 DEF TrueIsBacked, Senders
<1> QED
  BY <1>1, <1>2

\* The array of a prompt node that may look at the coin holds something; if it
\* is one value, the node has counted it, and the CONF of 2T + 1 nodes for it.
LEMMA PromptReads ==
    ASSUME TypeOK, PromptWrites, NEW n \in Prompt, NEW l \in Loop, l = loop[n], CoinReady(n, Node)
    PROVE  /\ values[n][l] # {}
           /\ \A v \in BOOLEAN : values[n][l] = {v} =>
                v \in bin[n][l] /\ Cardinality(ConfSenders(l, v)) >= 2 * T + 1
<1>1. /\ bin[n][l] \subseteq values[n][l]
      /\ \/ \E v \in bin[n][l] : Cardinality(ConfSenders(l, v) \intersect Node) >= 2 * T + 1
         \/ bin[n][l] = BOOLEAN
  BY DEF PromptWrites, CoinReady, Quorum, Prompt
<1>2. \A v \in BOOLEAN : ConfSenders(l, v) \intersect Node = ConfSenders(l, v)
  BY DEF ConfSenders
<1>3. bin[n][l] \subseteq BOOLEAN
  BY DEF TypeOK, Prompt
<1> QED
  BY <1>1, <1>2, <1>3

\* A node goes on with a value the array holds, and with another than the coin
\* only if the array holds nothing else.
LEMMA NextInputIsRead ==
    ASSUME NEW R, R \subseteq BOOLEAN, R # {}, NEW c \in BOOLEAN, R # {c}
    PROVE  /\ NextInput(R, c) \in R
           /\ NextInput(R, c) # c => R = {NextInput(R, c)}
<1>1. R = {TRUE} \/ R = {FALSE} \/ R = BOOLEAN
  OBVIOUS
<1> QED
  BY <1>1 DEF NextInput

\* Every step keeps the invariant of the values held.
LEMMA HeldStep ==
    ASSUME TypeOK, HeldInv, [Next]_vars
    PROVE  HeldInv'
<1> USE DEF HeldInv
<1>1. CountedIsVal'
  <2> SUFFICES ASSUME NEW n \in Node, NEW l \in Loop
               PROVE  values'[n][l] \subseteq val'[n][l] /\ bin'[n][l] \subseteq val'[n][l]
    BY DEF CountedIsVal
  <2>1. val[n][l] \subseteq val'[n][l]
    BY VotesGrow
  <2>2. ASSUME NEW v \in bin'[n][l] PROVE v \in val'[n][l]
    BY <2>1, <2>2, NewBin DEF CountedIsVal
  <2>3. ASSUME NEW v \in values'[n][l] PROVE v \in val'[n][l]
    BY <2>1, <2>2, <2>3, NewValue DEF CountedIsVal
  <2> QED
    BY <2>2, <2>3
<1>2. PromptWrites'
  <2> SUFFICES ASSUME NEW n \in Prompt, NEW l \in Loop, NEW v \in bin'[n][l]
               PROVE  v \in values'[n][l]
    BY DEF PromptWrites, Prompt
  <2>1. n \in Node /\ values[n][l] \subseteq values'[n][l]
    BY VotesGrow DEF Prompt
  <2> QED
    BY <2>1, NewBin DEF PromptWrites
<1>3. TrueIsBacked'
  <2>1. ASSUME NEW n \in Node, NEW l \in Loop, TRUE \in val'[n][l]
        PROVE  n \in Backers' \/ WellBacked'
    <3> DEFINE Goal == n \in Backers' \/ WellBacked'
    <3>1. ASSUME n \in Backers \/ WellBacked PROVE Goal
      BY <3>1, BackersGrow
    <3>2. CASE TRUE \in val[n][l]
      BY <3>1, <3>2 DEF TrueIsBacked
    <3>3. CASE TRUE \notin val[n][l]
      <4>1. PICK v \in val'[n][l] : v = TRUE /\ v \notin val[n][l]
        BY <2>1, <3>3
      <4>2. \/ n \in second'
            \/ Cardinality(Senders(val, l, TRUE)) >= T + 1
            \/ Arrives(n, l, TRUE)
        BY <4>1, NewVal
      <4>3. CASE n \in second'
        BY <4>3, BackersGrow
      <4>4. CASE Cardinality(Senders(val, l, TRUE)) >= T + 1
        BY <3>1, <4>4, EnoughBacked
      <4>5. CASE Arrives(n, l, TRUE) /\ n \in Slow
        BY <3>1, <4>5 DEF Backers
      <4>6. CASE Arrives(n, l, TRUE) /\ n \notin Slow
        <5> DEFINE j == l - 1
        <5>1. /\ j \in Loop /\ j = loop[n] /\ CoinReady(n, Node) /\ n \in Prompt
              /\ Coin[j] \in BOOLEAN /\ values[n][j] # {Coin[j]}
              /\ TRUE = NextInput(values[n][j], Coin[j])
              /\ values[n][j] \subseteq BOOLEAN
          BY <4>6, LoopAssumption DEF Arrives, TypeOK, Loop, Prompt
        <5> HIDE DEF j
        <5>2. values[n][j] # {}
          BY <5>1, PromptReads
        <5>3. TRUE \in values[n][j]
          BY <5>1, <5>2, NextInputIsRead
        <5> QED
          BY <3>1, <5>1, <5>3 DEF CountedIsVal, TrueIsBacked
      <4> QED
        BY <4>2, <4>3, <4>4, <4>5, <4>6
    <3> QED
      BY <3>2, <3>3
  <2>2. ASSUME NEW n \in Node, NEW l \in Loop, TRUE \in bin'[n][l]
        PROVE  WellBacked'
    <3>1. CASE TRUE \in bin[n][l]
      BY <3>1, BackersGrow DEF TrueIsBacked
    <3>2. CASE TRUE \notin bin[n][l]
      <4>1. PICK v \in bin'[n][l] : v = TRUE /\ v \notin bin[n][l]
        BY <2>2, <3>2
      <4> DEFINE S == Senders(val, l, TRUE)
      <4>2. T > 0 /\ Cardinality(S) >= 2 * T + 1 /\ S \subseteq Node
        BY <4>1, NewBin DEF Senders
      <4> HIDE DEF S
      <4>3. Cardinality(S) \in Nat
        BY <4>2, Subsets
      <4>4. Cardinality(S) >= T + 1
        BY <4>2, <4>3, Sizes
      <4> QED
        BY <4>4, EnoughBacked, BackersGrow DEF S
    <3> QED
      BY <3>1, <3>2
  <2> QED
    BY <2>1, <2>2 DEF TrueIsBacked
<1>4. DecidesCounted'
  <2> SUFFICES ASSUME NEW n \in Prompt, pc'[n] = "decided"
               PROVE  Coin[loop'[n]] \in bin'[n][loop'[n]]
    BY DEF DecidesCounted, Prompt
  <2>1. n \in Node /\ loop[n] \in Loop /\ Coin[loop[n]] \in BOOLEAN
    BY LoopAssumption DEF Prompt, TypeOK
  <2>2. loop'[n] = loop[n] /\ bin[n][loop[n]] \subseteq bin'[n][loop[n]]
    BY <2>1, NewDecision, Forward, VotesGrow
  <2>3. CASE pc[n] = "decided"
    BY <2>2, <2>3 DEF DecidesCounted
  <2>4. CASE pc[n] # "decided"
    <3>1. CoinReady(n, Node) /\ values[n][loop[n]] = {Coin[loop[n]]}
      BY <2>1, <2>4, NewDecision
    <3> QED
      BY <2>1, <2>2, <3>1, PromptReads
  <2> QED
    BY <2>3, <2>4
<1> QED
  BY <1>1, <1>2, <1>3, <1>4

\* Nothing is counted, and TRUE is the input of those that broadcast it.
LEMMA HeldInit == Init => HeldInv
<1> SUFFICES ASSUME Init PROVE HeldInv
  OBVIOUS
<1>1. CountedIsVal /\ PromptWrites
  BY DEF Init, CountedIsVal, PromptWrites, Prompt
<1>2. TrueIsBacked
  BY DEF Init, TrueIsBacked, Backers, Holders
<1>3. DecidesCounted
  BY DEF Init, DecidesCounted, Prompt
<1> QED
  BY <1>1, <1>2, <1>3 DEF HeldInv

\* A decision of TRUE by a prompt node has T + 1 nodes behind it that held TRUE,
\* from the start or as a second input, or may be late with a write: for any
\* nodes, inputs, coin and preempted nodes.
THEOREM TrueHasHolders == Spec => []TrueIsHeld
<1>1. TypeOK /\ HeldInv => TrueIsHeld
  <2> SUFFICES ASSUME TypeOK, HeldInv, NEW n \in Deciders(TRUE), n \notin Slow
               PROVE  WellBacked
    BY DEF TrueIsHeld, WellBacked, Backers
  <2> QED
    BY DEF HeldInv, DecidesCounted, TrueIsBacked, Deciders, Prompt, TypeOK
<1> QED
  BY <1>1, HeldInit, HeldStep, TypeCorrect, PTL DEF Spec
-----------------------------------------------------------------------------
(* Prompt nodes decide the same.  Suppose one decides c in a loop and        *)
(* another not-c in a later one.  The later decider's value came from the    *)
(* first loop: some prompt node carried not-c out of it, having heard 2T + 1 *)
(* CONF that hold not-c alone, as the first decider heard 2T + 1 that hold c *)
(* alone.  A prompt node sent both, which sends one in a loop.               *)

Few == Cardinality(Slow) <= T

\* A CONF is sent once in a loop by a node that runs; a prompt node's is not
\* empty and in loop 0 holds TRUE if that is its input.
ConfsHold ==
    \A n \in Node, l \in Loop : conf[n][l] # {} =>
        /\ n \in Running
        /\ loop[n] > l \/ (loop[n] = l /\ pc[n] # "aux")
        /\ \E S \in SUBSET BOOLEAN :
              /\ conf[n][l] = {S}
              /\ n \in Prompt => S # {}
              /\ l = 0 /\ n \in Prompt /\ input[n] => TRUE \in S

BiasWritten == \A n \in Running \intersect Prompt : input[n] => TRUE \in values[n][0]

DeciderHeard ==
    \A n \in Prompt : pc[n] = "decided" =>
        Cardinality(ConfSenders(loop[n], Coin[loop[n]])) >= 2 * T + 1

\* What prompt nodes have broadcast in a loop.
Carried(l, w) == \E n \in Prompt : w \in val[n][l]

CarriedHeard ==
    \A l \in Loop \ {0}, w \in BOOLEAN :
        Carried(l, w) /\ w # Coin[l - 1] => Cardinality(ConfSenders(l - 1, w)) >= 2 * T + 1

Descends == \A l, k \in Loop, w \in BOOLEAN : k <= l /\ Carried(l, w) => Carried(k, w)

HeardInv == ConfsHold /\ BiasWritten /\ DeciderHeard /\ CarriedHeard /\ Descends

\* More than T nodes are not all slow.
LEMMA OneIsPrompt ==
    ASSUME Few, NEW X, X \subseteq Node, Cardinality(X) >= T + 1
    PROVE  \E n \in X : n \in Prompt
<1>1. ASSUME X \subseteq Slow PROVE FALSE
  <2>1. /\ Cardinality(X) \in Nat /\ Cardinality(Slow) \in Nat
        /\ Cardinality(X) <= Cardinality(Slow)
    BY <1>1, RoleAssumption, Subsets
  <2> QED
    BY <2>1, Sizes DEF Few
<1> QED
  BY <1>1 DEF Prompt

\* Those that have sent a CONF for a value stay so.
LEMMA ConfSendersGrow ==
    ASSUME TypeOK, ConfsHold, [Next]_vars, NEW l \in Loop, NEW v \in BOOLEAN
    PROVE  /\ ConfSenders(l, v) \subseteq ConfSenders(l, v)'
           /\ Cardinality(ConfSenders(l, v)) >= 2 * T + 1 =>
                Cardinality(ConfSenders(l, v)') >= 2 * T + 1
<1>1. ASSUME NEW n \in ConfSenders(l, v) PROVE n \in ConfSenders(l, v)'
  <2>1. n \in Node /\ conf[n][l] # {} /\ values[n][l] \subseteq values'[n][l]
    BY VotesGrow DEF ConfSenders, ConfSeenAs
  <2>2. loop[n] > l \/ (loop[n] = l /\ pc[n] # "aux")
    BY <2>1 DEF ConfsHold
  <2>3. l # loop[n] \/ pc[n] # "aux"
    BY <2>1, <2>2 DEF TypeOK, Loop
  <2>4. conf'[n][l] = conf[n][l]
    BY <2>1, <2>3, NewConf
  <2> QED
    BY <2>1, <2>4 DEF ConfSenders, ConfSeenAs
<1>2. ConfSenders(l, v)' \subseteq Node
  BY DEF ConfSenders
<1>3. ConfSenders(l, v) \subseteq ConfSenders(l, v)'
  BY <1>1
<1>4. /\ Cardinality(ConfSenders(l, v)') \in Nat
      /\ Cardinality(ConfSenders(l, v)) \in Nat
      /\ Cardinality(ConfSenders(l, v)') >= Cardinality(ConfSenders(l, v))
  BY <1>2, <1>3, Subsets
<1> QED
  BY <1>3, <1>4, Sizes

\* A value new to the prompt nodes of a loop was carried there from the one
\* before, and another value than the coin only on the CONF of 2T + 1 nodes.
LEMMA NewCarried ==
    ASSUME TypeOK, HeldInv, [Next]_vars, Few,
           NEW l \in Loop, l # 0, NEW w \in BOOLEAN, Carried(l, w)'
    PROVE  \/ Carried(l, w)
           \/ /\ l - 1 \in Loop /\ Carried(l - 1, w)
              /\ w # Coin[l - 1] => Cardinality(ConfSenders(l - 1, w)) >= 2 * T + 1
<1> DEFINE j == l - 1
           Goal == /\ j \in Loop /\ Carried(j, w)
                   /\ w # Coin[j] => Cardinality(ConfSenders(j, w)) >= 2 * T + 1
<1> SUFFICES ASSUME ~ Carried(l, w) PROVE Goal
  OBVIOUS
<1>1. PICK n \in Prompt : w \in val'[n][l]
  BY DEF Carried, Prompt
<1>2. n \in Node /\ w \notin val[n][l]
  BY DEF Carried, Prompt
<1>3. Cardinality(Senders(val, l, w)) >= T + 1 \/ Arrives(n, l, w)
  BY <1>1, <1>2, NewVal
<1>4. ~ Cardinality(Senders(val, l, w)) >= T + 1
  <2>1. Senders(val, l, w) \subseteq Node
    BY DEF Senders
  <2>2. \A m \in Senders(val, l, w) : m \notin Prompt
    BY DEF Senders, Carried
  <2> QED
    BY <2>1, <2>2, OneIsPrompt
<1>5. /\ j \in Loop /\ j = loop[n] /\ CoinReady(n, Node)
      /\ Coin[j] \in BOOLEAN /\ values[n][j] # {Coin[j]}
      /\ w = NextInput(values[n][j], Coin[j])
      /\ values[n][j] \subseteq BOOLEAN
  BY <1>2, <1>3, <1>4, LoopAssumption DEF Arrives, TypeOK, Loop
<1> HIDE DEF j
<1>6. /\ values[n][j] # {}
      /\ \A v \in BOOLEAN : values[n][j] = {v} => Cardinality(ConfSenders(j, v)) >= 2 * T + 1
  BY <1>5, PromptReads DEF HeldInv
<1>7. w \in values[n][j] /\ (w # Coin[j] => values[n][j] = {w})
  BY <1>5, <1>6, NextInputIsRead
<1> QED
  BY <1>2, <1>5, <1>6, <1>7 DEF Carried, HeldInv, CountedIsVal

\* The start.
LEMMA HeardInit == Init => HeardInv
<1> SUFFICES ASSUME Init PROVE HeardInv
  OBVIOUS
<1>1. ConfsHold /\ DeciderHeard
  BY DEF Init, ConfsHold, DeciderHeard, Prompt
<1>2. BiasWritten
  BY NodeAssumption, Sizes DEF Init, BiasWritten, Prompt
<1>3. CarriedHeard /\ Descends
  <2>1. \A l \in Loop \ {0}, w \in BOOLEAN : ~ Carried(l, w)
    BY DEF Init, Carried, Prompt
  <2> QED
    BY <2>1, Sizes DEF CarriedHeard, Descends, Loop
<1> QED
  BY <1>1, <1>2, <1>3 DEF HeardInv

\* Every step keeps the invariant of what was heard.
LEMMA HeardStep ==
    ASSUME TypeOK, HeldInv, HeardInv, [Next]_vars, Few
    PROVE  HeardInv'
<1> USE DEF HeardInv
<1>1. ConfsHold'
  <2> SUFFICES ASSUME NEW n \in Node, NEW l \in Loop, conf'[n][l] # {}
               PROVE  /\ n \in Running
                      /\ loop'[n] > l \/ (loop'[n] = l /\ pc'[n] # "aux")
                      /\ \E S \in SUBSET BOOLEAN :
                            /\ conf'[n][l] = {S}
                            /\ n \in Prompt => S # {}
                            /\ l = 0 /\ n \in Prompt /\ input'[n] => TRUE \in S
    BY DEF ConfsHold, Prompt
  <2>1. input' = input /\ loop[n] \in Int /\ loop'[n] \in Int /\ l \in Int
    BY VotesGrow, StepType DEF TypeOK, Loop
  <2>2. CASE conf'[n][l] # conf[n][l]
    <3>1. /\ l = loop[n] /\ loop'[n] = loop[n] /\ pc'[n] = "conf"
          /\ n \in Running /\ bin[n][l] # {} /\ conf'[n][l] = {values[n][l]}
      BY <2>2, NewConf
    <3>2. values[n][l] \in SUBSET BOOLEAN /\ (n \in Prompt => values[n][l] # {})
      BY <3>1 DEF TypeOK, HeldInv, PromptWrites
    <3>3. l = 0 /\ n \in Prompt /\ input[n] => TRUE \in values[n][l]
      BY <3>1 DEF BiasWritten
    <3> QED
      BY <2>1, <3>1, <3>2, <3>3
  <2>3. CASE conf'[n][l] = conf[n][l]
    <3>1. /\ n \in Running
          /\ loop[n] > l \/ (loop[n] = l /\ pc[n] # "aux")
          /\ \E S \in SUBSET BOOLEAN :
                /\ conf[n][l] = {S}
                /\ n \in Prompt => S # {}
                /\ l = 0 /\ n \in Prompt /\ input[n] => TRUE \in S
      BY <2>3, Zenon DEF ConfsHold
    <3>2. loop'[n] >= loop[n]
      BY Forward
    <3>3. pc'[n] = "aux" /\ pc[n] # "aux" => loop'[n] = loop[n] + 1
      BY NewWait
    <3>4. loop'[n] > l \/ (loop'[n] = l /\ pc'[n] # "aux")
      BY <2>1, <3>1, <3>2, <3>3
    <3> QED
      BY <2>1, <2>3, <3>1, <3>4
  <2> QED
    BY <2>2, <2>3
<1>2. BiasWritten'
  <2> SUFFICES ASSUME NEW n \in Running \intersect Prompt, input'[n] PROVE TRUE \in values'[n][0]
    BY DEF BiasWritten, Prompt
  <2> QED
    BY VotesGrow, Sizes DEF BiasWritten, Prompt
<1>3. DeciderHeard'
  <2> SUFFICES ASSUME NEW n \in Prompt, pc'[n] = "decided"
               PROVE  Cardinality(ConfSenders(loop[n], Coin[loop[n]])') >= 2 * T + 1
    BY DEF DeciderHeard, Prompt
  <2>1. n \in Node /\ loop[n] \in Loop /\ Coin[loop[n]] \in BOOLEAN
    BY LoopAssumption DEF Prompt, TypeOK
  <2>2. loop'[n] = loop[n]
    BY <2>1, NewDecision, Forward
  <2>3. Cardinality(ConfSenders(loop[n], Coin[loop[n]])) >= 2 * T + 1
    <3>1. CASE pc[n] = "decided"
      BY <3>1 DEF DeciderHeard
    <3>2. CASE pc[n] # "decided"
      BY <2>1, <3>2, NewDecision, PromptReads DEF HeldInv
    <3> QED
      BY <3>1, <3>2
  <2>4. PICK l \in Loop, v \in BOOLEAN : l = loop[n] /\ v = Coin[l]
    BY <2>1
  <2>5. Cardinality(ConfSenders(l, v)') >= 2 * T + 1
    BY <2>3, <2>4, ConfSendersGrow
  <2> QED
    BY <2>2, <2>4, <2>5
<1>4. CarriedHeard'
  <2> SUFFICES ASSUME NEW l \in Loop \ {0}, NEW w \in BOOLEAN, Carried(l, w)', w # Coin[l - 1]
               PROVE  Cardinality(ConfSenders(l - 1, w)') >= 2 * T + 1
    BY DEF CarriedHeard
  <2>1. Cardinality(ConfSenders(l - 1, w)) >= 2 * T + 1
    BY NewCarried DEF CarriedHeard
  <2>2. PICK j \in Loop : j = l - 1
    BY LoopAssumption DEF Loop
  <2>3. Cardinality(ConfSenders(j, w)') >= 2 * T + 1
    BY <2>1, <2>2, ConfSendersGrow
  <2> QED
    BY <2>2, <2>3
<1>5. Descends'
  <2>0. ASSUME NEW k \in Loop, NEW w \in BOOLEAN, Carried(k, w) PROVE Carried(k, w)'
    BY <2>0, VotesGrow DEF Carried, Prompt
  <2> SUFFICES ASSUME NEW l \in Loop, NEW k \in Loop, NEW w \in BOOLEAN, k <= l, Carried(l, w)'
               PROVE  Carried(k, w)'
    BY DEF Descends
  <2>1. CASE k = l
    BY <2>1
  <2>2. CASE k # l
    <3>1. l # 0 /\ k <= l - 1
      BY <2>2 DEF Loop
    <3>2. CASE Carried(l, w)
      BY <2>0, <3>2 DEF Descends
    <3>3. CASE ~ Carried(l, w)
      <4>1. l - 1 \in Loop /\ Carried(l - 1, w)
        BY <3>1, <3>3, NewCarried
      <4> QED
        BY <2>0, <3>1, <4>1 DEF Descends
    <3> QED
      BY <3>2, <3>3
  <2> QED
    BY <2>1, <2>2
<1> QED
  BY <1>1, <1>2, <1>3, <1>4, <1>5

\* With N = 3T + 1, 2T + 1 nodes cannot have sent CONF for each of two values.
LEMMA HeardOne ==
    ASSUME N = 3 * T + 1, Few, ConfsHold, NEW l \in Loop, NEW v \in BOOLEAN, NEW w \in BOOLEAN,
           Cardinality(ConfSenders(l, v)) >= 2 * T + 1,
           Cardinality(ConfSenders(l, w)) >= 2 * T + 1
    PROVE  v = w
<1> DEFINE A == ConfSenders(l, v)
           B == ConfSenders(l, w)
<1>1. A \subseteq Node /\ B \subseteq Node
  BY DEF ConfSenders
<1>2. Cardinality(A) >= 2 * T + 1 /\ Cardinality(B) >= 2 * T + 1
  OBVIOUS
<1>3. PICK n \in A \intersect B : n \in Prompt
  <2> HIDE DEF A, B
  <2>1. IsFiniteSet(A) /\ IsFiniteSet(B) /\ Cardinality(A) \in Nat /\ Cardinality(B) \in Nat
    BY <1>1, Subsets
  <2>2. Cardinality(A \union B) = Cardinality(A) + Cardinality(B) - Cardinality(A \intersect B)
    BY <2>1, FS_Union
  <2>3. /\ Cardinality(A \union B) \in Nat /\ Cardinality(A \intersect B) \in Nat
        /\ Cardinality(A \union B) <= N
    BY <1>1, Subsets, Sizes, A \union B \subseteq Node, A \intersect B \subseteq Node, Node \subseteq Node DEF N
  <2>4. Cardinality(A \intersect B) >= T + 1
    BY <1>2, <2>1, <2>2, <2>3, Sizes
  <2> QED
    BY <1>1, <2>4, OneIsPrompt
<1>4. PICK R \in conf[n][l], S \in conf[n][l] : R \subseteq {v} /\ S \subseteq {w}
  BY <1>3 DEF ConfSenders, ConfSeenAs
<1>5. PICK Q \in SUBSET BOOLEAN : conf[n][l] = {Q} /\ Q # {}
  BY <1>1, <1>3, <1>4, ZenonT(60) DEF ConfsHold
<1> QED
  BY <1>4, <1>5

\* Two prompt deciders decide the same.
LEMMA PromptDecideSame ==
    ASSUME N = 3 * T + 1, Few, TypeOK, HeldInv, HeardInv,
           NEW m \in Prompt, NEW n \in Prompt,
           pc[m] = "decided", pc[n] = "decided", loop[m] <= loop[n]
    PROVE  Coin[loop[m]] = Coin[loop[n]]
<1> SUFFICES ASSUME Coin[loop[m]] # Coin[loop[n]] PROVE FALSE
  OBVIOUS
<1> DEFINE v == Coin[loop[m]]
           w == Coin[loop[n]]
<1>1. /\ m \in Node /\ n \in Node /\ loop[m] \in Loop /\ loop[n] \in Loop
      /\ v \in BOOLEAN /\ w \in BOOLEAN
  BY LoopAssumption DEF Prompt, TypeOK
<1>2. PICK l \in Loop : l = loop[m] + 1 /\ l - 1 = loop[m] /\ l # 0 /\ l <= loop[n]
  <2>1. loop[m] # loop[n]
    OBVIOUS
  <2> QED
    BY <1>1, <2>1, LoopAssumption DEF Loop
<1>3. Carried(loop[n], w)
  BY <1>1 DEF HeldInv, DecidesCounted, CountedIsVal, Carried
<1>7. w # Coin[l - 1]
  BY <1>2
<1> HIDE DEF w
<1>4. Carried(l, w)
  BY <1>1, <1>2, <1>3 DEF HeardInv, Descends
<1>5. Cardinality(ConfSenders(loop[m], w)) >= 2 * T + 1
  BY <1>1, <1>2, <1>7, <1>4 DEF HeardInv, CarriedHeard
<1>6. Cardinality(ConfSenders(loop[m], v)) >= 2 * T + 1
  BY DEF HeardInv, DeciderHeard
<1> QED
  BY <1>1, <1>5, <1>6, HeardOne DEF HeardInv, w

\* What was heard is an invariant while at most T nodes are slow.
LEMMA HeardInvariant == Few => (Spec => [](TypeOK /\ HeldInv /\ HeardInv))
<1> SUFFICES ASSUME Few PROVE Spec => [](TypeOK /\ HeldInv /\ HeardInv)
  OBVIOUS
<1>1. Init => HeldInv /\ HeardInv
  BY HeldInit, HeardInit
<1>2. TypeOK /\ HeldInv /\ HeardInv /\ [Next]_vars => HeldInv' /\ HeardInv'
  BY HeldStep, HeardStep
<1> QED
  BY <1>1, <1>2, TypeCorrect, PTL DEF Spec

\* With N = 3T + 1, nodes that are not preempted between a signal and the write
\* that follows it decide the same, in whatever loops they decide, for any inputs
\* and any coin, and though up to T nodes are.
THEOREM DecidersAgree == N = 3 * T + 1 => (Spec => []DecideSame)
<1> SUFFICES ASSUME N = 3 * T + 1 PROVE Spec => []DecideSame
  OBVIOUS
<1>1. CASE Few
  <2>1. TypeOK /\ HeldInv /\ HeardInv => DecideSame
    <3> SUFFICES ASSUME TypeOK, HeldInv, HeardInv PROVE \E v \in BOOLEAN : Deciders(v) \subseteq Slow
      BY DEF DecideSame
    <3>1. CASE \A n \in Prompt : pc[n] # "decided"
      BY <3>1 DEF Deciders, Prompt
    <3>2. CASE \E n \in Prompt : pc[n] = "decided"
      <4>1. PICK n \in Prompt : pc[n] = "decided"
        BY <3>2
      <4>2. \A m \in Prompt : pc[m] = "decided" => Coin[loop[m]] = Coin[loop[n]]
        <5>1. \A m \in Prompt : loop[m] \in Int
          BY DEF Prompt, TypeOK, Loop
        <5> QED
          BY <1>1, <4>1, <5>1, PromptDecideSame
      <4>3. Coin[loop[n]] \in BOOLEAN
        BY LoopAssumption DEF Prompt, TypeOK
      <4> QED
        BY <4>2, <4>3 DEF Deciders, Prompt
    <3> QED
      BY <3>1, <3>2
  <2> QED
    BY <1>1, <2>1, HeardInvariant, PTL
<1>2. CASE ~ Few
  <2>1. DecideSame
    BY <1>2 DEF DecideSame, Few
  <2> QED
    BY <2>1, PTL
<1> QED
  BY <1>1, <1>2
-----------------------------------------------------------------------------
(* The refinement.  What the abstract agreement asks of an output was true   *)
(* when the value was decided, and stays so.                                 *)

\* The abstract module counts with an instance of Cardinality of its own.
LEMMA SameCardinality == \A S : Abstract!Cardinality(S) = Cardinality(S)
  BY DEF Abstract!Cardinality, Cardinality

\* The nodes that have sent a CONF run; those whose CONF in loop 0 holds FALSE
\* alone began with it.
LEMMA SendersStarted ==
    ASSUME Slow = {}, TypeOK, ConfsHold, NEW l \in Loop, NEW v \in BOOLEAN
    PROVE  /\ ConfSenders(l, v) \subseteq Abstract!Started(FALSE) \union Abstract!Started(TRUE)
           /\ ConfSenders(0, FALSE) \subseteq Abstract!Started(FALSE)
<1>1. \A n \in Node : input[n] \in BOOLEAN
  BY InputAssumption DEF TypeOK
<1>2. ASSUME NEW n \in ConfSenders(l, v)
      PROVE  n \in Abstract!Started(FALSE) \union Abstract!Started(TRUE)
  <2>1. n \in Node /\ conf[n][l] # {}
    BY DEF ConfSenders, ConfSeenAs
  <2>2. n \in Running
    BY <2>1 DEF ConfsHold
  <2> QED
    BY <1>1, <2>1, <2>2 DEF Abstract!Started
<1>3. ASSUME NEW n \in ConfSenders(0, FALSE)
      PROVE  n \in Abstract!Started(FALSE)
  <2>1. n \in Node /\ \E R \in conf[n][0] : R \subseteq {FALSE}
    BY DEF ConfSenders, ConfSeenAs
  <2>2. conf[n][0] # {} /\ 0 \in Loop /\ n \in Prompt
    BY <2>1, Sizes DEF Prompt
  <2>3. /\ n \in Running
        /\ \E S \in SUBSET BOOLEAN : conf[n][0] = {S} /\ (input[n] => TRUE \in S)
    BY <2>1, <2>2, Zenon DEF ConfsHold
  <2>4. ~ input[n]
    BY <2>1, <2>3
  <2> QED
    BY <1>1, <2>1, <2>3, <2>4 DEF Abstract!Started
<1> QED
  BY <1>2, <1>3

\* A value that has been amplified may be output.
LEMMA AmplifiedMayBeOutput ==
    ASSUME N = 3 * T + 1, Slow = {}, TypeOK, FinishInv, LoopInv, HeldInv, HeardInv,
           NEW k \in Node, NEW v \in BOOLEAN, v \in amplified[k]
    PROVE  Abstract!MayOutput(v)
<1>0. Abstract!T = T /\ Abstract!N = N
  BY SameCardinality DEF T, N, Abstract!T, Abstract!N
<1>1. Cardinality(Deciders(v)) >= T + 1
  BY DEF FinishInv, AmplifiedIsDecided
<1>2. UNION {output[n] : n \in Node} \subseteq {v}
  <2> SUFFICES ASSUME NEW n \in Node, NEW w \in output[n] PROVE w = v
    OBVIOUS
  <2>1. w \in BOOLEAN /\ Cardinality(Deciders(w)) >= T + 1
    BY DEF FinishInv, AmplifiedIsDecided, OutputIsAmplified, TypeOK
  <2> QED
    BY <1>1, <2>1, OneValueDecided
<1>3. PICK d \in Prompt : pc[d] = "decided" /\ Coin[loop[d]] = v
  <2>1. Few
    BY FS_EmptySet, Sizes DEF Few
  <2>2. Deciders(v) \subseteq Node
    BY DEF Deciders
  <2> QED
    BY <1>1, <2>1, <2>2, OneIsPrompt DEF Deciders
<1> DEFINE l == loop[d]
<1>4. d \in Node /\ l \in Loop
  BY DEF Prompt, TypeOK
<1>5. Cardinality(ConfSenders(l, v)) >= 2 * T + 1
  BY <1>3 DEF HeardInv, DeciderHeard
<1>6. ASSUME NEW X, NEW Y, X \subseteq Y, Y \subseteq Node, Cardinality(X) >= 2 * T + 1
      PROVE  Cardinality(Y) >= 2 * T + 1
  BY <1>6, Subsets, Sizes
<1>7. \A w \in BOOLEAN : Abstract!Started(w) \subseteq Node
  BY DEF Abstract!Started
<1>8. Cardinality(Abstract!Started(FALSE) \union Abstract!Started(TRUE)) >= 2 * T + 1
  BY <1>4, <1>5, <1>6, <1>7, SendersStarted DEF HeardInv
<1>9. v \in bin[d][l] /\ v \in val[d][l]
  BY <1>3, <1>4 DEF HeldInv, DecidesCounted, CountedIsVal
<1>10. CASE v = TRUE
  <2>1. Cardinality(Holders \union Slow) >= T + 1
    BY <1>4, <1>9, <1>10 DEF HeldInv, TrueIsBacked, WellBacked, Backers
  <2>2. Holders \union Slow = Abstract!Started(TRUE) \union second
    <3>1. Running \subseteq Node /\ \A n \in Node : input[n] \in BOOLEAN
      BY NodeAssumption, InputAssumption DEF TypeOK
    <3>2. {n \in Running : input[n]} = Abstract!Started(TRUE)
      BY <3>1 DEF Abstract!Started
    <3> QED
      BY <3>2 DEF Holders
  <2>3. Cardinality(Abstract!Started(TRUE) \union second) >= T + 1
    BY <2>1, <2>2
  <2> QED
    BY <1>0, <1>2, <1>8, <1>10, <2>3, SameCardinality DEF Abstract!MayOutput
<1>11. CASE v = FALSE
  <2>1. PICK j \in Loop : j = 1 /\ j - 1 = 0 /\ j # 0 /\ j <= l
    <3>1. l # 0
      BY <1>3, <1>11, LoopAssumption
    <3> QED
      BY <1>4, <3>1, LoopAssumption DEF Loop
  <2>2. Carried(j, v)
    BY <1>4, <1>9, <2>1 DEF HeardInv, Descends, Carried
  <2>3. Cardinality(ConfSenders(0, v)) >= 2 * T + 1
    <3>1. v # Coin[j - 1]
      BY <1>11, <2>1, LoopAssumption
    <3> QED
      BY <2>1, <2>2, <3>1 DEF HeardInv, CarriedHeard
  <2>4. ConfSenders(0, v) \subseteq Abstract!Started(v)
    BY <1>4, <1>11, SendersStarted DEF HeardInv
  <2>5. Cardinality(Abstract!Started(v)) >= 2 * T + 1
    BY <1>6, <1>7, <2>3, <2>4
  <2> QED
    BY <1>0, <1>2, <1>8, <1>11, <2>5, SameCardinality DEF Abstract!MayOutput
<1> QED
  BY <1>10, <1>11

\* With N = 3T + 1 and every write to the array in time, the agreement does what
\* BiasedAgreement promises to the multivalued agreement above it.
THEOREM Implements == N = 3 * T + 1 /\ Slow = {} => (Spec => Refinement)
<1> SUFFICES ASSUME N = 3 * T + 1, Slow = {} PROVE Spec => Refinement
  OBVIOUS
<1>1. Init => Abstract!Init
  <2> SUFFICES ASSUME Init PROVE Abstract!Init
    OBVIOUS
  <2>1. \A n \in Node : input[n] \in BOOLEAN
    BY InputAssumption DEF Init
  <2> QED
    BY <2>1 DEF Init, Abstract!Init
<1>2. TypeOK /\ FinishInv /\ LoopInv /\ HeldInv /\ HeardInv /\ [Next]_vars
        => [Abstract!Next]_(Abstract!vars)
  <2> SUFFICES ASSUME TypeOK, FinishInv, LoopInv, HeldInv, HeardInv, [Next]_vars
               PROVE  [Abstract!Next]_(Abstract!vars)
    OBVIOUS
  <2>1. ASSUME NEW k \in Node, SecondInput(k) PROVE Abstract!Next
    <3>1. k \in Running /\ second' = second \union {k} /\ UNCHANGED <<input, output>>
      BY <2>1 DEF SecondInput, Open, finishing
    <3> QED
      BY <3>1 DEF Abstract!Next, Abstract!HandSecond
  <2>2. ASSUME NEW k \in Node, NEW v \in BOOLEAN, Output(k, v, Node) PROVE Abstract!Next
    <3>1. /\ v \in amplified[k] /\ output[k] = {} /\ UNCHANGED <<input, second>>
          /\ output' = [output EXCEPT ![k] = {v}]
      BY <2>2 DEF Output, Open, inputs
    <3>2. Abstract!MayOutput(v)
      BY <3>1, AmplifiedMayBeOutput
    <3>3. UNION {output'[n] : n \in Node} = (UNION {output[n] : n \in Node}) \union {v}
      <4>1. \A n \in Node : output'[n] = IF n = k THEN {v} ELSE output[n]
        BY <3>1 DEF TypeOK
      <4>2. \A n \in Node : n # k => output'[n] = output[n]
        BY <4>1
      <4>3. output'[k] = {v} /\ output[k] = {}
        BY <3>1, <4>1
      <4> QED
        BY <4>2, <4>3
    <3>4. Abstract!Output(v)
      BY <3>1, <3>2, <3>3 DEF Abstract!Output
    <3> QED
      BY <3>4 DEF Abstract!Next
  <2>3. ASSUME NEW k \in Node,
               \/ SlowBias(k)
               \/ \E l \in Loop, v \in BOOLEAN : SlowWrite(k, l, v)
               \/ \E v \in BOOLEAN : AmplifyVal(k, v, Node)
               \/ \E v \in BOOLEAN : CountVal(k, v, Node)
               \/ SendConf(k, Node)
               \/ Decide(k, Node)
               \/ NextLoop(k, Node)
               \/ \E v \in BOOLEAN : AmplifyFinish(k, v, Node)
        PROVE  UNCHANGED <<input, second, output>>
    BY <2>3 DEF SlowBias, SlowWrite, AmplifyVal, CountVal, SendConf, Decide, NextLoop,
                AmplifyFinish, inputs, finishing
  <2>4. ASSUME UNCHANGED <<input, second, output>> PROVE UNCHANGED Abstract!vars
    BY <2>4 DEF Abstract!vars
  <2>5. CASE UNCHANGED vars
    BY <2>4, <2>5 DEF vars, inputs, finishing
  <2> QED
    BY <2>1, <2>2, <2>3, <2>4, <2>5, Zenon DEF Next, Step
<1>3. Few
  BY FS_EmptySet, Sizes DEF Few
<1>4. Spec => [](TypeOK /\ HeldInv /\ HeardInv)
  BY <1>3, HeardInvariant
<1>5. Init => FinishInv /\ LoopInv
  BY DEF Init, FinishInv, TokensGrounded, TokenGrounded, AmplifiedIsDecided, OutputIsAmplified,
         LoopInv, ConfIsBehind, DecisionIsHeard, LastDecider
<1>6. TypeOK /\ FinishInv /\ LoopInv /\ [Next]_vars => FinishInv' /\ LoopInv'
  BY FinishStep, LoopStep
<1> QED
  BY <1>1, <1>2, <1>4, <1>5, <1>6, PTL DEF Spec, Refinement, Abstract!Spec
-----------------------------------------------------------------------------
(* Where the agreement comes to rest.  No handler acts twice on the same, so  *)
(* within the bound Fairness comes down to no step of it being left; here     *)
(* every goroutine writes in time.                                            *)

\* What Launch waits for before its CONF, and before it looks at the coin.
AuxReady(n, l, from) ==
    \/ \E v \in bin[n][l] : Cardinality(Senders(aux, l, v) \intersect from) >= Quorum
    \/ bin[n][l] = BOOLEAN /\ AuxMessages(l, from) >= Quorum
ConfReady(n, l, from) ==
    \/ \E v \in bin[n][l] : Cardinality(ConfSenders(l, v) \intersect from) >= Quorum
    \/ bin[n][l] = BOOLEAN /\ Cardinality(ConfVoters(l) \intersect from) >= Quorum

\* Only nodes that run vote, and each votes in every loop it comes to.
OnlyRunningVote ==
    \A n \in Node \ Running, l \in Loop : val[n][l] = {} /\ aux[n][l] = {}
AllVote ==
    /\ \A n \in Running, l \in Loop : l <= loop[n] => val[n][l] # {}
    /\ \A n \in second : TRUE \in val[n][0]

\* What is counted was sent by 2T + 1 nodes, the first of it was sent on as AUX,
\* and beside it the array holds only the bias.
BinHeard ==
    \A n \in Node, l \in Loop : \A v \in bin[n][l] : Cardinality(Senders(val, l, v)) >= 2 * T + 1
FirstIsAux == \A n \in Node, l \in Loop : bin[n][l] # {} => bin[n][l] \intersect aux[n][l] # {}
ArrayIsCounted ==
    \A n \in Node, l \in Loop : \A v \in values[n][l] : v \in bin[n][l] \/ (l = 0 /\ v = TRUE)
ConfIsArray == \A n \in Node, l \in Loop : \A S \in conf[n][l] : S \subseteq values[n][l]

\* Who has gone on in a loop found what it waited for.
AuxPassed ==
    \A n \in Node, l \in Loop : l < loop[n] \/ (l = loop[n] /\ pc[n] # "aux") =>
        conf[n][l] # {} /\ AuxReady(n, l, Node)
ConfPassed ==
    \A n \in Node, l \in Loop : l < loop[n] \/ (l = loop[n] /\ pc[n] = "decided") =>
        ConfReady(n, l, Node)

TokensStand ==
    \A n \in Node : amplified[n] # {} \/ pc[n] = "decided" => tokens[n] # << >>

StageInv ==
    /\ OnlyRunningVote /\ AllVote /\ BinHeard /\ FirstIsAux /\ ArrayIsCounted
    /\ ConfIsArray /\ AuxPassed /\ ConfPassed /\ TokensStand

\* The steps that add votes, when no write is late.
LEMMA VoteSteps ==
    ASSUME Slow = {}, PromptWrites, [Next]_vars
    PROVE  \/ UNCHANGED <<second, val, bin, values, aux>>
           \/ \E k \in Node :
                \/ SecondInput(k)
                \/ \E w \in BOOLEAN : AmplifyVal(k, w, Node)
                \/ \E w \in BOOLEAN : CountVal(k, w, Node)
                \/ NextLoop(k, Node)
<1> DEFINE Goal == \/ UNCHANGED <<second, val, bin, values, aux>>
                   \/ \E k \in Node :
                        \/ SecondInput(k)
                        \/ \E w \in BOOLEAN : AmplifyVal(k, w, Node)
                        \/ \E w \in BOOLEAN : CountVal(k, w, Node)
                        \/ NextLoop(k, Node)
<1>1. ASSUME NEW k \in Node, \/ SecondInput(k)
                             \/ \E w \in BOOLEAN : AmplifyVal(k, w, Node)
                             \/ \E w \in BOOLEAN : CountVal(k, w, Node)
                             \/ NextLoop(k, Node)
      PROVE Goal
  BY <1>1
<1>2. ASSUME NEW k \in Node, SlowBias(k) PROVE Goal
  BY <1>2 DEF SlowBias
<1>3. ASSUME NEW k \in Node, NEW j \in Loop, NEW w \in BOOLEAN, SlowWrite(k, j, w) PROVE Goal
  BY <1>3 DEF SlowWrite, PromptWrites, Prompt
<1>4. ASSUME NEW k \in Node,
             \/ SendConf(k, Node)
             \/ Decide(k, Node)
             \/ \E w \in BOOLEAN : AmplifyFinish(k, w, Node)
             \/ \E w \in BOOLEAN : Output(k, w, Node)
      PROVE  Goal
  BY <1>4 DEF SendConf, Decide, AmplifyFinish, Output, votes, inputs
<1>5. CASE UNCHANGED vars
  BY <1>5 DEF vars, votes, inputs
<1> QED
  BY <1>1, <1>2, <1>3, <1>4, <1>5, Zenon DEF Next, Step

\* What a vote's step does to each node's votes.
LEMMA NewVotes ==
    ASSUME Slow = {}, TypeOK, PromptWrites, [Next]_vars, NEW n \in Node, NEW l \in Loop
    PROVE  /\ aux[n][l] \subseteq aux'[n][l]
           /\ n \notin Running => val'[n][l] = val[n][l] /\ aux'[n][l] = aux[n][l]
           /\ \A v \in values'[n][l] : v \in values[n][l] \union bin'[n][l] \/ (l = 0 /\ v = TRUE)
           /\ bin'[n][l] # {} => bin[n][l] # {} \/ bin'[n][l] \intersect aux'[n][l] # {}
           /\ n \in second' => n \in second \/ TRUE \in val'[n][0]
<1> DEFINE Goal == /\ aux[n][l] \subseteq aux'[n][l]
                   /\ n \notin Running => val'[n][l] = val[n][l] /\ aux'[n][l] = aux[n][l]
                   /\ \A v \in values'[n][l] :
                        v \in values[n][l] \union bin'[n][l] \/ (l = 0 /\ v = TRUE)
                   /\ bin'[n][l] # {} => bin[n][l] # {} \/ bin'[n][l] \intersect aux'[n][l] # {}
                   /\ n \in second' => n \in second \/ TRUE \in val'[n][0]
<1>0. val \in Votes /\ bin \in Votes /\ values \in Votes /\ aux \in Votes /\ loop \in [Node -> Loop]
  BY DEF TypeOK, Votes
<1>a. ASSUME NEW f \in Votes, NEW k \in Node, NEW j \in Loop, NEW w \in BOOLEAN
      PROVE  /\ f[n][l] \subseteq With(f, k, j, w)[n][l]
             /\ With(f, k, j, w)[n][l] \subseteq f[n][l] \union {w}
             /\ n # k \/ l # j => With(f, k, j, w)[n][l] = f[n][l]
             /\ w \in With(f, k, j, w)[k][j]
  BY <1>a DEF With, Votes
<1>b. ASSUME NEW k \in Running, k \in Node, NEW j \in Loop, NEW w \in BOOLEAN, SendVal(k, j, w),
             UNCHANGED bin, second' = second \/ (second' = second \union {k} /\ j = 0 /\ w = TRUE)
      PROVE  Goal
  <2>1. val' = With(val, k, j, w)
    BY <1>b DEF SendVal
  <2>2. \/ UNCHANGED <<aux, values>>
        \/ aux' = With(aux, k, 0, TRUE) /\ values' = With(values, k, 0, TRUE)
    BY <1>b DEF SendVal
  <2>3. n \notin Running => val'[n][l] = val[n][l]
    BY <1>0, <1>a, <1>b, <2>1
  <2>4. n \in second' => n \in second \/ TRUE \in val'[n][0]
    <3>1. CASE n = k /\ j = 0 /\ w = TRUE
      BY <1>0, <1>a, <1>b, <2>1, <3>1
    <3>2. CASE n # k \/ ~ (j = 0 /\ w = TRUE)
      BY <1>b, <3>2
    <3> QED
      BY <3>1, <3>2
  <2>5. /\ aux[n][l] \subseteq aux'[n][l]
        /\ n \notin Running => aux'[n][l] = aux[n][l]
        /\ \A v \in values'[n][l] : v \in values[n][l] \/ (l = 0 /\ v = TRUE)
    <3>1. CASE aux' = With(aux, k, 0, TRUE) /\ values' = With(values, k, 0, TRUE)
      <4>1. 0 \in Loop /\ TRUE \in BOOLEAN
        BY Sizes
      <4>2. /\ aux[n][l] \subseteq aux'[n][l]
            /\ n # k => aux'[n][l] = aux[n][l]
        BY <1>0, <1>a, <1>b, <3>1, <4>1
      <4>3. values'[n][l] \subseteq values[n][l] \union {TRUE}
        BY <1>0, <1>a, <1>b, <3>1, <4>1
      <4>4. l # 0 => values'[n][l] = values[n][l]
        BY <1>0, <1>a, <1>b, <3>1, <4>1
      <4> QED
        BY <1>b, <4>2, <4>3, <4>4
    <3> QED
      BY <2>2, <3>1
  <2> QED
    BY <1>b, <2>3, <2>4, <2>5
<1>1. ASSUME NEW k \in Node, SecondInput(k) PROVE Goal
  BY <1>b, <1>1, Sizes DEF SecondInput, Open
<1>2. ASSUME NEW k \in Node, NEW w \in BOOLEAN, AmplifyVal(k, w, Node) PROVE Goal
  <2>1. loop[k] \in Loop
    BY <1>0
  <2> QED
    BY <1>b, <1>2, <2>1 DEF AmplifyVal, Open, inputs
<1>3. ASSUME NEW k \in Node, NEW w \in BOOLEAN, CountVal(k, w, Node) PROVE Goal
  <2>0. loop[k] \in Loop /\ k \in Running
    BY <1>0, <1>3 DEF CountVal, Open
  <2>1. /\ bin' = With(bin, k, loop[k], w) /\ values' = With(values, k, loop[k], w)
        /\ aux' = IF bin[k][loop[k]] \union {w} = {w} THEN With(aux, k, loop[k], w) ELSE aux
        /\ UNCHANGED <<val, second>>
    BY <1>3 DEF CountVal, WriteValue, inputs
  <2>2. /\ aux[n][l] \subseteq aux'[n][l]
        /\ n \notin Running => aux'[n][l] = aux[n][l]
    BY <1>0, <1>a, <2>0, <2>1
  <2>3. \A v \in values'[n][l] : v \in values[n][l] \union bin'[n][l]
    BY <1>0, <1>a, <2>0, <2>1
  <2>4. bin'[n][l] # {} => bin[n][l] # {} \/ bin'[n][l] \intersect aux'[n][l] # {}
    <3>1. CASE n # k \/ l # loop[k]
      BY <1>0, <1>a, <2>0, <2>1, <3>1
    <3>2. CASE n = k /\ l = loop[k] /\ bin[n][l] = {}
      <4>1. aux' = With(aux, k, loop[k], w)
        BY <2>1, <3>2
      <4> QED
        BY <1>0, <1>a, <2>0, <2>1, <3>2, <4>1
    <3> QED
      BY <3>1, <3>2
  <2> QED
    BY <2>1, <2>2, <2>3, <2>4
<1>4. ASSUME NEW k \in Node, NextLoop(k, Node) PROVE Goal
  <2>1. /\ loop[k] + 1 \in Loop /\ k \in Running
        /\ val' = With(val, k, loop[k] + 1, NextInput(values[k][loop[k]], Coin[loop[k]]))
        /\ UNCHANGED <<bin, values, aux, second>>
    BY <1>0, <1>4, LoopAssumption DEF NextLoop, CoinReady, Open, Loop, inputs
  <2>2. NextInput(values[k][loop[k]], Coin[loop[k]]) \in BOOLEAN
    BY <1>0, LoopAssumption DEF NextInput
  <2>3. n \notin Running => val'[n][l] = val[n][l]
    BY <1>0, <1>a, <2>1, <2>2
  <2> QED
    BY <2>1, <2>3
<1>5. CASE UNCHANGED <<second, val, bin, values, aux>>
  BY <1>5
<1> QED
  BY <1>1, <1>2, <1>3, <1>4, <1>5, VoteSteps, Zenon

\* How a node goes on in a loop, and to the next.
LEMMA NewPlace ==
    ASSUME TypeOK, [Next]_vars, NEW n \in Node
    PROVE  /\ loop'[n] = loop[n] \/ /\ loop'[n] = loop[n] + 1 /\ pc'[n] = "aux"
                                    /\ CoinReady(n, Node) /\ val'[n][loop'[n]] # {}
           /\ pc[n] = "aux" /\ pc'[n] # "aux" =>
                AuxReady(n, loop[n], Node) /\ conf'[n][loop[n]] # {} /\ pc'[n] = "conf"
           /\ \/ tokens'[n] # << >>
              \/ /\ UNCHANGED <<tokens[n], amplified[n]>>
                 /\ pc'[n] = "decided" => pc[n] = "decided"
<1> DEFINE Goal == /\ loop'[n] = loop[n] \/ /\ loop'[n] = loop[n] + 1 /\ pc'[n] = "aux"
                                            /\ CoinReady(n, Node) /\ val'[n][loop'[n]] # {}
                   /\ pc[n] = "aux" /\ pc'[n] # "aux" =>
                        AuxReady(n, loop[n], Node) /\ conf'[n][loop[n]] # {} /\ pc'[n] = "conf"
                   /\ \/ tokens'[n] # << >>
                      \/ /\ UNCHANGED <<tokens[n], amplified[n]>>
                         /\ pc'[n] = "decided" => pc[n] = "decided"
<1>0. /\ loop \in [Node -> Loop] /\ pc \in [Node -> {"aux", "conf", "decided"}]
      /\ conf \in [Node -> [Loop -> SUBSET SUBSET BOOLEAN]] /\ tokens \in [Node -> Seq(BOOLEAN)]
      /\ amplified \in [Node -> SUBSET BOOLEAN]
      /\ val \in Votes /\ values \in Votes
  BY DEF TypeOK, Votes
<1>1. ASSUME NEW k \in Node, SendConf(k, Node) PROVE Goal
  <2>1. /\ conf' = [conf EXCEPT ![k][loop[k]] = {values[k][loop[k]]}]
        /\ pc' = [pc EXCEPT ![k] = "conf"] /\ UNCHANGED <<loop, tokens, amplified>>
        /\ AuxReady(k, loop[k], Node)
    BY <1>1 DEF SendConf, finishing, AuxReady
  <2>2. CASE n = k
    <3>1. conf'[n][loop[n]] = {values[k][loop[k]]}
      BY <1>0, <2>1, <2>2
    <3> QED
      BY <1>0, <2>1, <2>2, <3>1
  <2>3. CASE n # k
    BY <1>0, <2>1, <2>3
  <2> QED
    BY <2>2, <2>3
<1>2. ASSUME NEW k \in Node, Decide(k, Node) PROVE Goal
  <2>1. /\ tokens' = [tokens EXCEPT ![k] = Append(@, Coin[loop[k]])]
        /\ pc' = [pc EXCEPT ![k] = "decided"] /\ UNCHANGED <<loop, amplified>>
        /\ pc[k] = "conf" /\ Coin[loop[k]] \in BOOLEAN
    BY <1>0, <1>2, LoopAssumption DEF Decide, CoinReady
  <2>2. CASE n = k
    BY <1>0, <2>1, <2>2
  <2>3. CASE n # k
    BY <1>0, <2>1, <2>3
  <2> QED
    BY <2>2, <2>3
<1>3. ASSUME NEW k \in Node, NextLoop(k, Node) PROVE Goal
  <2> DEFINE w == NextInput(values[k][loop[k]], Coin[loop[k]])
  <2>1. /\ loop' = [loop EXCEPT ![k] = loop[k] + 1] /\ loop[k] + 1 \in Loop
        /\ pc' = [pc EXCEPT ![k] = "aux"] /\ UNCHANGED <<tokens, amplified>>
        /\ val' = With(val, k, loop[k] + 1, w) /\ CoinReady(k, Node)
    BY <1>0, <1>3, LoopAssumption DEF NextLoop, finishing, Loop
  <2>2. w \in BOOLEAN
    BY <1>0, LoopAssumption DEF NextInput
  <2> HIDE DEF w
  <2>3. w \in val'[k][loop[k] + 1]
    BY <1>0, <2>1, <2>2 DEF With, Votes
  <2> QED
    BY <1>0, <2>1, <2>3
<1>4. ASSUME NEW k \in Node, NEW v \in BOOLEAN, AmplifyFinish(k, v, Node) PROVE Goal
  <2>1. /\ tokens' = [tokens EXCEPT ![k] = Append(@, v)]
        /\ amplified' = [amplified EXCEPT ![k] = @ \union {v}] /\ UNCHANGED <<loop, pc>>
    BY <1>4 DEF AmplifyFinish, place
  <2> QED
    BY <1>0, <2>1
<1>5. ASSUME NEW k \in Node, NEW v \in BOOLEAN, Output(k, v, Node) PROVE Goal
  BY <1>5 DEF Output, place
<1>6. ASSUME UNCHANGED core PROVE Goal
  BY <1>6 DEF core
<1> QED
  BY <1>1, <1>2, <1>3, <1>4, <1>5, <1>6, CoreSteps, Zenon

\* What a node has found stays to be found.
LEMMA ReadyGrows ==
    ASSUME Slow = {}, TypeOK, PromptWrites, ConfsHold, [Next]_vars, NEW n \in Node, NEW l \in Loop
    PROVE  /\ AuxReady(n, l, Node) => AuxReady(n, l, Node)'
           /\ ConfReady(n, l, Node) => ConfReady(n, l, Node)'
<1>0. bin[n][l] \subseteq bin'[n][l] /\ bin'[n][l] \subseteq BOOLEAN
  BY VotesGrow, StepType DEF TypeOK
<1>1. ASSUME NEW v \in BOOLEAN
      PROVE  /\ Cardinality(Senders(aux, l, v) \intersect Node) \in Nat
             /\ Cardinality(Senders(aux, l, v) \intersect Node)' \in Nat
             /\ Cardinality(Senders(aux, l, v) \intersect Node)
                    <= Cardinality(Senders(aux, l, v) \intersect Node)'
  <2>1. \A m \in Node : aux[m][l] \subseteq aux'[m][l]
    BY NewVotes
  <2>2. /\ Senders(aux, l, v) \intersect Node \subseteq (Senders(aux, l, v) \intersect Node)'
        /\ (Senders(aux, l, v) \intersect Node)' \subseteq Node
    BY <2>1 DEF Senders
  <2> QED
    BY <2>2, Subsets
<1>2. AuxReady(n, l, Node) => AuxReady(n, l, Node)'
  <2>1. ASSUME NEW v \in bin[n][l], Cardinality(Senders(aux, l, v) \intersect Node) >= Quorum
        PROVE  AuxReady(n, l, Node)'
    <3>1. v \in BOOLEAN /\ v \in bin'[n][l]
      BY <1>0, <2>1
    <3>2. Cardinality(Senders(aux, l, v) \intersect Node)' >= Quorum
      <4>1. /\ Cardinality(Senders(aux, l, v) \intersect Node) \in Nat
            /\ Cardinality(Senders(aux, l, v) \intersect Node)' \in Nat
            /\ Cardinality(Senders(aux, l, v) \intersect Node)
                   <= Cardinality(Senders(aux, l, v) \intersect Node)'
        BY <1>1, <3>1
      <4> QED
        BY <2>1, <4>1, Sizes DEF Quorum
    <3> QED
      BY <3>1, <3>2 DEF AuxReady, Quorum
  <2>2. ASSUME bin[n][l] = BOOLEAN, AuxMessages(l, Node) >= Quorum PROVE AuxReady(n, l, Node)'
    <3>1. AuxMessages(l, Node)' >= Quorum
      <4> DEFINE f == Cardinality(Senders(aux, l, FALSE) \intersect Node)
                 t == Cardinality(Senders(aux, l, TRUE) \intersect Node)
                 g == Cardinality(Senders(aux, l, FALSE) \intersect Node)'
                 u == Cardinality(Senders(aux, l, TRUE) \intersect Node)'
      <4>1. f \in Nat /\ g \in Nat /\ f <= g
        BY <1>1
      <4>2. t \in Nat /\ u \in Nat /\ t <= u
        BY <1>1
      <4>3. f + t >= Quorum
        BY <2>2 DEF AuxMessages
      <4>4. AuxMessages(l, Node)' = g + u
        BY DEF AuxMessages
      <4> HIDE DEF f, t, g, u
      <4> QED
        BY <4>1, <4>2, <4>3, <4>4, Sizes DEF Quorum
    <3>2. bin'[n][l] = BOOLEAN
      BY <1>0, <2>2
    <3> QED
      BY <3>1, <3>2, Sizes DEF AuxReady, Quorum
  <2> QED
    BY <2>1, <2>2 DEF AuxReady
<1>3. ConfReady(n, l, Node) => ConfReady(n, l, Node)'
  <2>1. ASSUME NEW v \in bin[n][l], Cardinality(ConfSenders(l, v) \intersect Node) >= Quorum
        PROVE  ConfReady(n, l, Node)'
    <3>1. ConfSenders(l, v) \intersect Node = ConfSenders(l, v)
      BY DEF ConfSenders
    <3>2. ConfSenders(l, v)' \intersect Node = ConfSenders(l, v)'
      BY DEF ConfSenders
    <3>3. Cardinality(ConfSenders(l, v)') >= 2 * T + 1
      BY <1>0, <2>1, <3>1, ConfSendersGrow DEF Quorum
    <3> QED
      BY <1>0, <3>2, <3>3 DEF ConfReady, Quorum
  <2>2. ASSUME bin[n][l] = BOOLEAN, Cardinality(ConfVoters(l) \intersect Node) >= Quorum
        PROVE  ConfReady(n, l, Node)'
    <3>1. ASSUME NEW m \in ConfVoters(l) PROVE m \in ConfVoters(l)'
      <4>1. PICK R \in (SUBSET BOOLEAN) \ {{}} : ConfSeenAs(m, l, R)
        BY <3>1 DEF ConfVoters
      <4>2. m \in Node /\ conf[m][l] # {} /\ values[m][l] \subseteq values'[m][l]
        BY <3>1, <4>1, VotesGrow DEF ConfVoters, ConfSeenAs
      <4>3. loop[m] > l \/ (loop[m] = l /\ pc[m] # "aux")
        BY <4>2 DEF ConfsHold
      <4>6. l # loop[m] \/ pc[m] # "aux"
        BY <4>2, <4>3 DEF TypeOK, Loop
      <4>4. conf'[m][l] = conf[m][l]
        BY <4>2, <4>6, NewConf
      <4>5. ConfSeenAs(m, l, R)'
        BY <4>1, <4>2, <4>4 DEF ConfSeenAs
      <4> QED
        BY <4>2, <4>5 DEF ConfVoters
    <3>2. /\ ConfVoters(l) \intersect Node \subseteq ConfVoters(l)' \intersect Node
          /\ ConfVoters(l)' \intersect Node \subseteq Node
      BY <3>1
    <3>3. /\ Cardinality(ConfVoters(l) \intersect Node) <= Cardinality(ConfVoters(l)' \intersect Node)
          /\ Cardinality(ConfVoters(l) \intersect Node) \in Nat
          /\ Cardinality(ConfVoters(l)' \intersect Node) \in Nat
      BY <3>2, Subsets
    <3>4. Cardinality(ConfVoters(l)' \intersect Node) >= Quorum
      BY <2>2, <3>3, Sizes DEF Quorum
    <3>5. bin'[n][l] = BOOLEAN
      BY <1>0, <2>2
    <3> QED
      BY <3>4, <3>5 DEF ConfReady, Quorum
  <2> QED
    BY <2>1, <2>2 DEF ConfReady
<1> QED
  BY <1>2, <1>3

LEMMA StageInit == Init => StageInv
<1> SUFFICES ASSUME Init PROVE StageInv
  OBVIOUS
<1>1. /\ input \in [Node -> BOOLEAN] /\ 0 \in Loop
      /\ \A l \in Loop : l <= 0 => l = 0
  BY InputAssumption, Sizes DEF Init, Loop
<1>2. \A n \in Node, l \in Loop :
        /\ val[n][l] = IF l = 0 /\ n \in Running THEN {input[n]} ELSE {}
        /\ bin[n][l] = {} /\ conf[n][l] = {}
        /\ values[n][l] \subseteq (IF l = 0 THEN {TRUE} ELSE {})
        /\ n \notin Running => aux[n][l] = {}
        /\ loop[n] = 0 /\ pc[n] = "aux" /\ amplified[n] = {}
  BY <1>1 DEF Init
<1>3. second = {}
  BY DEF Init
<1>4. ASSUME NEW n \in Node PROVE /\ loop[n] = 0 /\ pc[n] = "aux" /\ amplified[n] = {}
                                  /\ \A l \in Loop : ~ (l < loop[n])
  <2>1. loop[n] = 0 /\ pc[n] = "aux" /\ amplified[n] = {}
    BY <1>1, <1>2
  <2> QED
    BY <2>1 DEF Loop
<1>5. OnlyRunningVote /\ BinHeard /\ FirstIsAux /\ ConfIsArray
  BY <1>2 DEF OnlyRunningVote, BinHeard, FirstIsAux, ConfIsArray
<1>6. AllVote
  <2>1. ASSUME NEW n \in Running, NEW l \in Loop, l <= loop[n] PROVE val[n][l] # {}
    <3>1. n \in Node
      BY NodeAssumption
    <3>2. l = 0
      BY <1>1, <1>4, <2>1, <3>1
    <3>3. val[n][l] = IF l = 0 /\ n \in Running THEN {input[n]} ELSE {}
      BY <1>2, <3>1
    <3> QED
      BY <2>1, <3>2, <3>3
  <2> QED
    BY <1>3, <2>1 DEF AllVote
<1>7. ArrayIsCounted
  <2> SUFFICES ASSUME NEW n \in Node, NEW l \in Loop, NEW v \in values[n][l]
               PROVE  l = 0 /\ v = TRUE
    BY DEF ArrayIsCounted
  <2> QED
    BY <1>2
<1>8. AuxPassed /\ ConfPassed /\ TokensStand
  BY <1>4 DEF AuxPassed, ConfPassed, TokensStand
<1> QED
  BY <1>5, <1>6, <1>7, <1>8 DEF StageInv

\* Every step keeps what is known of the way through a loop.
LEMMA StageStep ==
    ASSUME Slow = {}, TypeOK, HeldInv, HeardInv, StageInv, [Next]_vars
    PROVE  StageInv'
<1>0. /\ PromptWrites /\ ConfsHold
      /\ loop \in [Node -> Loop] /\ loop' \in [Node -> Loop]
      /\ \A l \in Loop : l \in Int
  BY StepType DEF HeldInv, HeardInv, TypeOK, Loop
<1>1. OnlyRunningVote'
  <2> SUFFICES ASSUME NEW n \in Node \ Running, NEW l \in Loop
               PROVE  val'[n][l] = {} /\ aux'[n][l] = {}
    BY DEF OnlyRunningVote
  <2>1. val'[n][l] = val[n][l] /\ aux'[n][l] = aux[n][l]
    BY <1>0, NewVotes
  <2> QED
    BY <2>1 DEF StageInv, OnlyRunningVote
<1>2. AllVote'
  <2>1. ASSUME NEW n \in Running, NEW l \in Loop, l <= loop'[n] PROVE val'[n][l] # {}
    <3>1. n \in Node
      BY NodeAssumption
    <3>2. CASE l <= loop[n]
      BY <3>1, <3>2, VotesGrow DEF StageInv, AllVote
    <3>3. CASE ~ (l <= loop[n])
      <4>1. loop'[n] = loop[n] + 1 /\ val'[n][loop'[n]] # {}
        BY <2>1, <3>1, <3>3, NewPlace
      <4>2. l = loop'[n]
        BY <1>0, <2>1, <3>1, <3>3, <4>1
      <4> QED
        BY <4>1, <4>2
    <3> QED
      BY <3>2, <3>3
  <2>2. ASSUME NEW n \in second' PROVE TRUE \in val'[n][0]
    <3>1. n \in Node /\ 0 \in Loop
      BY StepType, RoleAssumption, Sizes DEF TypeOK
    <3>2. val[n][0] \subseteq val'[n][0]
      BY <3>1, VotesGrow
    <3>3. n \in second \/ TRUE \in val'[n][0]
      BY <1>0, <3>1, NewVotes
    <3> QED
      BY <3>2, <3>3 DEF StageInv, AllVote
  <2> QED
    BY <2>1, <2>2 DEF AllVote
<1>3. BinHeard'
  <2> SUFFICES ASSUME NEW n \in Node, NEW l \in Loop, NEW v \in bin'[n][l]
               PROVE  Cardinality(Senders(val, l, v)') >= 2 * T + 1
    BY DEF BinHeard
  <2>1. v \in BOOLEAN
    BY StepType DEF TypeOK
  <2>2. Cardinality(Senders(val, l, v)) >= 2 * T + 1
    BY <2>1, NewBin DEF StageInv, BinHeard
  <2>3. Senders(val, l, v) \subseteq Senders(val, l, v)' /\ Senders(val, l, v)' \subseteq Node
    BY VotesGrow DEF Senders
  <2>4. /\ Cardinality(Senders(val, l, v)) <= Cardinality(Senders(val, l, v)')
        /\ Cardinality(Senders(val, l, v)) \in Nat /\ Cardinality(Senders(val, l, v)') \in Nat
    BY <2>3, Subsets
  <2> QED
    BY <2>2, <2>4, Sizes
<1>4. FirstIsAux'
  <2> SUFFICES ASSUME NEW n \in Node, NEW l \in Loop, bin'[n][l] # {}
               PROVE  bin'[n][l] \intersect aux'[n][l] # {}
    BY DEF FirstIsAux
  <2>1. bin[n][l] \subseteq bin'[n][l] /\ aux[n][l] \subseteq aux'[n][l]
    BY <1>0, VotesGrow, NewVotes
  <2>2. bin[n][l] # {} \/ bin'[n][l] \intersect aux'[n][l] # {}
    BY <1>0, NewVotes
  <2> QED
    BY <2>1, <2>2 DEF StageInv, FirstIsAux
<1>5. ArrayIsCounted'
  <2> SUFFICES ASSUME NEW n \in Node, NEW l \in Loop, NEW v \in values'[n][l]
               PROVE  v \in bin'[n][l] \/ (l = 0 /\ v = TRUE)
    BY DEF ArrayIsCounted
  <2>1. bin[n][l] \subseteq bin'[n][l]
    BY VotesGrow
  <2>2. \A w \in values'[n][l] : w \in values[n][l] \union bin'[n][l] \/ (l = 0 /\ w = TRUE)
    BY <1>0, NewVotes, Zenon
  <2> QED
    BY <2>1, <2>2 DEF StageInv, ArrayIsCounted
<1>6. ConfIsArray'
  <2> SUFFICES ASSUME NEW n \in Node, NEW l \in Loop, NEW S \in conf'[n][l]
               PROVE  S \subseteq values'[n][l]
    BY DEF ConfIsArray
  <2>1. values[n][l] \subseteq values'[n][l]
    BY VotesGrow
  <2>2. conf'[n][l] = conf[n][l] \/ conf'[n][l] = {values[n][l]}
    BY NewConf
  <2> QED
    BY <2>1, <2>2 DEF StageInv, ConfIsArray
<1>7. ASSUME NEW n \in Node, NEW l \in Loop, l < loop'[n] \/ (l = loop'[n] /\ pc'[n] # "aux")
      PROVE  conf'[n][l] # {} /\ AuxReady(n, l, Node)'
  <2>1. CASE l < loop[n] \/ (l = loop[n] /\ pc[n] # "aux")
    <3>1. conf[n][l] # {} /\ AuxReady(n, l, Node)
      BY <2>1 DEF StageInv, AuxPassed
    <3>2. conf'[n][l] # {}
      BY <3>1, NewConf
    <3> QED
      BY <1>0, <3>1, <3>2, ReadyGrows
  <2>2. CASE ~ (l < loop[n]) /\ ~ (l = loop[n] /\ pc[n] # "aux")
    <3>1. loop'[n] = loop[n]
      <4> SUFFICES ASSUME loop'[n] = loop[n] + 1, CoinReady(n, Node), pc'[n] = "aux" PROVE FALSE
        BY NewPlace
      <4>1. pc[n] = "conf"
        BY DEF CoinReady
      <4> QED
        BY <1>0, <1>7, <2>2, <4>1
    <3>2. l = loop[n] /\ pc[n] = "aux" /\ pc'[n] # "aux"
      BY <1>7, <2>2, <3>1
    <3>3. AuxReady(n, l, Node) /\ conf'[n][l] # {}
      BY <3>2, NewPlace
    <3> QED
      BY <1>0, <3>3, ReadyGrows
  <2> QED
    BY <2>1, <2>2
<1>8. ASSUME NEW n \in Node, NEW l \in Loop, l < loop'[n] \/ (l = loop'[n] /\ pc'[n] = "decided")
      PROVE  ConfReady(n, l, Node)'
  <2>1. CASE l < loop[n] \/ (l = loop[n] /\ pc[n] = "decided")
    BY <1>0, <2>1, ReadyGrows DEF StageInv, ConfPassed
  <2>2. CASE ~ (l < loop[n]) /\ ~ (l = loop[n] /\ pc[n] = "decided")
    <3>1. CoinReady(n, Node) /\ l = loop[n]
      <4>1. CASE loop'[n] = loop[n]
        <5>1. l = loop[n] /\ pc'[n] = "decided" /\ pc[n] # "decided"
          BY <1>8, <2>2, <4>1
        <5> QED
          BY <5>1, NewDecision
      <4>2. CASE loop'[n] # loop[n]
        <5>1. loop'[n] = loop[n] + 1 /\ CoinReady(n, Node) /\ pc'[n] = "aux"
          BY <4>2, NewPlace
        <5> QED
          BY <1>0, <1>8, <2>2, <5>1
      <4> QED
        BY <4>1, <4>2
    <3>2. ConfReady(n, l, Node)
      BY <3>1 DEF CoinReady, ConfReady
    <3> QED
      BY <1>0, <3>2, ReadyGrows
  <2> QED
    BY <2>1, <2>2
<1>9. TokensStand'
  BY NewPlace DEF StageInv, TokensStand
<1> QED
  BY <1>1, <1>2, <1>3, <1>4, <1>5, <1>6, <1>7, <1>8, <1>9 DEF StageInv, AuxPassed, ConfPassed

\* What a node found on its way through a loop is an invariant when no write is late.
LEMMA StageInvariant ==
    N = 3 * T + 1 /\ Slow = {}
        => (Spec => [](TypeOK /\ FinishInv /\ HeldInv /\ HeardInv /\ StageInv))
<1> SUFFICES ASSUME N = 3 * T + 1, Slow = {}
             PROVE  Spec => [](TypeOK /\ FinishInv /\ HeldInv /\ HeardInv /\ StageInv)
  OBVIOUS
<1>1. Few
  BY FS_EmptySet, Sizes DEF Few
<1>2. Spec => [](TypeOK /\ HeldInv /\ HeardInv)
  BY <1>1, HeardInvariant
<1>3. Init => FinishInv /\ StageInv
  <2>1. Init => FinishInv
    BY DEF Init, FinishInv, TokensGrounded, TokenGrounded, AmplifiedIsDecided, OutputIsAmplified
  <2> QED
    BY <2>1, StageInit
<1>4. TypeOK /\ HeldInv /\ HeardInv /\ FinishInv /\ StageInv /\ [Next]_vars => FinishInv' /\ StageInv'
  BY FinishStep, StageStep
<1> QED
  BY <1>2, <1>3, <1>4, PTL DEF Spec

\* No step of Fairness can be taken by n.
Waits(n) ==
    LET l == loop[n] IN
    /\ FALSE \in val[n][0] => n \notin Late \ second
    /\ \A v \in BOOLEAN :
        LET heard == Cardinality(Senders(val, l, v) \intersect Correct)
            finishes == Cardinality(Finishes(v, Correct)) IN
        /\ v \in val[n][l] \/ heard < Amplify
        /\ SecondTest /\ v \in val[n][l] => v \in bin[n][l] \/ heard < Quorum
        /\ v \in amplified[n] \/ finishes < Amplify
        /\ SecondTest /\ v \in amplified[n] => finishes < Quorum
    /\ pc[n] = "aux" => ~ AuxReady(n, l, Correct)
    /\ CoinReady(n, Correct) => values[n][l] # {Coin[l]} /\ l = MaxLoop

AtRest == \A n \in Correct : output[n] = {} => Waits(n)

\* The setting: only correct nodes run, and enough of them for a quorum.
OnlyCorrectRun ==
    /\ N = 3 * T + 1 /\ T >= 1
    /\ Slow = {}
    /\ Correct = Running /\ Cardinality(Correct) >= 2 * T + 1

Known == TypeOK /\ FinishInv /\ HeldInv /\ HeardInv /\ StageInv

\* All that counts is then sent by correct nodes.
LEMMA HeardFromAll ==
    ASSUME OnlyCorrectRun, Known, NEW l \in Loop, NEW v \in BOOLEAN
    PROVE  /\ Senders(val, l, v) \intersect Correct = Senders(val, l, v)
           /\ Senders(aux, l, v) \intersect Correct = Senders(aux, l, v) \intersect Node
           /\ ConfSenders(l, v) \intersect Correct = ConfSenders(l, v) \intersect Node
           /\ ConfVoters(l) \intersect Correct = ConfVoters(l) \intersect Node
<1>1. Correct = Running /\ Running \subseteq Node
  BY NodeAssumption DEF OnlyCorrectRun
<1>2. \A n \in Node : val[n][l] # {} \/ aux[n][l] # {} => n \in Running
  BY DEF Known, StageInv, OnlyRunningVote
<1>3. \A n \in Node : conf[n][l] # {} => n \in Running
  BY DEF Known, HeardInv, ConfsHold
<1> QED
  BY <1>1, <1>2, <1>3 DEF Senders, ConfSenders, ConfVoters, ConfSeenAs

\* Nodes of one loop that wait have counted the same; what any node has counted
\* there, they have.
LEMMA WaitersCount ==
    ASSUME OnlyCorrectRun, Known, NEW n \in Correct, Waits(n), NEW l \in Loop, l = loop[n]
    PROVE  /\ \A v \in BOOLEAN : Cardinality(Senders(val, l, v)) >= T + 1 => v \in val[n][l]
           /\ \A v \in BOOLEAN : Cardinality(Senders(val, l, v)) >= 2 * T + 1 => v \in bin[n][l]
           /\ \A m \in Node : bin[m][l] \subseteq bin[n][l]
<1>0. ASSUME NEW v \in BOOLEAN
      PROVE  /\ Cardinality(Senders(val, l, v)) \in Nat
             /\ Senders(val, l, v) \intersect Correct = Senders(val, l, v)
  <2>1. Senders(val, l, v) \subseteq Node
    BY DEF Senders
  <2> QED
    BY <2>1, Subsets, HeardFromAll
<1>1. ASSUME NEW v \in BOOLEAN, Cardinality(Senders(val, l, v)) >= T + 1 PROVE v \in val[n][l]
  BY <1>0, <1>1, Sizes DEF Waits, Amplify
<1>2. ASSUME NEW v \in BOOLEAN, Cardinality(Senders(val, l, v)) >= 2 * T + 1 PROVE v \in bin[n][l]
  <2>1. v \in val[n][l]
    BY <1>0, <1>1, <1>2, Sizes DEF OnlyCorrectRun
  <2>2. SecondTest
    BY Sizes DEF SecondTest, OnlyCorrectRun
  <2> QED
    BY <1>0, <1>2, <2>1, <2>2, Sizes DEF Waits, Quorum
<1>3. \A m \in Node : bin[m][l] \subseteq bin[n][l]
  <2> SUFFICES ASSUME NEW m \in Node, NEW v \in bin[m][l] PROVE v \in bin[n][l]
    OBVIOUS
  <2>1. v \in BOOLEAN
    BY DEF Known, TypeOK
  <2> QED
    BY <1>2, <2>1 DEF Known, StageInv, BinHeard
<1> QED
  BY <1>1, <1>2, <1>3

\* What a waiting node waits for has not come, from anybody.
LEMMA WaitersLack ==
    ASSUME OnlyCorrectRun, Known, NEW n \in Correct, output[n] = {}, Waits(n),
           NEW l \in Loop, l = loop[n]
    PROVE  /\ pc[n] = "aux" => ~ AuxReady(n, l, Node)
           /\ pc[n] = "conf" /\ l # MaxLoop => ~ ConfReady(n, l, Node)
<1>0. bin[n][l] \subseteq BOOLEAN /\ n \in Running
  BY NodeAssumption DEF Known, TypeOK, OnlyCorrectRun
<1>1. AuxReady(n, l, Node) => AuxReady(n, l, Correct)
  <2>1. AuxMessages(l, Node) = AuxMessages(l, Correct)
    BY HeardFromAll DEF AuxMessages
  <2> QED
    BY <1>0, <2>1, HeardFromAll DEF AuxReady
<1>2. ConfReady(n, l, Node) => ConfReady(n, l, Correct)
  BY <1>0, HeardFromAll DEF ConfReady
<1>3. pc[n] = "conf" /\ ConfReady(n, l, Correct) => CoinReady(n, Correct)
  BY <1>0 DEF CoinReady, ConfReady, Open
<1> QED
  BY <1>1, <1>2, <1>3 DEF Waits

\* So none waits in a loop, within the bound, that another has come through.
LEMMA NoneWaitsBehind ==
    ASSUME OnlyCorrectRun, Known, NEW n \in Correct, output[n] = {}, Waits(n),
           NEW l \in Loop, l = loop[n], l # MaxLoop, pc[n] # "decided", NEW m \in Node
    PROVE  ~ (l < loop[m]) /\ ~ (l = loop[m] /\ pc[m] = "decided")
<1> SUFFICES ASSUME l < loop[m] \/ (l = loop[m] /\ pc[m] = "decided") PROVE FALSE
  OBVIOUS
<1>1. AuxReady(m, l, Node) /\ ConfReady(m, l, Node)
  BY DEF Known, StageInv, AuxPassed, ConfPassed
<1>2. bin[m][l] \subseteq bin[n][l] /\ bin[n][l] \subseteq BOOLEAN
  <2>1. n \in Node
    BY NodeAssumption
  <2>2. \A k \in Node : bin[k][l] \subseteq bin[n][l]
    BY WaitersCount
  <2> QED
    BY <2>1, <2>2 DEF Known, TypeOK
<1>3. AuxReady(n, l, Node) /\ ConfReady(n, l, Node)
  BY <1>1, <1>2 DEF AuxReady, ConfReady
<1>4. pc[n] = "aux" \/ pc[n] = "conf"
  BY NodeAssumption DEF Known, TypeOK
<1> QED
  BY <1>3, <1>4, WaitersLack

\* A set covered by two is no larger than both.
LEMMA Covered ==
    ASSUME NEW P, NEW A, NEW B, A \subseteq Node, B \subseteq Node, P \subseteq A \union B
    PROVE  /\ Cardinality(P) \in Nat /\ Cardinality(A) \in Nat /\ Cardinality(B) \in Nat
           /\ Cardinality(P) <= Cardinality(A) + Cardinality(B)
<1>1. /\ IsFiniteSet(A) /\ IsFiniteSet(B) /\ Cardinality(A) \in Nat /\ Cardinality(B) \in Nat
      /\ Cardinality(A \intersect B) \in Nat
  BY Subsets, A \intersect B \subseteq Node
<1>2. Cardinality(P) \in Nat /\ Cardinality(A \union B) \in Nat
      /\ Cardinality(P) <= Cardinality(A \union B)
  BY Subsets, A \union B \subseteq Node
<1>3. Cardinality(A \union B) = Cardinality(A) + Cardinality(B) - Cardinality(A \intersect B)
  BY <1>1, FS_Union
<1> QED
  BY <1>1, <1>2, <1>3

\* 2T + 1 nodes that wait in the same loop, none behind them.
Gathered(P, l) ==
    /\ P \subseteq Correct /\ Cardinality(P) >= 2 * T + 1
    /\ \A m \in P : output[m] = {} /\ Waits(m) /\ loop[m] = l /\ pc[m] # "decided"

\* They have counted the same, and something.
LEMMA GatheredCount ==
    ASSUME OnlyCorrectRun, Known, NEW l \in Loop, NEW P, Gathered(P, l)
    PROVE  \E B \in SUBSET BOOLEAN :
              /\ B # {} /\ \A m \in P : bin[m][l] = B
              /\ \A v \in BOOLEAN : Cardinality(Senders(val, l, v)) >= T + 1 => v \in B
<1>0. P \subseteq Node /\ P \subseteq Running /\ Cardinality(P) \in Nat
  BY NodeAssumption, Subsets DEF Gathered
<1>1. PICK p \in P : TRUE
  BY FS_EmptySet, Sizes DEF Gathered, OnlyCorrectRun
<1> DEFINE B == bin[p][l]
<1>2. B \in SUBSET BOOLEAN /\ \A m \in P : bin[m][l] = B
  <2>1. ASSUME NEW m \in P, NEW k \in P PROVE bin[k][l] \subseteq bin[m][l]
    BY <1>0, WaitersCount DEF Gathered
  <2>2. p \in Node /\ bin[p][l] \subseteq BOOLEAN
    BY <1>0, <1>1 DEF Known, TypeOK
  <2>3. \A m \in P : bin[m][l] = B
    BY <1>1, <2>1
  <2> QED
    BY <2>2, <2>3
<1>3. ASSUME NEW v \in BOOLEAN, Cardinality(Senders(val, l, v)) >= T + 1 PROVE v \in B
  <2>1. P \subseteq Senders(val, l, v) /\ Senders(val, l, v) \subseteq Node
    BY <1>0, <1>3, WaitersCount DEF Gathered, Senders
  <2>2. Cardinality(Senders(val, l, v)) >= 2 * T + 1
    <3>1. Cardinality(Senders(val, l, v)) \in Nat /\ Cardinality(P) <= Cardinality(Senders(val, l, v))
      BY <2>1, Subsets
    <3> QED
      BY <1>0, <3>1, Sizes DEF Gathered
  <2> QED
    BY <1>1, <2>2, WaitersCount DEF Gathered
<1>4. B # {}
  <2> DEFINE F == Senders(val, l, FALSE)
             R == Senders(val, l, TRUE)
  <2>1. F \subseteq Node /\ R \subseteq Node
    BY DEF Senders
  <2>2. P \subseteq F \union R
    <3> SUFFICES ASSUME NEW m \in P PROVE FALSE \in val[m][l] \/ TRUE \in val[m][l]
      BY <1>0 DEF Senders
    <3>1. loop[m] = l /\ l <= l
      BY DEF Gathered, Loop
    <3>2. val[m][l] # {}
      BY <1>0, <3>1 DEF Known, StageInv, AllVote
    <3>3. val[m][l] \subseteq BOOLEAN
      BY <1>0 DEF Known, TypeOK
    <3> QED
      BY <3>2, <3>3
  <2>3. F = Senders(val, l, FALSE) /\ R = Senders(val, l, TRUE)
    OBVIOUS
  <2> HIDE DEF F, R
  <2>4. Cardinality(F) >= T + 1 \/ Cardinality(R) >= T + 1
    <3>1. /\ Cardinality(P) <= Cardinality(F) + Cardinality(R)
          /\ Cardinality(F) \in Nat /\ Cardinality(R) \in Nat
      BY <2>1, <2>2, Covered
    <3> QED
      BY <1>0, <3>1, Sizes DEF Gathered
  <2> QED
    BY <1>3, <2>3, <2>4
<1> QED
  BY <1>2, <1>3, <1>4

\* A CONF is one set that is not empty.
LEMMA ConfGiven ==
    ASSUME ConfsHold, NEW n \in Node, n \in Prompt, NEW l \in Loop, conf[n][l] # {}
    PROVE  \E S \in SUBSET BOOLEAN : conf[n][l] = {S} /\ S # {}
<1>1. /\ n \in Running
      /\ loop[n] > l \/ (loop[n] = l /\ pc[n] # "aux")
      /\ \E S \in SUBSET BOOLEAN :
            /\ conf[n][l] = {S}
            /\ n \in Prompt => S # {}
            /\ l = 0 /\ n \in Prompt /\ input[n] => TRUE \in S
  BY Zenon DEF ConfsHold
<1> QED
  BY <1>1, Zenon

\* They have all sent their CONF.
LEMMA GatheredConf ==
    ASSUME OnlyCorrectRun, Known, NEW l \in Loop, NEW P, Gathered(P, l),
           NEW B \in SUBSET BOOLEAN, B # {}, \A m \in P : bin[m][l] = B
    PROVE  \A m \in P : /\ pc[m] = "conf"
                        /\ \E S \in SUBSET values[m][l] : S # {} /\ conf[m][l] = {S}
<1>0. P \subseteq Node /\ P \subseteq Correct /\ Cardinality(P) \in Nat /\ T \in Int
      /\ Cardinality(P) >= 2 * T + 1
  BY NodeAssumption, Subsets, Sizes DEF Gathered
<1> DEFINE F == Senders(aux, l, FALSE) \intersect Node
           R == Senders(aux, l, TRUE) \intersect Node
<1>1. F \subseteq Node /\ R \subseteq Node
  OBVIOUS
<1>2. \A m \in P : B \intersect aux[m][l] # {}
  BY <1>0 DEF Known, StageInv, FirstIsAux
<1>3. ASSUME NEW m \in P PROVE AuxReady(m, l, Node)
  <2>1. CASE B = BOOLEAN
    <3>1. P \subseteq F \union R
      BY <1>0, <1>2, <2>1, ZenonT(60) DEF Senders
    <3>2. AuxMessages(l, Node) = Cardinality(F) + Cardinality(R)
      BY DEF AuxMessages
    <3> HIDE DEF F, R
    <3>3. AuxMessages(l, Node) >= 2 * T + 1
      <4>1. /\ Cardinality(P) <= Cardinality(F) + Cardinality(R)
            /\ Cardinality(F) \in Nat /\ Cardinality(R) \in Nat
        BY <1>1, <3>1, Covered
      <4> QED
        BY <1>0, <3>2, <4>1
    <3> QED
      BY <2>1, <3>3 DEF AuxReady, Quorum
  <2>2. ASSUME NEW v \in BOOLEAN, B = {v} PROVE AuxReady(m, l, Node)
    <3>1. P \subseteq Senders(aux, l, v) \intersect Node
      BY <1>0, <1>2, <2>2 DEF Senders
    <3>2. Cardinality(Senders(aux, l, v) \intersect Node) >= 2 * T + 1
      <4>1. /\ Cardinality(P) <= Cardinality(Senders(aux, l, v) \intersect Node)
            /\ Cardinality(Senders(aux, l, v) \intersect Node) \in Nat
        BY <3>1, Subsets, Senders(aux, l, v) \intersect Node \subseteq Node
      <4> QED
        BY <1>0, <4>1
    <3> QED
      BY <2>2, <3>2 DEF AuxReady, Quorum
  <2> QED
    BY <2>1, <2>2
<1>4. ASSUME NEW m \in P PROVE pc[m] = "conf"
  <2>1. pc[m] = "aux" \/ pc[m] = "conf"
    BY <1>0 DEF Gathered, Known, TypeOK
  <2> QED
    BY <1>0, <1>3, <2>1, WaitersLack DEF Gathered
<1>5. ASSUME NEW m \in P PROVE \E S \in SUBSET values[m][l] : S # {} /\ conf[m][l] = {S}
  <2>1. l = loop[m] /\ pc[m] # "aux" /\ m \in Node /\ m \in Prompt
    BY <1>0, <1>4 DEF Gathered, OnlyCorrectRun, Prompt
  <2>2. conf[m][l] # {}
    BY <2>1 DEF Known, StageInv, AuxPassed
  <2>4. ConfsHold /\ m \in Node /\ m \in Prompt
    BY <2>1 DEF Known, HeardInv
  <2>3. PICK S \in SUBSET BOOLEAN : conf[m][l] = {S} /\ S # {}
    BY <2>2, <2>4, ConfGiven
  <2> QED
    BY <2>1, <2>3 DEF Known, StageInv, ConfIsArray
<1> QED
  BY <1>4, <1>5

\* So within the bound they cannot all be waiting.
LEMMA NoneGathered ==
    ASSUME OnlyCorrectRun, Known, NEW l \in Loop, l # MaxLoop, NEW P, Gathered(P, l),
           l = 0 => P = Correct /\ (Correct \subseteq Late \/ Correct = Node)
    PROVE  FALSE
<1>0. P \subseteq Node /\ P \subseteq Correct /\ Cardinality(P) \in Nat /\ T \in Int /\ T >= 1
      /\ Cardinality(P) >= 2 * T + 1
  BY NodeAssumption, Subsets, Sizes DEF Gathered, OnlyCorrectRun
<1>1. PICK p \in P : TRUE
  BY <1>0, FS_EmptySet
<1>2. PICK B \in SUBSET BOOLEAN :
          /\ B # {} /\ \A m \in P : bin[m][l] = B
          /\ \A v \in BOOLEAN : Cardinality(Senders(val, l, v)) >= T + 1 => v \in B
  BY GatheredCount
<1>3. \A m \in P : /\ pc[m] = "conf"
                   /\ \E S \in SUBSET values[m][l] : S # {} /\ conf[m][l] = {S}
  BY <1>2, GatheredConf
<1>4. ~ ConfReady(p, l, Node)
  BY <1>0, <1>1, <1>3, WaitersLack DEF Gathered
<1>5. B # BOOLEAN
  <2> SUFFICES ASSUME B = BOOLEAN PROVE FALSE
    OBVIOUS
  <2>1. ASSUME NEW m \in P PROVE m \in ConfVoters(l)
    <3>1. PICK S \in SUBSET values[m][l] : S # {} /\ conf[m][l] = {S}
      BY <1>3
    <3>2. S \in (SUBSET BOOLEAN) \ {{}}
      <4>1. values[m][l] \subseteq BOOLEAN
        BY <1>0 DEF Known, TypeOK
      <4> QED
        BY <3>1, <4>1
    <3>3. ConfSeenAs(m, l, S)
      BY <3>1 DEF ConfSeenAs
    <3> QED
      BY <1>0, <3>2, <3>3 DEF ConfVoters
  <2>2. P \subseteq ConfVoters(l) \intersect Node
    BY <1>0, <2>1
  <2>3. /\ Cardinality(P) <= Cardinality(ConfVoters(l) \intersect Node)
        /\ Cardinality(ConfVoters(l) \intersect Node) \in Nat
    BY <2>2, Subsets, ConfVoters(l) \intersect Node \subseteq Node
  <2> QED
    BY <1>0, <1>1, <1>2, <1>4, <2>3 DEF ConfReady, Quorum
<1>6. PICK v \in BOOLEAN : B = {v}
  BY <1>2, <1>5
<1> DEFINE Q == {m \in P : values[m][l] \subseteq {v}}
<1>7. ~ Cardinality(Q) >= 2 * T + 1
  <2> SUFFICES ASSUME Cardinality(Q) >= 2 * T + 1 PROVE FALSE
    OBVIOUS
  <2>1. ASSUME NEW m \in Q PROVE m \in ConfSenders(l, v)
    <3>1. PICK S \in SUBSET values[m][l] : S # {} /\ conf[m][l] = {S}
      BY <1>3
    <3>2. S = {v} /\ values[m][l] = {v}
      BY <3>1
    <3> QED
      BY <1>0, <3>1, <3>2 DEF ConfSenders, ConfSeenAs
  <2>2. Q \subseteq ConfSenders(l, v) \intersect Node
    BY <1>0, <2>1
  <2>3. /\ Cardinality(Q) <= Cardinality(ConfSenders(l, v) \intersect Node) /\ Cardinality(Q) \in Nat
        /\ Cardinality(ConfSenders(l, v) \intersect Node) \in Nat
    BY <2>2, Subsets, ConfSenders(l, v) \intersect Node \subseteq Node
  <2> HIDE DEF Q
  <2>4. Cardinality(ConfSenders(l, v) \intersect Node) >= 2 * T + 1
    BY <1>0, <2>3
  <2> QED
    BY <1>1, <1>2, <1>4, <1>6, <2>4 DEF ConfReady, Quorum
<1>8. ASSUME NEW m \in P, NEW w \in values[m][l], w # v PROVE l = 0 /\ w = TRUE /\ v = FALSE
  <2>1. w \in bin[m][l] \/ (l = 0 /\ w = TRUE)
    BY <1>0 DEF Known, StageInv, ArrayIsCounted
  <2>2. w \notin bin[m][l]
    BY <1>2, <1>6, <1>8
  <2>3. l = 0 /\ w = TRUE
    BY <2>1, <2>2
  <2>4. v # TRUE
    BY <1>8, <2>3
  <2> QED
    BY <2>3, <2>4
<1>9. Q # P
  BY <1>0, <1>7
<1>10. l = 0 /\ v = FALSE
  BY <1>8, <1>9
<1>11. P = Correct /\ (Correct \subseteq Late \/ Correct = Node)
  BY <1>10
<1> DEFINE R == Senders(val, l, TRUE)
<1>12. R \subseteq Node /\ Cardinality(R) \in Nat /\ ~ Cardinality(R) >= T + 1
  <2>1. R \subseteq Node
    BY DEF Senders
  <2> QED
    BY <1>2, <1>6, <1>10, <2>1, Subsets
<1>13. ~ Correct \subseteq Late
  <2> SUFFICES ASSUME Correct \subseteq Late PROVE FALSE
    OBVIOUS
  <2>1. ASSUME NEW m \in P PROVE m \in R
    <3>1. m \in Running /\ loop[m] = 0 /\ 0 <= 0
      BY <1>0, <1>10, NodeAssumption DEF Gathered
    <3>2. val[m][0] # {} /\ val[m][0] \subseteq BOOLEAN /\ (m \in second => TRUE \in val[m][0])
      <4>1. m \in Node /\ 0 \in Loop
        BY <1>0, Sizes
      <4>2. val[m][0] # {}
        BY <3>1, <4>1 DEF Known, StageInv, AllVote
      <4>3. val[m][0] \subseteq BOOLEAN
        BY <4>1 DEF Known, TypeOK
      <4> QED
        BY <4>2, <4>3 DEF Known, StageInv, AllVote
    <3>3. FALSE \in val[m][0] => m \in second
      BY <1>0 DEF Gathered, Waits
    <3>4. TRUE \in val[m][0]
      BY <3>2, <3>3
    <3> QED
      BY <1>0, <1>10, <3>4 DEF Senders
  <2>2. Cardinality(P) <= Cardinality(R)
    BY <1>12, <2>1, Subsets
  <2> HIDE DEF R
  <2> QED
    BY <1>0, <1>12, <2>2
<1>14. Node \ R \subseteq Q
  <2> SUFFICES ASSUME NEW m \in Node \ R, NEW w \in values[m][l], w # v PROVE FALSE
    BY <1>11, <1>13
  <2>1. w = TRUE /\ TRUE \notin val[m][l]
    BY <1>8, <1>11, <1>13 DEF Senders
  <2>2. values[m][l] \subseteq val[m][l]
    BY DEF Known, HeldInv, CountedIsVal
  <2> QED
    BY <2>1, <2>2
<1>15. Cardinality(Node \ R) >= 2 * T + 1 /\ Cardinality(Node \ R) \in Nat
  <2> HIDE DEF R
  <2>1. Cardinality(Node \ R) = Cardinality(Node) - Cardinality(R)
    <3>1. Node \intersect R = R
      BY <1>12
    <3>2. Cardinality(Node \ R) = Cardinality(Node) - Cardinality(Node \intersect R)
      BY NodeAssumption, FS_Difference, FS_Subset
    <3> QED
      BY <3>1, <3>2
  <2>2. Cardinality(Node) = 3 * T + 1 /\ Cardinality(Node \ R) \in Nat
    BY Subsets, Node \ R \subseteq Node DEF OnlyCorrectRun, N
  <2> QED
    BY <1>0, <1>12, <2>1, <2>2
<1>16. Cardinality(Node \ R) <= Cardinality(Q) /\ Cardinality(Q) \in Nat
  BY <1>0, <1>14, Subsets
<1> HIDE DEF R, Q
<1> QED
  BY <1>0, <1>7, <1>15, <1>16

\* Nor can all others be waiting when nobody, or too few, have decided.
LEMMA NotAllWait ==
    ASSUME OnlyCorrectRun, Known, AtRest,
           \A n \in Node : loop[n] # MaxLoop, \A n \in Correct : output[n] = {},
           NEW D, D = {n \in Node : pc[n] = "decided"},
           (D = {} /\ Correct \subseteq Late) \/ (Correct = Node /\ Cardinality(D) <= T)
    PROVE  FALSE
<1> DEFINE P == Correct \ D
<1>0. /\ P \subseteq Correct /\ Correct \subseteq Node /\ D \subseteq Node
      /\ T \in Int /\ T >= 1 /\ N = 3 * T + 1 /\ Cardinality(Correct) >= 2 * T + 1
      /\ \A n \in Node : loop[n] \in Loop /\ loop[n] \in Nat
  BY NodeAssumption, LoopAssumption, Sizes DEF OnlyCorrectRun, Known, TypeOK, Loop
<1>1. \A n \in P : Waits(n) /\ output[n] = {} /\ pc[n] # "decided"
  BY <1>0 DEF AtRest
<1>2. Cardinality(P) >= 2 * T + 1
  <2>1. CASE D = {}
    BY <1>0, <2>1
  <2>2. CASE Correct = Node /\ Cardinality(D) <= T
    <3>1. Cardinality(P) = Cardinality(Node) - Cardinality(D)
      BY <1>0, <2>2, Sizes, FS_Difference, Node \intersect D = D
    <3>2. Cardinality(D) \in Nat /\ Cardinality(Node) = N
      BY <1>0, Subsets DEF N
    <3> HIDE DEF P
    <3> QED
      BY <1>0, <2>2, <3>1, <3>2
  <2> QED
    BY <2>1, <2>2
<1>3. PICK n \in P : TRUE
  <2>1. P # {}
    <3> HIDE DEF P
    <3> SUFFICES ASSUME P = {} PROVE FALSE
      OBVIOUS
    <3>1. Cardinality(P) = 0
      BY FS_EmptySet
    <3> QED
      BY <1>0, <1>2, <3>1
  <2> QED
    BY <2>1
<1>4. PICK l \in Loop : l = loop[n]
  BY <1>0, <1>3
<1>5. ASSUME NEW m \in Node
      PROVE  ~ (l < loop[m]) /\ ~ (l = loop[m] /\ pc[m] = "decided")
  BY <1>0, <1>1, <1>3, <1>4, NoneWaitsBehind
<1>6. ASSUME NEW m \in P PROVE loop[m] = l
  <2>1. ~ (loop[m] < loop[n])
    <3>1. PICK j \in Loop : j = loop[m]
      BY <1>0
    <3> QED
      BY <1>0, <1>1, <1>3, <3>1, NoneWaitsBehind
  <2> QED
    BY <1>0, <1>3, <1>4, <1>5, <2>1
<1>7. Gathered(P, l)
  BY <1>0, <1>1, <1>2, <1>6 DEF Gathered
<1>8. l = 0 => P = Correct
  BY <1>0, <1>5
<1>9. l # MaxLoop
  BY <1>0, <1>3, <1>4
<1> HIDE DEF P
<1> QED
  BY <1>7, <1>8, <1>9, NoneGathered

\* Nodes that have put a value on sendfinishsignal have sent one FINISH at least.
LEMMA SendersFinish ==
    ASSUME TypeOK, NEW v \in BOOLEAN, NEW S, S \subseteq Node,
           \A n \in S : tokens[n] # << >> /\ tokens[n][1] = v,
           NEW Q, S \subseteq Q, Q \subseteq Node
    PROVE  Cardinality(Finishes(v, Q)) >= Cardinality(S) /\ Cardinality(Finishes(v, Q)) \in Nat
<1>1. IsFiniteSet(S) /\ IsFiniteSet(Q) /\ Cardinality(S) \in Nat
  BY Subsets
<1>2. S \X {1} \subseteq Finishes(v, Q)
  <2> SUFFICES ASSUME NEW n \in S PROVE <<n, 1>> \in Finishes(v, Q)
    OBVIOUS
  <2>1. 1 <= Len(tokens[n]) /\ 1 <= loop[n] + 1
    BY DEF TypeOK, Loop
  <2> QED
    BY <2>1 DEF Finishes, HasSent
<1>3. IsFiniteSet(Q \X (1 .. 3))
  <2>1. IsFiniteSet(1 .. 3)
    BY 1 \in Int, 3 \in Int, FS_Interval
  <2> QED
    BY <1>1, <2>1, FS_Product
<1>4. Finishes(v, Q) \subseteq Q \X (1 .. 3)
  BY DEF Finishes
<1>5. /\ IsFiniteSet(Finishes(v, Q)) /\ Cardinality(Finishes(v, Q)) \in Nat
      /\ Cardinality(S \X {1}) <= Cardinality(Finishes(v, Q))
  BY <1>2, <1>3, <1>4, FS_Subset, FS_CardinalityType
<1>6. Cardinality(S \X {1}) = Cardinality(S) * Cardinality({1}) /\ Cardinality({1}) = 1
  BY <1>1, FS_Product, FS_Singleton
<1> QED
  BY <1>1, <1>5, <1>6

\* At rest, T + 1 deciders have made every correct node output.
LEMMA ManyDecideAll ==
    ASSUME OnlyCorrectRun, Known, AtRest,
           NEW D, D = {n \in Node : pc[n] = "decided"}, Cardinality(D) >= T + 1
    PROVE  \A n \in Correct : output[n] # {}
<1>0. /\ Correct = Running /\ Running \subseteq Node /\ D \subseteq Node /\ T \in Int /\ T >= 1
      /\ Cardinality(Correct) >= 2 * T + 1 /\ Prompt = Node /\ Cardinality(D) \in Nat
      /\ Cardinality(Correct) \in Nat
  BY NodeAssumption, Subsets, Sizes DEF OnlyCorrectRun, Prompt
<1>1. D \subseteq Correct
  <2> SUFFICES ASSUME NEW n \in Node, pc[n] = "decided" PROVE n \in Running
    BY <1>0
  <2>1. PICK l \in Loop : l = loop[n]
    BY DEF Known, TypeOK
  <2>2. pc[n] # "aux"
    OBVIOUS
  <2>3. conf[n][l] # {}
    BY <2>1, <2>2 DEF Known, StageInv, AuxPassed
  <2> QED
    BY <2>3, Zenon DEF Known, HeardInv, ConfsHold
<1>2. PICK k \in D : TRUE
  BY <1>0, FS_EmptySet
<1> DEFINE v == Coin[loop[k]]
<1>3. v \in BOOLEAN
  BY <1>0, LoopAssumption DEF Known, TypeOK
<1>4. \A m \in D : Coin[loop[m]] = v
  <2>1. \A m \in D : m \in Prompt /\ pc[m] = "decided" /\ loop[m] \in Int
    BY <1>0 DEF Known, TypeOK, Loop
  <2>2. Few
    BY FS_EmptySet, <1>0 DEF Few, OnlyCorrectRun
  <2> QED
    BY <1>2, <2>1, <2>2, PromptDecideSame DEF Known, OnlyCorrectRun
<1> HIDE DEF v
<1>5. \A w \in BOOLEAN : Deciders(w) # {} => w = v
  BY <1>4 DEF Deciders
<1>6. ASSUME NEW w \in BOOLEAN, NEW n \in Node, w \in amplified[n] PROVE w = v
  <2>1. Cardinality(Deciders(w)) >= T + 1
    BY <1>6 DEF Known, FinishInv, AmplifiedIsDecided
  <2>2. Deciders(w) # {}
    BY <1>0, <2>1, FS_EmptySet
  <2> QED
    BY <1>5, <2>2
<1>7. ASSUME NEW n \in Node, tokens[n] # << >> PROVE tokens[n][1] = v
  <2>1. 1 \in 1 .. Len(tokens[n]) /\ tokens[n][1] \in BOOLEAN
    BY <1>7 DEF Known, TypeOK
  <2>2. tokens[n][1] \in amplified[n] \/ n \in Deciders(tokens[n][1])
    BY <2>1 DEF Known, FinishInv, TokensGrounded, TokenGrounded
  <2> QED
    BY <1>5, <1>6, <2>1, <2>2
<1>8. \A n \in D : tokens[n] # << >>
  BY <1>0 DEF Known, StageInv, TokensStand
<1>9. Cardinality(Finishes(v, Correct)) >= T + 1 /\ Cardinality(Finishes(v, Correct)) \in Nat
  <2>1. /\ Cardinality(Finishes(v, Correct)) >= Cardinality(D)
        /\ Cardinality(Finishes(v, Correct)) \in Nat
    BY <1>0, <1>1, <1>3, <1>7, <1>8, SendersFinish DEF Known
  <2> QED
    BY <1>0, <2>1
<1>10. ASSUME NEW n \in Correct PROVE v \in amplified[n]
  <2>1. CASE output[n] = {}
    <3>1. v \in amplified[n] \/ Cardinality(Finishes(v, Correct)) < Amplify
      BY <1>3, <2>1 DEF AtRest, Waits
    <3> QED
      BY <1>0, <1>9, <3>1 DEF Amplify
  <2>2. CASE output[n] # {}
    <3>1. PICK w \in BOOLEAN : w \in output[n]
      BY <1>0, <2>2 DEF Known, TypeOK
    <3>2. w \in amplified[n]
      BY <1>0, <3>1 DEF Known, FinishInv, OutputIsAmplified
    <3> QED
      BY <1>0, <1>6, <3>2
  <2> QED
    BY <2>1, <2>2
<1>11. /\ Cardinality(Finishes(v, Correct)) >= Cardinality(Correct)
       /\ Cardinality(Finishes(v, Correct)) \in Nat
  <2>1. \A n \in Correct : tokens[n] # << >>
    BY <1>0, <1>10 DEF Known, StageInv, TokensStand
  <2> QED
    BY <1>0, <1>3, <1>7, <2>1, SendersFinish DEF Known
<1>12. SecondTest
  BY <1>0 DEF SecondTest
<1>13. ~ Cardinality(Finishes(v, Correct)) < Quorum
  BY <1>0, <1>11 DEF Quorum
<1> QED
  BY <1>3, <1>10, <1>12, <1>13 DEF AtRest, Waits

\* An output has T + 1 deciders behind it.
LEMMA OutputDecided ==
    ASSUME OnlyCorrectRun, Known, NEW D, D = {n \in Node : pc[n] = "decided"},
           ~ Cardinality(D) >= T + 1, NEW n \in Correct
    PROVE  output[n] = {}
<1> SUFFICES ASSUME output[n] # {} PROVE FALSE
  OBVIOUS
<1>0. n \in Node /\ T \in Int
  BY NodeAssumption, Sizes
<1>1. PICK w \in BOOLEAN : w \in output[n]
  BY <1>0 DEF Known, TypeOK
<1>2. w \in amplified[n]
  BY <1>0, <1>1 DEF Known, FinishInv, OutputIsAmplified
<1>3. Cardinality(Deciders(w)) >= T + 1
  BY <1>0, <1>2 DEF Known, FinishInv, AmplifiedIsDecided
<1>4. Deciders(w) \subseteq D /\ D \subseteq Node
  BY DEF Deciders
<1>5. /\ Cardinality(Deciders(w)) <= Cardinality(D)
      /\ Cardinality(Deciders(w)) \in Nat /\ Cardinality(D) \in Nat
  BY <1>4, Subsets
<1> QED
  BY <1>0, <1>3, <1>5

\* ProgressOrFewDeciders at rest.
EndsOrFew ==
    AtRest => \/ \E n \in Node : loop[n] = MaxLoop
              \/ \A n \in Correct : output[n] # {}
              \/ FewDeciders

\* With just enough correct nodes for a quorum and the second input for all of
\* them, nobody is left waiting within the bound unless there is a decider, and
\* deciders are too few for their FINISH to be amplified (ba.go:205).
THEOREM RestsOrFew == OnlyCorrectRun /\ Correct \subseteq Late => (Spec => []EndsOrFew)
<1> SUFFICES ASSUME OnlyCorrectRun, Correct \subseteq Late PROVE Spec => []EndsOrFew
  OBVIOUS
<1>1. ASSUME Known, AtRest, \A n \in Node : loop[n] # MaxLoop, ~ FewDeciders
      PROVE  \A n \in Correct : output[n] # {}
  <2> DEFINE D == {n \in Node : pc[n] = "decided"}
  <2>1. D = Deciders(TRUE) \union Deciders(FALSE)
    BY <1>1, LoopAssumption DEF Deciders, Known, TypeOK
  <2>2. Cardinality(D) \in Nat /\ T \in Int /\ T >= 1
    BY Subsets, Sizes, D \subseteq Node DEF OnlyCorrectRun
  <2>3. Cardinality(D) = 0 \/ Cardinality(D) >= T + 1
    <3>1. ~ Cardinality(D) \in 1 .. T
      BY <1>1, <2>1 DEF FewDeciders
    <3> HIDE DEF D
    <3> QED
      BY <2>2, <3>1
  <2>4. CASE Cardinality(D) >= T + 1
    BY <1>1, <2>4, ManyDecideAll
  <2>5. CASE Cardinality(D) = 0
    <3>1. D = {n \in Node : pc[n] = "decided"} /\ D \subseteq Node
      OBVIOUS
    <3> HIDE DEF D
    <3>2. D = {}
      BY <2>5, <3>1, FS_EmptySet, Subsets
    <3>3. \A n \in Correct : output[n] = {}
      BY <1>1, <2>2, <2>5, <3>1, OutputDecided
    <3> QED
      BY <1>1, <3>1, <3>2, <3>3, NotAllWait
  <2> QED
    BY <2>3, <2>4, <2>5
<1>2. Known => EndsOrFew
  BY <1>1 DEF EndsOrFew
<1>3. Spec => []Known
  BY StageInvariant DEF OnlyCorrectRun, Known
<1> QED
  BY <1>2, <1>3, PTL

\* With every node correct there is no such rest.
Ends ==
    AtRest => \/ \E n \in Node : loop[n] = MaxLoop
              \/ \A n \in Correct : output[n] # {}

\* With every node correct the agreement rests only with an output at each, or at
\* the bound: no inputs, no coin and no order of messages leave anyone waiting, with
\* the second input or without.
THEOREM RestsEnded == N = 3 * T + 1 /\ T >= 1 /\ Slow = {} /\ Correct = Node => (Spec => []Ends)
<1> SUFFICES ASSUME N = 3 * T + 1, T >= 1, Slow = {}, Correct = Node PROVE Spec => []Ends
  OBVIOUS
<1>0. OnlyCorrectRun
  <2>1. Correct = Running /\ Cardinality(Correct) = N
    BY NodeAssumption DEF N
  <2> QED
    BY <2>1, Sizes DEF OnlyCorrectRun
<1>1. ASSUME Known, AtRest, \A n \in Node : loop[n] # MaxLoop
      PROVE  \A n \in Correct : output[n] # {}
  <2> DEFINE D == {n \in Node : pc[n] = "decided"}
  <2>1. Cardinality(D) \in Nat /\ T \in Int
    BY Subsets, Sizes, D \subseteq Node
  <2>2. D = {n \in Node : pc[n] = "decided"}
    OBVIOUS
  <2> HIDE DEF D
  <2>3. CASE Cardinality(D) >= T + 1
    BY <1>0, <1>1, <2>2, <2>3, ManyDecideAll
  <2>4. CASE ~ Cardinality(D) >= T + 1
    <3>1. \A n \in Correct : output[n] = {}
      BY <1>0, <1>1, <2>2, <2>4, OutputDecided
    <3>2. Cardinality(D) <= T
      BY <2>1, <2>4
    <3> QED
      BY <1>0, <1>1, <2>2, <3>1, <3>2, NotAllWait
  <2> QED
    BY <2>3, <2>4
<1>2. Known => Ends
  BY <1>1 DEF Ends
<1>3. Spec => []Known
  BY <1>0, StageInvariant DEF OnlyCorrectRun, Known
<1> QED
  BY <1>2, <1>3, PTL
=============================================================================
