--------------------------- MODULE RBCFinishProof ---------------------------
(***************************************************************************)
(* Proofs about RBCFinish, for any number of nodes and any set of crashes   *)
(* within the threshold.                                                    *)
(***************************************************************************)
EXTENDS RBCFinish, FiniteSetTheorems, TLAPS

\* N nodes tolerate T crashes with N >= 3T + 1.
LEMMA Sizes ==
    /\ N \in Nat \ {0}
    /\ T \in Nat
    /\ N >= 3 * T + 1
<1>1. N \in Nat
  BY NodeAssumption, FS_CardinalityType DEF N
<1>2. N # 0
  BY NodeAssumption, FS_EmptySet DEF N
<1> QED
  BY <1>1, <1>2 DEF T

\* Sets of nodes are finite, and their cardinality is monotone.
LEMMA NodeSets ==
    ASSUME NEW S, S \subseteq Node, NEW R, R \subseteq S
    PROVE  /\ IsFiniteSet(S) /\ IsFiniteSet(R)
           /\ Cardinality(S) \in Nat /\ Cardinality(R) \in Nat
           /\ Cardinality(R) <= Cardinality(S)
<1>1. IsFiniteSet(S)
  BY NodeAssumption, FS_Subset
<1> QED
  BY <1>1, FS_Subset, FS_CardinalityType

\* A set of k + T nodes has k correct ones in it.
LEMMA CorrectShare ==
    ASSUME NEW S, S \subseteq Node, NEW k \in Nat, Cardinality(S) >= k + T
    PROVE  Cardinality(S \intersect Correct) >= k
<1>1. /\ IsFiniteSet(S) /\ IsFiniteSet(Correct)
      /\ Cardinality(S) \in Nat /\ Cardinality(Correct) \in Nat
  BY NodeSets, CorrectAssumption
<1>2. Node \intersect Correct = Correct
  BY CorrectAssumption
<1>3. Cardinality(Node \ Correct) = N - Cardinality(Correct)
  BY <1>2, NodeAssumption, FS_Difference DEF N
<1>4. Cardinality(Node \ Correct) <= T
  BY <1>1, <1>2, <1>3, CorrectAssumption, Sizes
<1>5. Cardinality(S \ Correct) <= Cardinality(Node \ Correct)
  BY NodeSets, S \ Correct \subseteq Node \ Correct, Node \ Correct \subseteq Node
<1>6. Cardinality(S \ Correct) = Cardinality(S) - Cardinality(S \intersect Correct)
  BY <1>1, FS_Difference
<1>7. /\ Cardinality(S \intersect Correct) \in Nat
      /\ Cardinality(S \ Correct) \in Nat
      /\ Cardinality(Node \ Correct) \in Nat
  BY NodeSets, S \intersect Correct \subseteq S, S \ Correct \subseteq S, Node \ Correct \subseteq Node
<1> QED
  BY <1>1, <1>4, <1>5, <1>6, <1>7, Sizes
-----------------------------------------------------------------------------
\* The variables keep their types.
THEOREM TypeCorrect == Spec => []TypeOK
<1>1. Init => TypeOK
  BY DEF Init, TypeOK
<1>2. TypeOK /\ [Next]_vars => TypeOK'
  <2> SUFFICES ASSUME TypeOK, [Next]_vars PROVE TypeOK'
    OBVIOUS
  <2> USE DEF TypeOK
  <2>1. CASE LeaderEcho
    BY <2>1, NodeAssumption DEF LeaderEcho
  <2>2. CASE LeaderSendFinish
    BY <2>2, NodeAssumption DEF LeaderSendFinish
  <2>3. ASSUME NEW n \in Node, Step(n) PROVE TypeOK'
    BY <2>3 DEF Step, HandleVal, SendEcho, HandleEcho, AmplifyReady, Signal, SendReady, Deliver, HandleFinish
  <2>4. ASSUME NEW n \in Node, CloseVal(n) \/ Close(n) PROVE TypeOK'
    BY <2>4 DEF CloseVal, Close
  <2>5. CASE UNCHANGED vars
    BY <2>5 DEF vars
  <2> QED
    BY <2>1, <2>2, <2>3, <2>4, <2>5 DEF Next
<1> QED
  BY <1>1, <1>2, PTL DEF Spec
-----------------------------------------------------------------------------
\* Broadcasts are never taken back, so what rests on their number stays true.
LEMMA Monotonic ==
    ASSUME TypeOK, Backed, Next
    PROVE  /\ Echoed \subseteq Echoed' /\ Cardinality(Echoed) <= Cardinality(Echoed')
           /\ Readied \subseteq Readied' /\ Cardinality(Readied) <= Cardinality(Readied')
           /\ Finished \subseteq Finished' /\ Cardinality(Finished) <= Cardinality(Finished')
           /\ Cardinality(Echoed) \in Nat /\ Cardinality(Echoed') \in Nat
           /\ Cardinality(Readied) \in Nat /\ Cardinality(Readied') \in Nat
           /\ Cardinality(Finished) \in Nat /\ Cardinality(Finished') \in Nat
<1>1. Echoed \subseteq Echoed' /\ Readied \subseteq Readied' /\ Finished \subseteq Finished'
  <2> USE DEF TypeOK, Echoed, Readied, Finished
  <2>1. CASE LeaderEcho
    BY <2>1, NodeAssumption DEF LeaderEcho
  <2>2. CASE LeaderSendFinish
    BY <2>2, NodeAssumption DEF LeaderSendFinish
  <2>3. ASSUME NEW n \in Node, Step(n)
        PROVE  Echoed \subseteq Echoed' /\ Readied \subseteq Readied' /\ Finished \subseteq Finished'
    <3>1. CASE HandleVal(n) \/ SendEcho(n)
      BY <3>1 DEF HandleVal, SendEcho
    <3>2. CASE HandleEcho(n, Node) \/ AmplifyReady(n, Node)
      BY <3>2 DEF HandleEcho, AmplifyReady, Signal
    <3>3. CASE SendReady(n)
      BY <3>3 DEF SendReady
    <3>4. CASE Deliver(n, Node)
      <4>1. Echoed' = Echoed /\ Readied' = Readied
        BY <3>4 DEF Deliver
      <4>2. ASSUME n = Leader, finish[Leader] = "sent" PROVE FALSE
        BY <3>4, <4>2 DEF Deliver, Backed
      <4> QED
        BY <3>4, <4>1, <4>2 DEF Deliver
    <3>5. CASE HandleFinish(n, Node)
      BY <3>5 DEF HandleFinish
    <3> QED
      BY <2>3, <3>1, <3>2, <3>3, <3>4, <3>5 DEF Step
  <2>4. ASSUME NEW n \in Node, CloseVal(n) \/ Close(n)
        PROVE  Echoed \subseteq Echoed' /\ Readied \subseteq Readied' /\ Finished \subseteq Finished'
    BY <2>4 DEF CloseVal, Close
  <2> QED
    BY <2>1, <2>2, <2>3, <2>4 DEF Next
<1>2. /\ Echoed \subseteq Node /\ Readied \subseteq Node /\ Finished \subseteq Node
      /\ Echoed' \subseteq Node /\ Readied' \subseteq Node /\ Finished' \subseteq Node
  BY DEF Echoed, Readied, Finished
<1> QED
  BY <1>1, <1>2, NodeSets
LEMMA Initially == Init => InductiveInv
BY DEF Init, InductiveInv, ReadyNeedsEchoes, Backed

\* A quorum of readies contains a ready; only echoes can have started it.
LEMMA ReadyStep ==
    ASSUME TypeOK, InductiveInv, Next
    PROVE  ReadyNeedsEchoes'
<1> SUFFICES ASSUME NEW m \in Node, ready'[m] # "idle"
             PROVE  Cardinality(Echoed') >= 2 * T + 1
  BY DEF ReadyNeedsEchoes
<1>0. Backed /\ ReadyNeedsEchoes
  BY DEF InductiveInv
<1>1. CASE \E n \in Node : ready[n] # "idle"
  BY <1>0, <1>1, Monotonic, Sizes DEF ReadyNeedsEchoes
<1>2. CASE \A n \in Node : ready[n] = "idle"
  <2>1. Readied = {}
    BY <1>2 DEF Readied
  <2>2. \E n \in Node : HandleEcho(n, Node)
    <3>1. ASSUME NEW n \in Node, Step(n), ~ HandleEcho(n, Node) PROVE FALSE
      <4>1. CASE AmplifyReady(n, Node)
        BY <4>1, <2>1, FS_EmptySet, Sizes DEF AmplifyReady, Reached, ReadyAmplify
      <4>2. CASE SendReady(n) \/ Deliver(n, Node)
        BY <4>2, <1>2 DEF SendReady, Deliver
      <4>3. CASE HandleVal(n) \/ SendEcho(n) \/ HandleFinish(n, Node)
        BY <4>3, <1>2 DEF HandleVal, SendEcho, HandleFinish
      <4> QED
        BY <3>1, <4>1, <4>2, <4>3 DEF Step
    <3>2. ASSUME LeaderEcho \/ LeaderSendFinish \/ \E n \in Node : CloseVal(n) \/ Close(n)
          PROVE FALSE
      BY <3>2, <1>2 DEF LeaderEcho, LeaderSendFinish, CloseVal, Close
    <3> QED
      BY <3>1, <3>2 DEF Next
  <2>3. Cardinality(Echoed) >= 2 * T + 1
    BY <2>2, Echoed \intersect Node = Echoed DEF HandleEcho, Reached, EchoQuorum, Echoed
  <2> QED
    BY <1>0, <2>3, Monotonic, Sizes
<1> QED
  BY <1>1, <1>2

\* The quorums behind the outputs.
LEMMA BackedStep ==
    ASSUME TypeOK, InductiveInv, Next
    PROVE  Backed'
<1>0. Backed
  BY DEF InductiveInv
<1>a. /\ Readied \intersect Node = Readied
      /\ Finished \intersect Node = Finished
  BY DEF Readied, Finished
<1>1. ASSUME output1' = output1, output2' = output2, finish' = finish,
             \A n \in Node : ready[n] # "idle" => ready'[n] # "idle"
      PROVE  Backed'
  BY <1>0, <1>1, Monotonic, Sizes DEF Backed, TypeOK
<1>2. CASE LeaderEcho \/ \E n \in Node : CloseVal(n) \/ Close(n)
  BY <1>2, <1>1 DEF LeaderEcho, CloseVal, Close
<1>3. CASE LeaderSendFinish
  BY <1>0, <1>3, Monotonic, Sizes, NodeAssumption DEF Backed, TypeOK, LeaderSendFinish
<1>4. ASSUME NEW n \in Node, Step(n)
      PROVE  Backed'
  <2>1. CASE HandleVal(n) \/ SendEcho(n)
    BY <2>1, <1>1 DEF HandleVal, SendEcho
  <2>2. CASE HandleEcho(n, Node) \/ AmplifyReady(n, Node)
    BY <2>2, <1>1 DEF HandleEcho, AmplifyReady, Signal, TypeOK
  <2>3. CASE SendReady(n)
    BY <2>3, <1>1 DEF SendReady, TypeOK
  <2>4. CASE Deliver(n, Node)
    <3>1. (output1 \union {n}) \ {Leader} # {} => Cardinality(Readied) >= 2 * T + 1
      BY <1>0, <1>a, <2>4 DEF Backed, Deliver, Reached, ReadyQuorum
    <3> QED
      BY <1>0, <2>4, <3>1, Monotonic, Sizes DEF Backed, Deliver, TypeOK
  <2>5. CASE HandleFinish(n, Node)
    <3>0. Cardinality(Finished) >= FinishQuorum(n)
      BY <1>a, <2>5 DEF HandleFinish, Reached
    <3>1. Cardinality(Finished) >= 2 * T
      BY <3>0, Monotonic, <1>0, Sizes DEF FinishQuorum
    <3> QED
      BY <1>0, <2>5, <3>1, Monotonic, Sizes DEF Backed, HandleFinish, TypeOK
  <2> QED
    BY <1>4, <2>1, <2>2, <2>3, <2>4, <2>5 DEF Step
<1> QED
  BY <1>2, <1>3, <1>4 DEF Next

LEMMA Invariance == Spec => [](TypeOK /\ InductiveInv)
<1>1. TypeOK /\ InductiveInv /\ [Next]_vars => InductiveInv'
  <2> SUFFICES ASSUME TypeOK, InductiveInv, [Next]_vars PROVE InductiveInv'
    OBVIOUS
  <2>1. CASE Next
    BY <2>1, ReadyStep, BackedStep DEF InductiveInv
  <2>2. CASE UNCHANGED vars
    BY <2>2 DEF vars, InductiveInv, ReadyNeedsEchoes, Backed, Echoed, Readied, Finished
  <2> QED
    BY <2>1, <2>2
<1> QED
  BY <1>1, Initially, TypeCorrect, PTL DEF Spec
-----------------------------------------------------------------------------
\* No node is ready before a full quorum has echoed.
THEOREM ReadyIsGrounded == Spec => []ReadyNeedsEchoes
BY Invariance, PTL DEF InductiveInv

\* Behind a confirmation stand followers that delivered.
LEMMA ConfirmedByFollower ==
    ASSUME TypeOK, InductiveInv, T >= 1, output2 # {}
    PROVE  /\ output1 \ {Leader} # {}
           /\ output1 \intersect Correct # {}
<1>1. /\ Finished \subseteq Node /\ Finished \subseteq output1
      /\ Cardinality(Finished) \in Nat /\ Cardinality(Finished) >= 2 * T
  BY NodeSets DEF InductiveInv, Backed, Finished
<1>2. Cardinality(Finished \intersect Correct) >= T
  BY <1>1, CorrectShare, Sizes
<1>3. Finished \intersect Correct # {}
  BY <1>2, FS_EmptySet, Sizes
<1>4. ~ Finished \subseteq {Leader}
  <2>1. IsFiniteSet({Leader}) /\ Cardinality({Leader}) = 1
    BY FS_Singleton
  <2> QED
    BY <2>1, <1>1, FS_Subset, Sizes
<1> QED
  BY <1>1, <1>3, <1>4

\* One delivery at a follower, or one confirmation anywhere, has T + 1 correct
\* readies behind it, which carry every correct node along.
THEOREM DeliveryCarries == Spec => []DeliveryIsCarried
<1>1. TypeOK /\ InductiveInv => DeliveryIsCarried
  <2> SUFFICES ASSUME TypeOK, InductiveInv, T >= 1, (output1 \ {Leader}) \union output2 # {}
               PROVE  Cardinality(Readied \intersect Correct) >= T + 1
    BY DEF DeliveryIsCarried
  <2>1. output1 \ {Leader} # {}
    BY ConfirmedByFollower
  <2>2. Cardinality(Readied) >= (T + 1) + T
    BY <2>1, Sizes DEF InductiveInv, Backed
  <2> QED
    BY <2>2, CorrectShare, Sizes DEF Readied
<1> QED
  BY <1>1, Invariance, PTL

\* A confirmed proposal was delivered by a correct node and is held, validated,
\* by T + 1 of them.
THEOREM ConfirmedHolds == Spec => []ConfirmedIsHeld
<1>1. TypeOK /\ InductiveInv => ConfirmedIsHeld
  <2> SUFFICES ASSUME TypeOK, InductiveInv, T >= 1, output2 # {}
               PROVE  /\ output1 \intersect Correct # {}
                      /\ Cardinality(Echoed \intersect Correct) >= T + 1
    BY DEF ConfirmedIsHeld
  <2>1. Cardinality(Echoed) >= (T + 1) + T
    BY ConfirmedByFollower, Sizes DEF InductiveInv, Backed, ReadyNeedsEchoes, TypeOK
  <2> QED
    BY <2>1, ConfirmedByFollower, CorrectShare, Sizes DEF Echoed
<1> QED
  BY <1>1, Invariance, PTL
-----------------------------------------------------------------------------
\* The abstract module counts with an instance of Cardinality of its own.
LEMMA SameCardinality == \A S : Abstract!Cardinality(S) = Cardinality(S)
BY DEF Abstract!Cardinality, Cardinality

\* The broadcast implements its abstract promise: validate, deliver on a full
\* quorum of validations, confirm on a quorum of deliveries.
THEOREM Implements == Spec => Refinement
<1>1. Init => Abstract!Init
  BY DEF Init, Abstract!Init, Echoed
<1>2. TypeOK /\ InductiveInv /\ [Next]_vars => [Abstract!Next]_(Abstract!vars)
  <2> SUFFICES ASSUME TypeOK, InductiveInv, [Next]_vars
               PROVE  [Abstract!Next]_(Abstract!vars)
    OBVIOUS
  <2> USE DEF Abstract!vars
  <2>0. Abstract!T = T
    BY SameCardinality DEF T, N, Abstract!T, Abstract!N
  <2>1. ASSUME NEW n \in Node, val[n] # "echoed", val' = [val EXCEPT ![n] = "echoed"],
               UNCHANGED <<output1, output2>>
        PROVE  Abstract!Next
    <3>1. Echoed' = Echoed \union {n}
      BY <2>1 DEF Echoed, TypeOK
    <3> QED
      BY <2>1, <3>1 DEF Abstract!Next, Abstract!Validate
  <2>2. CASE LeaderEcho
    BY <2>1, <2>2, NodeAssumption DEF LeaderEcho
  <2>3. CASE LeaderSendFinish \/ \E n \in Node : CloseVal(n) \/ Close(n)
    BY <2>3 DEF LeaderSendFinish, CloseVal, Close, Echoed
  <2>4. ASSUME NEW n \in Node, Step(n)
        PROVE  [Abstract!Next]_(Abstract!vars)
    <3>1. CASE HandleVal(n)
      BY <3>1 DEF HandleVal, Echoed, TypeOK
    <3>2. CASE SendEcho(n)
      BY <3>2, <2>1 DEF SendEcho
    <3>3. CASE HandleEcho(n, Node) \/ AmplifyReady(n, Node) \/ SendReady(n)
      BY <3>3 DEF HandleEcho, AmplifyReady, SendReady, Echoed
    <3>4. CASE Deliver(n, Node)
      <4>1. Cardinality(Echoed) >= 2 * Abstract!T + 1
        BY <3>4, <2>0 DEF Deliver, InductiveInv, ReadyNeedsEchoes
      <4> QED
        BY <3>4, <4>1, SameCardinality DEF Deliver, Echoed, Abstract!Next, Abstract!Deliver
    <3>5. CASE HandleFinish(n, Node)
      <4>1. /\ Finished \intersect Node = Finished
            /\ Finished \subseteq output1 /\ output1 \subseteq Node
        BY DEF Finished, InductiveInv, Backed, TypeOK
      <4>2. Cardinality(Finished) >= FinishQuorum(n)
        BY <4>1, <3>5 DEF HandleFinish, Reached
      <4>3. Cardinality(output1) >= IF n = Leader THEN 2 * Abstract!T ELSE 2 * Abstract!T + 1
        BY <4>1, <4>2, <2>0, NodeSets, Sizes DEF FinishQuorum
      <4> QED
        BY <3>5, <4>3, SameCardinality DEF HandleFinish, Echoed, Abstract!Next, Abstract!Confirm
    <3> QED
      BY <2>4, <3>1, <3>2, <3>3, <3>4, <3>5 DEF Step
  <2>5. CASE UNCHANGED vars
    BY <2>5 DEF vars, Echoed
  <2> QED
    BY <2>2, <2>3, <2>4, <2>5 DEF Next
<1> QED
  BY <1>1, <1>2, Invariance, TypeCorrect, PTL DEF Spec, Refinement, Abstract!Spec
-----------------------------------------------------------------------------
(* Where a broadcast comes to rest.  No action can be taken twice for the same *)
(* node, so Fairness comes down to no step of it being left; what it leads to *)
(* is then a matter of states.                                              *)

\* No step of Fairness can be taken by n.
Resting(n) ==
    /\ Leader \in Correct /\ n # Leader /\ val[n] = "idle" => n \in closed \union closeval
    /\ val[n] = "checking" => n \in closed
    /\ n \notin closed =>
        /\ ready[n] = "idle" => /\ ~ Reached(Echoed \intersect Correct, EchoQuorum)
                                /\ ~ Reached(Readied \intersect Correct, ReadyAmplify)
        /\ ready[n] # "signalled"
        /\ n \in output1 \/ ready[n] = "idle" \/ ~ Reached(Readied \intersect Correct, ReadyQuorum(n))
        /\ n \in output2 \/ ~ Reached(Finished \intersect Correct, FinishQuorum(n))

AtRest ==
    /\ Leader \in Correct => val[Leader] # "idle" /\ finish[Leader] # "pending"
    /\ \A n \in Correct : Resting(n)

\* Only the leader puts its FINISH off, and nobody forgets it; close is closed last.
FinishInv ==
    /\ \A n \in output1 : finish[n] # "idle"
    /\ \A n \in Node : finish[n] = "pending" => n = Leader
    /\ closed \subseteq closeval

LEMMA FinishInvariant == Spec => [](TypeOK /\ InductiveInv /\ FinishInv)
<1>1. Init => FinishInv
  BY DEF Init, FinishInv
<1>2. TypeOK /\ FinishInv /\ [Next]_vars => FinishInv'
  <2> SUFFICES ASSUME TypeOK, FinishInv, [Next]_vars PROVE FinishInv'
    OBVIOUS
  <2> USE DEF TypeOK, FinishInv
  <2>1. CASE LeaderEcho \/ LeaderSendFinish
    BY <2>1, NodeAssumption DEF LeaderEcho, LeaderSendFinish
  <2>2. ASSUME NEW n \in Node, Deliver(n, Node) PROVE FinishInv'
    BY <2>2 DEF Deliver
  <2>3. ASSUME NEW n \in Node, Step(n), ~ Deliver(n, Node) PROVE FinishInv'
    BY <2>3 DEF Step, HandleVal, SendEcho, HandleEcho, AmplifyReady, SendReady, HandleFinish
  <2>4. ASSUME NEW n \in Node, CloseVal(n) \/ Close(n) PROVE FinishInv'
    BY <2>4 DEF CloseVal, Close
  <2>5. CASE UNCHANGED vars
    BY <2>5 DEF vars
  <2> QED
    BY <2>1, <2>2, <2>3, <2>4, <2>5 DEF Next
<1> QED
  BY <1>1, <1>2, Invariance, PTL DEF Spec

\* What all correct nodes have sent is a quorum for everyone.
LEMMA CorrectQuorum ==
    ASSUME NEW S, S \subseteq Node, Correct \subseteq S, T >= 1
    PROVE  \A k \in {T + 1, 2 * T, 2 * T + 1} : Reached(S \intersect Correct, k)
<1>1. S \intersect Correct = Correct /\ Cardinality(Correct) \in Nat
  BY CorrectAssumption, NodeSets
<1>2. Cardinality(Correct) >= 2 * T + 1
  BY <1>1, CorrectAssumption, Sizes
<1>3. \A k \in {T + 1, 2 * T, 2 * T + 1} : k > 0 /\ Cardinality(Correct) >= k
  BY <1>1, <1>2, Sizes
<1> QED
  BY <1>1, <1>3 DEF Reached

\* At rest, once the correct nodes are ready they have both outputs.
LEMMA ReadyGoesThrough ==
    ASSUME TypeOK, InductiveInv, FinishInv, AtRest, T >= 1, closed = {},
           \A n \in Correct : ready[n] # "idle"
    PROVE  Correct \subseteq output1 \intersect output2
<1>1. Correct \subseteq Node /\ \A n \in Correct : Resting(n) /\ n \notin closed
  BY CorrectAssumption DEF AtRest
<1>2. Correct \subseteq Readied /\ Readied \subseteq Node
  BY <1>1 DEF Resting, Readied, TypeOK
<1>3. \A n \in Correct : /\ Reached(Readied \intersect Correct, ReadyQuorum(n))
                         /\ n \in output1
  <2>1. \A n \in Correct : Reached(Readied \intersect Correct, ReadyQuorum(n))
    BY <1>2, CorrectQuorum DEF ReadyQuorum
  <2> QED
    BY <1>1, <2>1 DEF Resting
<1>4. Correct \subseteq Finished /\ Finished \subseteq Node
  BY <1>1, <1>3 DEF FinishInv, Finished, AtRest, TypeOK
<1>5. \A n \in Correct : Reached(Finished \intersect Correct, FinishQuorum(n))
  BY <1>4, CorrectQuorum DEF FinishQuorum
<1> QED
  BY <1>1, <1>3, <1>5 DEF Resting

\* Totality at rest: with no node closed, a delivery by one follower or a
\* confirmation by any node leaves no correct node without both outputs.
RestTotality ==
    AtRest /\ T >= 1 /\ closed = {} /\ (output1 \ {Leader}) \union output2 # {}
        => Correct \subseteq output1 \intersect output2

\* A broadcast does not rest with some nodes that have it and correct ones that
\* do not, for any number of nodes and any crashes (follower.go:190-276).
THEOREM RestsTotal == Spec => []RestTotality
<1>1. TypeOK /\ InductiveInv /\ FinishInv /\ DeliveryIsCarried => RestTotality
  <2> SUFFICES ASSUME TypeOK, InductiveInv, FinishInv, DeliveryIsCarried, AtRest, T >= 1,
                      closed = {}, (output1 \ {Leader}) \union output2 # {}
               PROVE  Correct \subseteq output1 \intersect output2
    BY DEF RestTotality
  <2>1. Reached(Readied \intersect Correct, ReadyAmplify)
    BY Sizes DEF DeliveryIsCarried, Reached, ReadyAmplify
  <2>2. \A n \in Correct : ready[n] # "idle"
    BY <2>1 DEF AtRest, Resting
  <2> QED
    BY <2>2, ReadyGoesThrough
<1> QED
  BY <1>1, FinishInvariant, DeliveryCarries, PTL

\* LeaderIsHeard at rest.
RestHearing ==
    AtRest /\ T >= 1 /\ Leader \in Correct /\ closeval = {}
        => Correct \subseteq output1 \intersect output2

\* A correct leader's broadcast does not rest short of both outputs of every correct
\* node, unless some node has given up on proposals.
THEOREM RestsHeard == Spec => []RestHearing
<1>1. TypeOK /\ InductiveInv /\ FinishInv => RestHearing
  <2> SUFFICES ASSUME TypeOK, InductiveInv, FinishInv, AtRest, T >= 1, Leader \in Correct,
                      closeval = {}
               PROVE  Correct \subseteq output1 \intersect output2
    BY DEF RestHearing
  <2>1. closed = {}
    BY DEF FinishInv
  <2>2. Correct \subseteq Echoed /\ Echoed \subseteq Node
    BY <2>1, CorrectAssumption DEF AtRest, Resting, Echoed, TypeOK
  <2>3. Reached(Echoed \intersect Correct, EchoQuorum)
    BY <2>2, CorrectQuorum DEF EchoQuorum
  <2>4. \A n \in Correct : ready[n] # "idle"
    BY <2>1, <2>3 DEF AtRest, Resting
  <2> QED
    BY <2>1, <2>4, ReadyGoesThrough
<1> QED
  BY <1>1, FinishInvariant, PTL
=============================================================================
