------------------------- MODULE CodedBroadcastProof -------------------------
(***************************************************************************)
(* Proofs about CodedBroadcast, for any number of nodes and any set of       *)
(* crashes within the threshold.                                            *)
(***************************************************************************)
EXTENDS CodedBroadcast, FiniteSetTheorems, TLAPS

\* There is a node, and T is a natural number.
LEMMA Sizes == N \in Nat \ {0} /\ T \in Nat
<1>1. N \in Nat /\ N # 0
  BY NodeAssumption, FS_CardinalityType, FS_EmptySet DEF N
<1> QED
  BY <1>1 DEF T

\* Sets of nodes are finite, and their cardinality is monotone.
LEMMA NodeSets ==
    ASSUME NEW S, S \subseteq Node, NEW R, R \subseteq S
    PROVE  /\ IsFiniteSet(S) /\ Cardinality(S) \in Nat
           /\ Cardinality(R) \in Nat /\ Cardinality(R) <= Cardinality(S)
<1>1. IsFiniteSet(S)
  BY NodeAssumption, FS_Subset
<1> QED
  BY <1>1, FS_Subset, FS_CardinalityType

\* Of more than T nodes some are correct: at most T are not.
LEMMA CorrectShare ==
    ASSUME NEW S, S \subseteq Node, Cardinality(S) >= 2 * T + 1
    PROVE  Cardinality(S \intersect Correct) >= T + 1
<1>1. /\ IsFiniteSet(Node) /\ IsFiniteSet(S)
      /\ Cardinality(S) \in Nat /\ Cardinality(Correct) \in Nat
      /\ Cardinality(S \intersect Correct) \in Nat
      /\ Cardinality(S \ Correct) \in Nat /\ Cardinality(Node \ Correct) \in Nat
  BY NodeSets, NodeAssumption, CorrectAssumption
<1>a. Node \intersect Correct = Correct
  BY CorrectAssumption
<1>2. Cardinality(Node \ Correct) = N - Cardinality(Correct)
  BY <1>1, <1>a, FS_Difference DEF N
<1>3. Cardinality(Node \ Correct) <= T
  BY <1>1, <1>2, CorrectAssumption, Sizes
<1>4. Cardinality(S \ Correct) <= Cardinality(Node \ Correct)
  BY NodeSets, S \ Correct \subseteq Node \ Correct
<1>5. Cardinality(S \ Correct) = Cardinality(S) - Cardinality(S \intersect Correct)
  BY <1>1, FS_Difference
<1> QED
  BY <1>1, <1>3, <1>4, <1>5, Sizes

\* Two or more nodes are not all the leader.
LEMMA NotOnlyLeader ==
    ASSUME NEW S, S \subseteq Node, Cardinality(S) >= 2
    PROVE  \E n \in S : n # Leader
<1> SUFFICES ASSUME S \subseteq {Leader} PROVE FALSE
  OBVIOUS
<1>1. {Leader} \subseteq Node /\ Cardinality({Leader}) = 1
  BY NodeAssumption, FS_Singleton
<1> QED
  BY <1>1, NodeSets
-----------------------------------------------------------------------------
\* The variables keep their types.
THEOREM TypeCorrect == Spec => []TypeOK
<1>1. Init => TypeOK
  BY DEF Init, TypeOK
<1>2. TypeOK /\ [Next]_vars => TypeOK'
  <2> SUFFICES ASSUME TypeOK, [Next]_vars PROVE TypeOK'
    OBVIOUS
  <2> USE DEF TypeOK
  <2>1. CASE LeaderEcho
    BY <2>1, NodeAssumption DEF LeaderEcho
  <2>2. ASSUME NEW n \in Node, Step(n) PROVE TypeOK'
    BY <2>2 DEF Step, HandleVal, Rebuild, HandleEcho, AmplifyReady, Signal, SendReady, Deliver
  <2>3. ASSUME NEW n \in Node, CloseDone(n) PROVE TypeOK'
    BY <2>3 DEF CloseDone
  <2>4. CASE UNCHANGED vars
    BY <2>4 DEF vars
  <2> QED
    BY <2>1, <2>2, <2>3, <2>4 DEF Next
<1> QED
  BY <1>1, <1>2, PTL DEF Spec
-----------------------------------------------------------------------------
\* Broadcasts are never taken back, so what rests on their number stays true.
LEMMA Monotonic ==
    ASSUME TypeOK, Next
    PROVE  /\ Cardinality(echoed) \in Nat /\ Cardinality(echoed') \in Nat
           /\ Cardinality(echoed) <= Cardinality(echoed')
           /\ Cardinality(Readied) \in Nat /\ Cardinality(Readied') \in Nat
           /\ Cardinality(Readied) <= Cardinality(Readied')
<1>1. echoed \subseteq echoed' /\ Readied \subseteq Readied' /\ echoed' \subseteq Node
  <2> USE DEF TypeOK, Readied
  <2>1. CASE LeaderEcho
    BY <2>1, NodeAssumption DEF LeaderEcho
  <2>2. ASSUME NEW n \in Node, Step(n)
        PROVE  echoed \subseteq echoed' /\ Readied \subseteq Readied' /\ echoed' \subseteq Node
    BY <2>2 DEF Step, HandleVal, Rebuild, HandleEcho, AmplifyReady, Signal, SendReady, Deliver
  <2>3. ASSUME NEW n \in Node, CloseDone(n)
        PROVE  echoed \subseteq echoed' /\ Readied \subseteq Readied' /\ echoed' \subseteq Node
    BY <2>3 DEF CloseDone
  <2> QED
    BY <2>1, <2>2, <2>3 DEF Next
<1>2. Readied' \subseteq Node
  BY DEF Readied
<1> QED
  BY <1>1, <1>2, NodeSets

\* T + 1 readies, or the 2T of the leader, include a follower's when T > 0; the
\* follower has a quorum of echoes behind it.
LEMMA ReadiesMeanEchoes ==
    ASSUME TypeOK, InductiveInv, NEW k \in Nat, k \in {T + 1, 2 * T},
           Reached(Readied \intersect Node, k)
    PROVE  Cardinality(echoed) >= 2 * T + 1
<1>1. /\ Readied \subseteq Node /\ Readied \intersect Node = Readied
      /\ Cardinality(Readied) \in Nat /\ Cardinality(Readied) >= k /\ k > 0
  BY NodeSets DEF Readied, Reached
<1>2. \A n \in Readied : n \in Node /\ ready[n] # "idle"
  BY DEF Readied
<1>3. CASE T >= 1
  <2>1. Cardinality(Readied) >= 2
    BY <1>1, <1>3, Sizes
  <2>2. PICK n \in Readied : n # Leader
    BY <1>1, <2>1, NotOnlyLeader
  <2> QED
    BY <1>2, <2>2 DEF InductiveInv, ReadyNeedsEchoes
<1>4. CASE T = 0
  <2>1. Readied # {}
    BY <1>1, FS_EmptySet
  <2>2. PICK n \in Readied : TRUE
    BY <2>1
  <2>3. CASE n = Leader
    BY <1>2, <1>4, <2>2, <2>3 DEF InductiveInv, Backed
  <2>4. CASE n # Leader
    BY <1>2, <2>2, <2>4 DEF InductiveInv, ReadyNeedsEchoes
  <2> QED
    BY <2>3, <2>4
<1> QED
  BY <1>3, <1>4, Sizes


\* A step that leaves the outputs alone, and makes nobody ready who was not,
\* keeps the invariant.
LEMMA QuietStep ==
    ASSUME TypeOK, InductiveInv, Next, delivered' = delivered,
           \A n \in Node : (ready'[n] = "idle" <=> ready[n] = "idle")
                            /\ (ready[n] = "sent" => ready'[n] = "sent")
    PROVE  InductiveInv'
<1>1. ReadyNeedsEchoes'
  BY Monotonic, Sizes DEF InductiveInv, ReadyNeedsEchoes
<1>2. Backed'
  BY Monotonic, Sizes, NodeAssumption DEF InductiveInv, Backed, TypeOK
<1> QED
  BY <1>1, <1>2 DEF InductiveInv

\* A signal to be ready rests on a quorum of echoes, the leader's excepted.
LEMMA SignalStep ==
    ASSUME TypeOK, InductiveInv, Next, delivered' = delivered, NEW n \in Node, Signal(n),
           n # Leader \/ T = 0 => Cardinality(echoed) >= 2 * T + 1
    PROVE  InductiveInv'
<1>1. \A m \in Node : /\ m # n => ready'[m] = ready[m]
                      /\ ready[m] = "sent" => ready'[m] = "sent"
  BY DEF Signal, TypeOK
<1>2. ReadyNeedsEchoes'
  <2>1. CASE n = Leader
    BY <1>1, <2>1, Monotonic, Sizes DEF InductiveInv, ReadyNeedsEchoes
  <2>2. CASE n # Leader
    BY <2>2, Monotonic, Sizes DEF ReadyNeedsEchoes
  <2> QED
    BY <2>1, <2>2
<1>3. Backed'
  <2>1. \A m \in delivered' : ready'[m] = "sent"
    BY <1>1 DEF InductiveInv, Backed, TypeOK
  <2>2. delivered' \ {Leader} # {} => Cardinality(Readied') >= 2 * T + 1
    BY Monotonic, Sizes DEF InductiveInv, Backed
  <2>3. T = 0 /\ ready'[Leader] # "idle" => Cardinality(echoed') >= 1
    BY <1>1, Monotonic, Sizes, NodeAssumption DEF InductiveInv, Backed
  <2> QED
    BY <2>1, <2>2, <2>3 DEF Backed
<1> QED
  BY <1>2, <1>3 DEF InductiveInv

\* A delivery rests on a quorum of readies, the leader's excepted.
LEMMA DeliverStep ==
    ASSUME TypeOK, InductiveInv, Next, NEW n \in Node, Deliver(n, Node)
    PROVE  InductiveInv'
<1>1. delivered' = delivered \union {n} /\ ready' = ready /\ ready[n] = "sent"
  BY DEF Deliver
<1>2. Cardinality(echoed) >= 2 * T + 1
  <2>1. CASE n # Leader
    BY <1>1, <2>1 DEF InductiveInv, ReadyNeedsEchoes
  <2>2. CASE n = Leader
    <3>1. Reached(Readied \intersect Node, 2 * T)
      BY <2>2 DEF Deliver, ReadyQuorum
    <3>2. 2 * T \in Nat
      BY Sizes
    <3> QED
      BY <3>1, <3>2, ReadiesMeanEchoes
  <2> QED
    BY <2>1, <2>2
<1>3. ReadyNeedsEchoes'
  BY <1>2, Monotonic, Sizes DEF ReadyNeedsEchoes
<1>4. n # Leader => Cardinality(Readied) >= 2 * T + 1
  <2>1. Readied \intersect Node = Readied
    BY DEF Readied
  <2> QED
    BY <2>1 DEF Deliver, Reached, ReadyQuorum
<1>5. delivered' \ {Leader} # {} => Cardinality(Readied') >= 2 * T + 1
  BY <1>1, <1>4, Monotonic, Sizes DEF InductiveInv, Backed
<1>6. T = 0 /\ ready'[Leader] # "idle" => Cardinality(echoed') >= 1
  BY <1>1, Monotonic, Sizes DEF InductiveInv, Backed
<1>7. \A m \in delivered' : ready'[m] = "sent"
  BY <1>1 DEF InductiveInv, Backed
<1> QED
  BY <1>3, <1>5, <1>6, <1>7 DEF InductiveInv, Backed

\* The invariant holds throughout.
LEMMA Invariance == Spec => [](TypeOK /\ InductiveInv)
<1>1. Init => InductiveInv
  BY NodeAssumption DEF Init, InductiveInv, ReadyNeedsEchoes, Backed
<1>2. TypeOK /\ InductiveInv /\ [Next]_vars => InductiveInv'
  <2> SUFFICES ASSUME TypeOK, InductiveInv, [Next]_vars PROVE InductiveInv'
    OBVIOUS
  <2>1. CASE UNCHANGED vars
    BY <2>1 DEF vars, InductiveInv, ReadyNeedsEchoes, Backed, Readied
  <2>2. CASE LeaderEcho \/ \E n \in Node : CloseDone(n)
    BY <2>2, QuietStep DEF LeaderEcho, CloseDone, Next
  <2>3. ASSUME NEW n \in Node, Step(n) PROVE InductiveInv'
    <3>0. Next
      BY <2>3 DEF Next
    <3>1. CASE HandleVal(n) \/ Rebuild(n, Node)
      BY <3>0, <3>1, QuietStep DEF HandleVal, Rebuild
    <3>2. CASE HandleEcho(n, Node)
      <4>1. n # Leader \/ T = 0 => Cardinality(echoed) >= 2 * T + 1
        <5>1. echoed \intersect Node = echoed
          BY DEF TypeOK
        <5> QED
          BY <3>2, <5>1, Sizes DEF HandleEcho, Reached, EchoQuorum
      <4> QED
        BY <3>0, <3>2, <4>1, SignalStep DEF HandleEcho
    <3>3. CASE AmplifyReady(n, Node)
      <4>1. Reached(Readied \intersect Node, T + 1) /\ T + 1 \in Nat
        BY <3>3, Sizes DEF AmplifyReady, ReadyAmplify
      <4> QED
        BY <3>0, <3>3, <4>1, ReadiesMeanEchoes, SignalStep DEF AmplifyReady
    <3>4. CASE SendReady(n)
      BY <3>0, <3>4, QuietStep DEF SendReady, TypeOK
    <3>5. CASE Deliver(n, Node)
      BY <3>0, <3>5, DeliverStep
    <3> QED
      BY <2>3, <3>1, <3>2, <3>3, <3>4, <3>5 DEF Step
  <2> QED
    BY <2>1, <2>2, <2>3 DEF Next
<1> QED
  BY <1>1, <1>2, TypeCorrect, PTL DEF Spec
-----------------------------------------------------------------------------
\* No follower is ready, and nobody delivers, before a full quorum has echoed: the
\* leader's early ready starts nothing.
THEOREM ReadyIsGrounded == Spec => []ReadyNeedsEchoes
BY Invariance, PTL DEF InductiveInv

\* A delivery by a follower can be repeated by everyone, whoever crashes: T + 1
\* correct nodes are ready and T + 1 have sent their fragments.
THEOREM DeliveryCarries == Spec => []DeliveryIsCarried
<1>1. TypeOK /\ InductiveInv => DeliveryIsCarried
  BY CorrectShare
  DEF TypeOK, InductiveInv, Backed, ReadyNeedsEchoes, DeliveryIsCarried, Readied
<1> QED
  BY <1>1, Invariance, PTL

\* The abstract module counts with an instance of Cardinality of its own.
LEMMA SameCardinality == \A S : Abstract!Cardinality(S) = Cardinality(S)
BY DEF Abstract!Cardinality, Cardinality

\* The coded broadcast is the broadcast of FinishBroadcast without its finish round.
THEOREM Implements == Spec => Refinement
<1>1. Init => Abstract!Init
  BY DEF Init, Abstract!Init
<1>2. TypeOK /\ InductiveInv /\ InductiveInv' /\ [Next]_vars
        => [Abstract!Next]_(Abstract!vars)
  <2> SUFFICES ASSUME TypeOK, InductiveInv, InductiveInv', [Next]_vars
               PROVE  [Abstract!Next]_(Abstract!vars)
    OBVIOUS
  <2> USE DEF Abstract!vars
  <2>0. Abstract!T = T
    BY SameCardinality DEF T, N, Abstract!T, Abstract!N
  <2>1. CASE UNCHANGED <<echoed, delivered>>
    BY <2>1
  <2>2. ASSUME NEW n \in Node, echoed' = echoed \union {n}, delivered' = delivered
        PROVE  Abstract!Next
    BY <2>2 DEF Abstract!Next, Abstract!Validate
  <2>3. ASSUME NEW n \in Node, Deliver(n, Node) PROVE Abstract!Next
    <3>1. delivered' = delivered \union {n} /\ echoed' = echoed
      BY <2>3 DEF Deliver
    <3>2. Cardinality(echoed) >= 2 * Abstract!T + 1
      BY <3>1, <2>0 DEF InductiveInv, ReadyNeedsEchoes
    <3> QED
      BY <3>1, <3>2, SameCardinality DEF Abstract!Next, Abstract!Deliver
  <2>4. CASE LeaderEcho
    BY <2>2, <2>4, NodeAssumption DEF LeaderEcho
  <2>5. ASSUME NEW n \in Node, Step(n) PROVE [Abstract!Next]_(Abstract!vars)
    <3>1. CASE HandleVal(n)
      BY <2>2, <3>1 DEF HandleVal
    <3>2. CASE Deliver(n, Node)
      BY <2>3, <3>2
    <3>3. CASE Rebuild(n, Node) \/ HandleEcho(n, Node) \/ AmplifyReady(n, Node) \/ SendReady(n)
      BY <2>1, <3>3 DEF Rebuild, HandleEcho, AmplifyReady, SendReady
    <3> QED
      BY <2>5, <3>1, <3>2, <3>3 DEF Step
  <2>6. ASSUME NEW n \in Node, CloseDone(n) PROVE [Abstract!Next]_(Abstract!vars)
    BY <2>1, <2>6 DEF CloseDone
  <2>7. CASE UNCHANGED vars
    BY <2>1, <2>7 DEF vars
  <2> QED
    BY <2>4, <2>5, <2>6, <2>7 DEF Next
<1> QED
  BY <1>1, <1>2, Invariance, PTL DEF Spec, Refinement, Abstract!Spec
-----------------------------------------------------------------------------
(* Where a broadcast comes to rest.  No action can be taken twice for the same *)
(* node, so Fairness comes down to no step of it being left; what it leads to *)
(* is then a matter of states.                                              *)

\* No step of Fairness can be taken by n.
Resting(n) ==
    /\ ready[n] = "signalled" => n # Leader /\ n \in done
    /\ Open(n) =>
        /\ Leader \in Correct /\ n # Leader => n \in echoed
        /\ n = Leader \/ n \in candidate \/ ~ Reached(echoed \intersect Correct, Fragments)
        /\ ready[n] = "idle" =>
            /\ n = Leader \/ n \in candidate => ~ Reached(echoed \intersect Correct, EchoQuorum(n))
            /\ ~ Reached(Readied \intersect Correct, ReadyAmplify)
        /\ ready[n] = "sent" /\ (n = Leader \/ n \in candidate)
            => ~ Reached(Readied \intersect Correct, ReadyQuorum(n))

AtRest ==
    /\ Leader \in Correct => Leader \in echoed
    /\ \A n \in Correct : Resting(n)

\* Who leaves the round has the broadcasts it names, and a quorum has them.
LeaveInv ==
    elected => /\ done \subseteq delivered
               /\ done # {} => Cardinality(delivered) >= 2 * T + 1

LEMMA LeaveInvariant == Spec => [](TypeOK /\ InductiveInv /\ LeaveInv)
<1>1. Init => LeaveInv
  BY DEF Init, LeaveInv
<1>2. TypeOK /\ LeaveInv /\ [Next]_vars => LeaveInv'
  <2> SUFFICES ASSUME TypeOK, LeaveInv, [Next]_vars PROVE LeaveInv'
    OBVIOUS
  <2>1. ASSUME UNCHANGED <<done, elected>>, delivered \subseteq delivered', delivered' \subseteq Node
        PROVE  LeaveInv'
    <3>1. /\ Cardinality(delivered) \in Nat /\ Cardinality(delivered') \in Nat
          /\ Cardinality(delivered) <= Cardinality(delivered')
      BY <2>1, NodeSets
    <3> QED
      BY <2>1, <3>1, Sizes DEF LeaveInv
  <2>2. ASSUME NEW n \in Node, CloseDone(n) PROVE LeaveInv'
    BY <2>2 DEF CloseDone, LeaveInv
  <2> QED
    BY <2>1, <2>2
    DEF Next, Step, LeaderEcho, HandleVal, Rebuild, HandleEcho, AmplifyReady, SendReady, Deliver,
        TypeOK, vars
<1> QED
  BY <1>1, <1>2, Invariance, PTL DEF Spec

\* What all correct nodes have sent is a quorum for everyone.
LEMMA CorrectQuorum ==
    ASSUME NEW S, S \subseteq Node, Correct \subseteq S, T >= 1
    PROVE  \A k \in {T + 1, 2 * T, 2 * T + 1} : Reached(S \intersect Correct, k)
<1>1. S \intersect Correct = Correct /\ Cardinality(Correct) \in Nat
  BY CorrectAssumption, NodeSets
<1>2. Cardinality(Correct) >= 2 * T + 1
  BY <1>1, CorrectAssumption, Sizes DEF T
<1>3. \A k \in {T + 1, 2 * T, 2 * T + 1} : k > 0 /\ Cardinality(Correct) >= k
  BY <1>1, <1>2, Sizes
<1> QED
  BY <1>1, <1>3 DEF Reached

\* At rest, what stirs all correct nodes that have not left the round is delivered.
LEMMA ReadyGoesThrough ==
    ASSUME TypeOK, InductiveInv, AtRest, T >= 1, Correct \intersect done \subseteq delivered,
           Reached(echoed \intersect Correct, Fragments),
           \A n \in Correct \ delivered : n = Leader \/ n \in candidate => ready[n] # "idle"
    PROVE  Correct \subseteq delivered
<1> SUFFICES ASSUME NEW n \in Correct, n \notin delivered PROVE FALSE
  OBVIOUS
<1>1. Correct \subseteq Node /\ \A m \in Correct : Resting(m)
  BY CorrectAssumption DEF AtRest
<1>2. \A m \in Correct \ delivered : Open(m) /\ (m = Leader \/ m \in candidate)
  BY <1>1 DEF Resting, Open
<1>3. \A m \in Correct \ delivered : ready[m] = "sent"
  BY <1>1, <1>2 DEF Resting, Open, TypeOK
<1>4. \A m \in Correct : ready[m] = "sent"
  BY <1>3 DEF InductiveInv, Backed
<1>5. Correct \subseteq Readied /\ Readied \subseteq Node
  BY <1>1, <1>4 DEF Readied
<1>6. Reached(Readied \intersect Correct, ReadyQuorum(n))
  BY <1>5, CorrectQuorum DEF ReadyQuorum
<1> QED
  BY <1>1, <1>2, <1>3, <1>6 DEF Resting

\* At rest, a follower's delivery has reached all correct nodes still in the round.
LEMMA CarriedAtRest ==
    ASSUME TypeOK, InductiveInv, DeliveryIsCarried, AtRest, T >= 1,
           delivered \ {Leader} # {}, Correct \intersect done \subseteq delivered
    PROVE  Correct \subseteq delivered
<1>1. Reached(Readied \intersect Correct, ReadyAmplify) /\ Reached(echoed \intersect Correct, Fragments)
  BY Sizes DEF DeliveryIsCarried, Reached, ReadyAmplify, Fragments
<1>2. \A n \in Correct \ delivered : Open(n) /\ Resting(n)
  BY DEF AtRest, Open
<1>3. \A n \in Correct \ delivered : ready[n] # "idle"
  BY <1>1, <1>2 DEF Resting
<1> QED
  BY <1>1, <1>3, ReadyGoesThrough

\* Totality at rest: with no round over, a delivery by one follower leaves no
\* correct node without.
RestTotality ==
    AtRest /\ T >= 1 /\ done = {} /\ delivered \ {Leader} # {} => Correct \subseteq delivered

\* A broadcast does not rest with a follower that has it and a correct node that does
\* not, though whoever delivers stops its handlers (RBC/follower.go:90-176).
THEOREM RestsTotal == Spec => []RestTotality
<1>1. TypeOK /\ InductiveInv /\ DeliveryIsCarried => RestTotality
  BY CarriedAtRest DEF RestTotality
<1> QED
  BY <1>1, Invariance, DeliveryCarries, PTL

\* With no round over, a correct leader is heard by all correct nodes.
RestHearing ==
    AtRest /\ T >= 1 /\ Leader \in Correct /\ done = {} => Correct \subseteq delivered

\* A correct leader's broadcast does not rest short of delivery at every correct node.
THEOREM RestsHeard == Spec => []RestHearing
<1>1. TypeOK /\ InductiveInv /\ DeliveryIsCarried => RestHearing
  <2> SUFFICES ASSUME TypeOK, InductiveInv, DeliveryIsCarried, AtRest, T >= 1, Leader \in Correct,
                      done = {}, delivered \subseteq {Leader}
               PROVE  Correct \subseteq delivered
    BY CarriedAtRest DEF RestHearing
  <2>1. Correct \subseteq echoed /\ echoed \subseteq Node
    BY CorrectAssumption DEF AtRest, Resting, Open, TypeOK
  <2>2. /\ Reached(echoed \intersect Correct, Fragments)
        /\ \A n \in Correct : Reached(echoed \intersect Correct, EchoQuorum(n))
    BY <2>1, CorrectQuorum DEF Fragments, EchoQuorum
  <2>3. \A n \in Correct \ delivered : n = Leader \/ n \in candidate => ready[n] # "idle"
    BY <2>2 DEF AtRest, Resting, Open
  <2> QED
    BY <2>2, <2>3, ReadyGoesThrough
<1> QED
  BY <1>1, Invariance, DeliveryCarries, PTL

\* ElectedReachesAll at rest.
RestElection == AtRest /\ T >= 1 /\ elected /\ done # {} => Correct \subseteq delivered

\* wait_rbc_done is not left waiting: once a node has left the round with the
\* broadcasts agreed on, they rest with all correct nodes (conseneus.go:341-367).
THEOREM RestsElected == Spec => []RestElection
<1>1. TypeOK /\ InductiveInv /\ DeliveryIsCarried /\ LeaveInv => RestElection
  <2> SUFFICES ASSUME TypeOK, InductiveInv, DeliveryIsCarried, LeaveInv, AtRest, T >= 1, elected,
                      done # {}
               PROVE  Correct \subseteq delivered
    BY DEF RestElection
  <2>1. delivered \ {Leader} # {}
    <3>1. Cardinality(delivered) >= 2 * T + 1
      BY DEF LeaveInv
    <3>2. Cardinality(delivered) >= 2 /\ delivered \subseteq Node
      BY <3>1, NodeSets, Sizes DEF TypeOK
    <3> QED
      BY <3>2, NotOnlyLeader
  <2> QED
    BY <2>1, CarriedAtRest DEF LeaveInv
<1> QED
  BY <1>1, LeaveInvariant, DeliveryCarries, PTL
=============================================================================
