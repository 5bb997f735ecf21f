---------------------------- MODULE FinRoundProof ----------------------------
(***************************************************************************)
(* Proofs about FinRound, for any number of nodes, any set of running ones   *)
(* and any collectors that may be preempted.                                *)
(***************************************************************************)
EXTENDS FinRound, FiniteSetTheorems, TLAPS

LEMMA Sizes ==
    /\ N \in Nat /\ T \in Int /\ Enough \in Int
    /\ Node # {} => Enough > 0
<1>1. N \in Nat
  BY NodeAssumption, FS_CardinalityType DEF N
<1>2. Node # {} => N # 0
  BY NodeAssumption, FS_EmptySet DEF N
<1> QED
  BY <1>1, <1>2 DEF T, Enough

\* Sets of nodes are finite, and their cardinality is monotone.
LEMMA NodeSets ==
    ASSUME NEW S, S \subseteq Node, NEW R, R \subseteq S
    PROVE  /\ IsFiniteSet(S) /\ IsFiniteSet(R)
           /\ Cardinality(S) \in Nat /\ Cardinality(R) \in Nat
           /\ Cardinality(R) <= Cardinality(S)
<1>1. IsFiniteSet(S)
  BY NodeAssumption, FS_Subset
<1> QED
  BY <1>1, FS_Subset, FS_CardinalityType

\* A set with one more element has one more.
LEMMA Larger ==
    ASSUME NEW S, S \subseteq Node, NEW R, R \subseteq S, R # S
    PROVE  Cardinality(R) < Cardinality(S)
<1>1. PICK p \in S : p \notin R
  OBVIOUS
<1>2. R \union {p} \subseteq S
  BY <1>1
<1>3. Cardinality(R \union {p}) = Cardinality(R) + 1
  BY <1>1, NodeSets, FS_AddElement
<1> QED
  BY <1>2, <1>3, NodeSets
-----------------------------------------------------------------------------
\* The variables keep their types.
THEOREM TypeCorrect == Spec => []TypeOK
<1>1. Init => TypeOK
  BY SettledAssumption DEF Init, TypeOK
<1>2. TypeOK /\ [Next]_vars => TypeOK'
  <2> SUFFICES ASSUME TypeOK, [Next]_vars PROVE TypeOK'
    OBVIOUS
  <2> USE DEF TypeOK
  <2>1. ASSUME NEW n \in Node, NEW p \in Node, Collect(n, p) PROVE TypeOK'
    BY <2>1 DEF Collect, Store
  <2>2. ASSUME NEW n \in Node, SlowStore(n) PROVE TypeOK'
    BY <2>2 DEF SlowStore, Store
  <2>3. ASSUME NEW n \in Node, StartAgreement(n) PROVE TypeOK'
    BY <2>3 DEF StartAgreement
  <2>4. ASSUME NEW n \in Node, NEW q \in Node, Outcome(n, q) PROVE TypeOK'
    BY <2>4 DEF Outcome
  <2>5. ASSUME NEW n \in Node, MakeBlock(n) PROVE TypeOK'
    <3>1. PICK q \in outcome :
            /\ block' = [block EXCEPT ![n] =
                    {[named |-> proposal[q], empty |-> proposal[q] \ content[n]]}]
            /\ pc' = [pc EXCEPT ![n] = "done"]
            /\ UNCHANGED <<flag, content, proposal, outcome>>
      BY <2>5 DEF MakeBlock, HasBatches
    <3>2. q \in Node
      BY <3>1
    <3>3. [named |-> proposal[q], empty |-> proposal[q] \ content[n]]
            \in [named : SUBSET Node, empty : SUBSET Node]
      BY <3>2
    <3> QED
      BY <3>1, <3>3
  <2>6. ASSUME NEW n \in Node, Close(n) PROVE TypeOK'
    BY <2>6 DEF Close
  <2>7. CASE UNCHANGED vars
    BY <2>7 DEF vars
  <2> QED
    BY <2>1, <2>2, <2>3, <2>4, <2>5, <2>6, <2>7 DEF Next, Step
<1> QED
  BY <1>1, <1>2, PTL DEF Spec
-----------------------------------------------------------------------------
\* The collector writes flag before content.
Collected ==
    \A n \in Node :
        /\ content[n] \subseteq flag[n]
        /\ n \notin Slow => content[n] = flag[n]

\* A proposal is made when Enough batches are there, and only then; nobody
\* enters the agreement without.
Proposed ==
    \A n \in Node :
        /\ pc[n] # "broadcasts" => proposal[n] # {}
        /\ proposal[n] # {} =>
            /\ proposal[n] \subseteq flag[n]
            /\ Cardinality(proposal[n]) >= Enough
            /\ Cardinality(content[n]) >= Enough

\* The outcome is the proposal of a node that started, accepted by 2T + 1.
Agreed ==
    \A q \in outcome :
        /\ Started(q)
        /\ Cardinality(Accept(q)) >= 2 * T + 1

\* A block is the set agreed on, and the batches stored by then.
Made ==
    \A n \in Node : \A b \in block[n] :
        /\ \E q \in outcome : b.named = proposal[q]
        /\ n \notin Slow => b.empty = {}

IInv == TypeOK /\ Collected /\ Proposed /\ Agreed /\ Made

\* A step takes no flag back, and leaves the proposal of a node in the agreement
\* as it is: the batches come to Enough once.
LEMMA Monotonic ==
    ASSUME IInv, Next
    PROVE  \A m \in Node :
            /\ flag[m] \subseteq flag'[m]
            /\ Started(m) => Started(m)' /\ proposal'[m] = proposal[m]
<1> USE DEF IInv, TypeOK
<1>1. ASSUME NEW n \in Node, NEW batches, batches \subseteq Node,
             content[n] \subseteq batches, content[n] # batches,
             Store(n, batches), Proposed
      PROVE  \A m \in Node : Started(m) => proposal'[m] = proposal[m]
  <2>1. Started(n) => Cardinality(content[n]) >= Enough
    BY <1>1 DEF Proposed, Started
  <2>2. Cardinality(content[n]) < Cardinality(batches)
    BY <1>1, Larger
  <2>3. Started(n) => Cardinality(batches) # Enough
    BY <1>1, <2>1, <2>2, Sizes, NodeSets
  <2> QED
    BY <1>1, <2>3 DEF Store
<1>2. ASSUME NEW n \in Node, NEW p \in Node, Collect(n, p)
      PROVE  \A m \in Node :
            /\ flag[m] \subseteq flag'[m]
            /\ Started(m) => Started(m)' /\ proposal'[m] = proposal[m]
  <2>1. \A m \in Node : flag[m] \subseteq flag'[m] /\ (Started(m) => Started(m)')
    BY <1>2 DEF Collect, Started
  <2>2. CASE n \in Slow
    BY <1>2, <2>1, <2>2 DEF Collect, Collects
  <2>3. CASE n \notin Slow
    <3>1. Store(n, flag[n] \union {p}) /\ content[n] = flag[n] /\ p \notin flag[n]
      BY <1>2, <2>3 DEF Collect, Collects
    <3>2. \A m \in Node : Started(m) => proposal'[m] = proposal[m]
      BY <1>1, <3>1
    <3> QED
      BY <2>1, <3>2
  <2> QED
    BY <2>2, <2>3
<1>3. ASSUME NEW n \in Node, SlowStore(n)
      PROVE  \A m \in Node :
            /\ flag[m] \subseteq flag'[m]
            /\ Started(m) => Started(m)' /\ proposal'[m] = proposal[m]
  <2>1. \A m \in Node : Started(m) => proposal'[m] = proposal[m]
    BY <1>1, <1>3 DEF SlowStore, MidStep, Collected
  <2> QED
    BY <1>3, <2>1 DEF SlowStore, MidStep, Started
<1>4. ASSUME NEW n \in Node,
             StartAgreement(n) \/ (\E q \in Node : Outcome(n, q)) \/ MakeBlock(n) \/ Close(n)
      PROVE  \A m \in Node :
            /\ flag[m] \subseteq flag'[m]
            /\ Started(m) => Started(m)' /\ proposal'[m] = proposal[m]
  BY <1>4 DEF StartAgreement, MayStart, Outcome, MakeBlock, Close, Started
<1> QED
  BY <1>2, <1>3, <1>4 DEF Next, Step

\* The invariant is inductive.
LEMMA Inductive == Spec => []IInv
<1>1. Init => IInv
  <2> SUFFICES ASSUME Init PROVE IInv
    OBVIOUS
  <2>1. TypeOK
    BY SettledAssumption DEF Init, TypeOK
  <2> QED
    BY <2>1 DEF Init, IInv, Collected, Proposed, Agreed, Made
<1>2. TypeOK' /\ IInv /\ [Next]_vars => IInv'
  <2> SUFFICES ASSUME TypeOK', IInv, [Next]_vars PROVE IInv'
    OBVIOUS
  <2>0. CASE UNCHANGED vars
    <3> USE <2>0 DEF vars
    <3>1. Collected' /\ Proposed' /\ Made'
      BY DEF IInv, Collected, Proposed, Made
    <3>2. Agreed'
      BY DEF IInv, Agreed, Accept, Started
    <3> QED
      BY <3>1, <3>2 DEF IInv
  <2>1. CASE Next
    <3> USE <2>1
    <3> DEFINE Grows == \A m \in Node :
                /\ flag[m] \subseteq flag'[m]
                /\ Started(m) => Started(m)' /\ proposal'[m] = proposal[m]
    <3>1. Grows
      BY Monotonic
    <3>2. Collected'
      <4> USE DEF IInv, TypeOK, Collected
      <4>1. ASSUME NEW n \in Node, NEW p \in Node, Collect(n, p) PROVE Collected'
        BY <4>1 DEF Collect, Store
      <4>2. ASSUME NEW n \in Node, SlowStore(n) PROVE Collected'
        BY <4>2 DEF SlowStore, Store
      <4>3. ASSUME UNCHANGED <<flag, content>> PROVE Collected'
        BY <4>3
      <4> QED
        BY <4>1, <4>2, <4>3 DEF Next, Step, StartAgreement, Outcome, MakeBlock, Close
    <3>3. Proposed'
      <4>1. ASSUME NEW n \in Node, NEW batches, batches \subseteq flag'[n],
                   content[n] \subseteq batches, Store(n, batches), UNCHANGED pc
            PROVE  Proposed'
        <5>1. ASSUME NEW m \in Node, m # n
              PROVE  proposal'[m] = proposal[m] /\ content'[m] = content[m]
          BY <4>1, <5>1 DEF Store, IInv, TypeOK
        <5>2. content'[n] = batches
          BY <4>1 DEF Store, IInv, TypeOK
        <5>3. batches \subseteq Node
          BY <4>1 DEF TypeOK
        <5>4. CASE Cardinality(batches) = Enough
          <6>1. proposal'[n] = batches
            BY <4>1, <5>4 DEF Store, IInv, TypeOK
          <6>2. Cardinality(batches) >= Enough
            BY <5>4, Sizes
          <6>3. batches # {}
            BY <5>4, Sizes, FS_EmptySet
          <6> QED
            BY <3>1, <4>1, <5>1, <5>2, <6>1, <6>2, <6>3 DEF IInv, Proposed
        <5>5. CASE Cardinality(batches) # Enough
          <6>1. proposal' = proposal
            BY <4>1, <5>5 DEF Store
          <6>2. Cardinality(content[n]) <= Cardinality(batches)
            BY <4>1, <5>3, NodeSets
          <6>3. Cardinality(content[n]) >= Enough => Cardinality(batches) >= Enough
            BY <4>1, <5>3, <6>2, NodeSets, Sizes
          <6> QED
            BY <3>1, <4>1, <5>1, <5>2, <6>1, <6>3 DEF IInv, Proposed
        <5> QED
          BY <5>4, <5>5
      <4>2. ASSUME NEW n \in Node, NEW p \in Node, Collect(n, p) PROVE Proposed'
        <5>1. CASE n \in Slow
          BY <3>1, <4>2, <5>1 DEF Collect, Collects, IInv, Proposed
        <5>2. CASE n \notin Slow
          <6>1. flag'[n] = flag[n] \union {p}
            BY <4>2 DEF Collect, Collects, IInv, TypeOK
          <6> QED
            BY <4>1, <4>2, <5>2, <6>1 DEF Collect, Collects, IInv, Collected
        <5> QED
          BY <5>1, <5>2
      <4>3. ASSUME NEW n \in Node, SlowStore(n) PROVE Proposed'
        BY <4>1, <4>3 DEF SlowStore, MidStep, IInv, Collected
      <4>4. ASSUME NEW n \in Node, StartAgreement(n) PROVE Proposed'
        <5>1. PICK S \in SUBSET flag[n] :
                /\ proposal[n] \subseteq S
                /\ proposal' = [proposal EXCEPT ![n] = S]
          BY <4>4 DEF StartAgreement, MayStart
        <5>2. Cardinality(proposal[n]) >= Enough
          BY <4>4 DEF StartAgreement, MayStart, IInv, Proposed
        <5>3. S \subseteq Node
          BY DEF IInv, TypeOK
        <5>4. Cardinality(S) >= Enough
          BY <5>1, <5>2, <5>3, NodeSets, Sizes
        <5>5. proposal[n] # {} /\ S # {}
          BY <4>4, <5>1 DEF StartAgreement, MayStart
        <5>6. /\ proposal'[n] = S
              /\ \A m \in Node : m # n => proposal'[m] = proposal[m] /\ pc'[m] = pc[m]
              /\ UNCHANGED <<flag, content>>
          BY <4>4, <5>1 DEF StartAgreement, MayStart, IInv, TypeOK
        <5> QED
          BY <5>1, <5>4, <5>5, <5>6 DEF IInv, Proposed
      <4>5. ASSUME NEW n \in Node,
                   (\E q \in Node : Outcome(n, q)) \/ MakeBlock(n) \/ Close(n)
            PROVE  Proposed'
        BY <4>5 DEF Outcome, MayAgree, MakeBlock, HasBatches, Close, IInv, TypeOK, Proposed
      <4> QED
        BY <4>2, <4>3, <4>4, <4>5 DEF Next, Step
    <3>4. Agreed'
      <4>1. ASSUME NEW q \in Node, Started(q), Cardinality(Accept(q)) >= 2 * T + 1
            PROVE  Started(q)' /\ Cardinality(Accept(q)') >= 2 * T + 1
        <5>1. Accept(q) \subseteq Accept(q)' /\ Accept(q)' \subseteq Node
          BY <3>1, <4>1 DEF Accept
        <5>2. /\ Cardinality(Accept(q)) <= Cardinality(Accept(q)')
              /\ Cardinality(Accept(q)) \in Nat /\ Cardinality(Accept(q)') \in Nat
          BY <5>1, NodeSets
        <5> QED
          BY <3>1, <4>1, <5>2, Sizes
      <4>2. ASSUME NEW r \in outcome'
            PROVE  r \in Node /\ Started(r) /\ Cardinality(Accept(r)) >= 2 * T + 1
        <5>1. CASE r \in outcome
          BY <5>1 DEF IInv, TypeOK, Agreed
        <5>2. CASE r \notin outcome
          BY <4>2, <5>2, ZenonT(60) DEF Next, Step, Collect, SlowStore, StartAgreement, Outcome, MayAgree,
                 MakeBlock, Close
        <5> QED
          BY <5>1, <5>2
      <4> QED
        BY <4>1, <4>2 DEF Agreed
    <3>5. Made'
      <4>1. ASSUME NEW q \in outcome
            PROVE  q \in outcome' /\ proposal'[q] = proposal[q]
        <5>1. q \in Node /\ Started(q)
          BY DEF IInv, TypeOK, Agreed
        <5>2. q \in outcome'
          BY DEF Next, Step, Collect, SlowStore, StartAgreement, Outcome, MayAgree,
                 MakeBlock, Close
        <5> QED
          BY <3>1, <5>1, <5>2
      <4>2. ASSUME UNCHANGED block PROVE Made'
        BY <4>1, <4>2 DEF IInv, Made
      <4>3. ASSUME NEW n \in Node, MakeBlock(n) PROVE Made'
        <5>1. PICK q \in outcome :
                /\ proposal[q] \subseteq flag[n]
                /\ block' = [block EXCEPT ![n] =
                        {[named |-> proposal[q], empty |-> proposal[q] \ content[n]]}]
          BY <4>3 DEF MakeBlock, HasBatches, HasAll
        <5>2. n \notin Slow => proposal[q] \ content[n] = {}
          BY <5>1 DEF IInv, Collected
        <5>3. ASSUME NEW m \in Node, NEW b \in block'[m]
              PROVE  /\ \E r \in outcome' : b.named = proposal'[r]
                     /\ m \notin Slow => b.empty = {}
          <6>1. CASE m = n
            BY <4>1, <5>1, <5>2, <5>3, <6>1 DEF IInv, TypeOK
          <6>2. CASE m # n
            <7>1. b \in block[m]
              BY <5>1, <5>3, <6>2 DEF IInv, TypeOK
            <7> QED
              BY <4>1, <7>1 DEF IInv, Made
          <6> QED
            BY <6>1, <6>2
        <5> QED
          BY <5>3 DEF Made
      <4> QED
        BY <4>2, <4>3 DEF Next, Step, Collect, SlowStore, StartAgreement, Outcome, Close
    <3> QED
      BY <3>2, <3>3, <3>4, <3>5 DEF IInv
  <2> QED
    BY <2>0, <2>1
<1> QED
  BY <1>1, <1>2, TypeCorrect, PTL DEF Spec

\* Any two nodes that make a block of the round make it of the same batches,
\* and a collector that is not preempted leaves none of them empty.
THEOREM BlocksSame == Spec => []BlocksAgree
<1>1. IInv => BlocksAgree
  <2> SUFFICES ASSUME IInv PROVE BlocksAgree
    OBVIOUS
  <2>1. \A q, r \in outcome : q = r
    BY DEF IInv, TypeOK
  <2> QED
    BY <2>1 DEF IInv, Made, BlocksAgree
<1> QED
  BY <1>1, Inductive, PTL

\* A block names 2T + 1 batches or more, and 2T + 1 nodes have each of them.
THEOREM BlocksBacked == Spec => []BlockIsBacked
<1>1. IInv => BlockIsBacked
  <2> SUFFICES ASSUME IInv, NEW n \in Node, NEW b \in block[n]
      PROVE  /\ Cardinality(b.named) >= 2 * T + 1
             /\ \A p \in b.named : Cardinality(Holders(p)) >= 2 * T + 1
    BY DEF BlockIsBacked
  <2>1. PICK q \in outcome : b.named = proposal[q]
    BY DEF IInv, Made
  <2>2. q \in Node /\ Started(q) /\ Cardinality(Accept(q)) >= 2 * T + 1
    BY <2>1 DEF IInv, TypeOK, Agreed
  <2>3. Cardinality(b.named) >= 2 * T + 1
    BY <2>1, <2>2 DEF IInv, Proposed, Started, Enough
  <2>4. ASSUME NEW p \in b.named PROVE Cardinality(Holders(p)) >= 2 * T + 1
    <3>1. Accept(q) \subseteq Holders(p) /\ Holders(p) \subseteq Node
      BY <2>1 DEF Accept, Holders
    <3>2. /\ Cardinality(Accept(q)) <= Cardinality(Holders(p))
          /\ Cardinality(Accept(q)) \in Nat /\ Cardinality(Holders(p)) \in Nat
      BY <3>1, NodeSets
    <3> QED
      BY <2>2, <3>2, Sizes
  <2> QED
    BY <2>3, <2>4
<1> QED
  BY <1>1, Inductive, PTL
-----------------------------------------------------------------------------
\* A collector is behind its flags by one batch at most.
Stepwise == \A n \in Node : \E p \in Node : flag[n] \subseteq content[n] \union {p}

\* Who has Enough batches has a proposal.
Prompted == \A n \in Node : Cardinality(content[n]) >= Enough => proposal[n] # {}

\* Whoever is past the agreement has an outcome, and past the batches a block.
Ended ==
    \A n \in Node :
        /\ pc[n] \in {"batches", "done", "closed"} => outcome # {}
        /\ Over(n) => block[n] # {}

RestInv == Stepwise /\ Prompted /\ Ended

LEMMA RestInit == Init => RestInv
<1> SUFFICES ASSUME Init PROVE RestInv
  OBVIOUS
<1>1. \A n \in Node : Cardinality(flag[n]) < Enough
  <2>1. Cardinality({}) = 0 /\ (Node # {} => Enough > 0)
    BY FS_EmptySet, Sizes
  <2>2. Cardinality(Settled) < Enough
    BY SettledAssumption, Sizes, NodeSets DEF Enough
  <2>3. \A n \in Node : flag[n] = Settled \/ flag[n] = {}
    BY DEF Init
  <2> QED
    BY <2>1, <2>2, <2>3
<1>2. \A n \in Node : Cardinality(flag[n]) \in Nat
  BY SettledAssumption, NodeSets DEF Init
<1>3. Prompted
  BY <1>1, <1>2, Sizes DEF Init, Prompted
<1> QED
  BY <1>3 DEF Init, RestInv, Stepwise, Ended, Over

LEMMA RestStep == IInv /\ RestInv /\ [Next]_vars => RestInv'
<1> SUFFICES ASSUME IInv, RestInv, [Next]_vars PROVE RestInv'
  OBVIOUS
<1>1. TypeOK /\ Collected
  BY DEF IInv
<1>2. ASSUME NEW n \in Node, NEW batches, batches \subseteq Node, content[n] \subseteq batches,
             NEW p \in Node, batches \subseteq content[n] \union {p}, Store(n, batches)
      PROVE  /\ Prompted'
             /\ content'[n] = batches /\ \A m \in Node : m # n => content'[m] = content[m]
  <2>1. content'[n] = batches /\ \A m \in Node : m # n => content'[m] = content[m]
    BY <1>1, <1>2 DEF Store, TypeOK
  <2>2. \A m \in Node : m # n => proposal'[m] = proposal[m]
    BY <1>1, <1>2 DEF Store, TypeOK
  <2>3. CASE Cardinality(batches) = Enough
    <3>1. proposal'[n] = batches
      BY <1>1, <1>2, <2>3 DEF Store, TypeOK
    <3>2. batches # {}
      BY <2>3, Sizes, FS_EmptySet
    <3> QED
      BY <2>1, <2>2, <3>1, <3>2 DEF RestInv, Prompted
  <2>4. CASE Cardinality(batches) # Enough
    <3>1. proposal' = proposal
      BY <1>2, <2>4 DEF Store
    <3>2. /\ IsFiniteSet(content[n]) /\ Cardinality(content[n]) \in Nat
          /\ Cardinality(batches) \in Nat /\ Cardinality(batches) <= Cardinality(content[n] \union {p})
      BY <1>1, <1>2, NodeSets DEF TypeOK
    <3>3. Cardinality(content[n] \union {p}) <= Cardinality(content[n]) + 1
      <4> DEFINE S == content[n]
      <4>1. Cardinality(S \union {p}) = IF p \in S THEN Cardinality(S) ELSE Cardinality(S) + 1
        <5>1. IsFiniteSet(S)
          BY <3>2
        <5> HIDE DEF S
        <5> QED
          BY <5>1, FS_AddElement
      <4> QED
        BY <3>2, <4>1
    <3>4. Cardinality(content[n] \union {p}) \in Nat
      BY <1>1, NodeSets DEF TypeOK
    <3>5. Cardinality(batches) >= Enough => Cardinality(content[n]) >= Enough
      BY <2>4, <3>2, <3>3, <3>4, Sizes
    <3> QED
      BY <2>1, <3>1, <3>5 DEF RestInv, Prompted
  <2> QED
    BY <2>1, <2>3, <2>4
<1>3. ASSUME NEW n \in Node, NEW p \in Node, Collect(n, p) PROVE RestInv'
  <2>1. /\ content[n] = flag[n] /\ flag'[n] = flag[n] \union {p}
        /\ \A m \in Node : m # n => flag'[m] = flag[m]
        /\ UNCHANGED <<pc, outcome, block>>
    BY <1>1, <1>3 DEF Collect, Collects, TypeOK
  <2>2. Ended'
    BY <2>1 DEF RestInv, Ended, Over
  <2>3. CASE n \in Slow
    BY <1>3, <2>1, <2>2, <2>3 DEF Collect, RestInv, Stepwise, Prompted
  <2>4. CASE n \notin Slow
    <3>1. Store(n, flag[n] \union {p})
      BY <1>3, <2>4 DEF Collect
    <3>2. flag[n] \union {p} \subseteq Node
      BY <1>1 DEF TypeOK
    <3>3. /\ Prompted'
          /\ content'[n] = flag[n] \union {p} /\ \A m \in Node : m # n => content'[m] = content[m]
      BY <1>2, <2>1, <3>1, <3>2
    <3>4. Stepwise'
      BY <2>1, <3>3 DEF RestInv, Stepwise
    <3> QED
      BY <2>2, <3>3, <3>4 DEF RestInv
  <2> QED
    BY <2>3, <2>4
<1>4. ASSUME NEW n \in Node, SlowStore(n) PROVE RestInv'
  <2>1. Store(n, flag[n]) /\ UNCHANGED <<flag, pc, outcome, block>>
    BY <1>4 DEF SlowStore
  <2>2. PICK p \in Node : flag[n] \subseteq content[n] \union {p}
    BY DEF RestInv, Stepwise
  <2>3. flag[n] \subseteq Node /\ content[n] \subseteq flag[n]
    BY <1>1 DEF TypeOK, Collected
  <2>4. /\ Prompted'
        /\ content'[n] = flag[n] /\ \A m \in Node : m # n => content'[m] = content[m]
    BY <1>2, <2>1, <2>2, <2>3
  <2>5. Stepwise' /\ Ended'
    BY <2>1, <2>4 DEF RestInv, Stepwise, Ended, Over
  <2> QED
    BY <2>4, <2>5 DEF RestInv
<1>5. ASSUME NEW n \in Node, StartAgreement(n) PROVE RestInv'
  <2>1. PICK S \in SUBSET flag[n] :
          proposal[n] \subseteq S /\ proposal' = [proposal EXCEPT ![n] = S]
    BY <1>5 DEF StartAgreement
  <2>2. proposal[n] # {} /\ UNCHANGED <<flag, content, outcome, block>>
    BY <1>5 DEF StartAgreement, MayStart
  <2>3. Prompted'
    BY <1>1, <2>1, <2>2 DEF RestInv, Prompted, TypeOK
  <2>4. \A m \in Node : pc'[m] = pc[m] \/ pc'[m] = "agreement"
    BY <1>1, <1>5 DEF StartAgreement, TypeOK
  <2> QED
    BY <2>2, <2>3, <2>4 DEF RestInv, Stepwise, Ended, Over
<1>6. ASSUME NEW n \in Node, NEW q \in Node, Outcome(n, q) PROVE RestInv'
  <2>1. /\ outcome' = {q} /\ UNCHANGED <<flag, content, proposal, block>>
        /\ \A m \in Node : pc'[m] = pc[m] \/ pc'[m] = "batches"
    BY <1>1, <1>6 DEF Outcome, TypeOK
  <2> QED
    BY <2>1 DEF RestInv, Stepwise, Prompted, Ended, Over
<1>7. ASSUME NEW n \in Node, MakeBlock(n) PROVE RestInv'
  <2>1. PICK q \in outcome :
          block' = [block EXCEPT ![n] =
                        {[named |-> proposal[q], empty |-> proposal[q] \ content[n]]}]
    BY <1>7 DEF MakeBlock
  <2>2. /\ block'[n] # {} /\ \A m \in Node : m # n => block'[m] = block[m]
    BY <1>1, <2>1 DEF TypeOK
  <2>3. /\ outcome # {} /\ UNCHANGED <<flag, content, proposal, outcome>>
        /\ \A m \in Node : m # n => pc'[m] = pc[m]
    BY <1>1, <1>7 DEF MakeBlock, TypeOK
  <2> QED
    BY <2>2, <2>3 DEF RestInv, Stepwise, Prompted, Ended, Over
<1>8. ASSUME NEW n \in Node, Close(n) PROVE RestInv'
  <2>1. /\ pc[n] = "done" /\ UNCHANGED <<flag, content, proposal, outcome, block>>
        /\ \A m \in Node : m # n => pc'[m] = pc[m]
    BY <1>1, <1>8 DEF Close, TypeOK
  <2> QED
    BY <2>1 DEF RestInv, Stepwise, Prompted, Ended, Over
<1>9. CASE UNCHANGED vars
  BY <1>9 DEF vars, RestInv, Stepwise, Prompted, Ended, Over
<1> QED
  BY <1>3, <1>4, <1>5, <1>6, <1>7, <1>8, <1>9 DEF Next, Step

LEMMA RestInvariant == Spec => [](IInv /\ RestInv)
<1>1. RestInv /\ IInv /\ [Next]_vars => RestInv'
  BY RestStep
<1> QED
  BY <1>1, RestInit, Inductive, PTL DEF Spec

\* A correct node at rest has stored what its flags say, and has what the
\* broadcasts promise it.
LEMMA HasPromised ==
    ASSUME IInv, AtRest, NEW n \in Correct, ~ Over(n)
    PROVE  /\ content[n] = flag[n]
           /\ \A p \in Node : Promised(p) => p \in flag[n]
<1>1. n \in Running /\ ~ GoesOn(n)
  BY NodeAssumption DEF AtRest
<1>2. content[n] = flag[n]
  BY <1>1 DEF GoesOn, MidStep
<1>3. \A p \in Node : ~ (Promised(p) /\ Collects(n, p))
  BY <1>1 DEF GoesOn
<1> QED
  BY <1>1, <1>2, <1>3 DEF Collects

\* Once there is an outcome, a correct node goes on to its block.
LEMMA RestsWithOutcome ==
    ASSUME IInv, RestInv, AtRest, Tolerable, NEW q \in outcome, NEW n \in Correct, ~ Over(n)
    PROVE  FALSE
<1>1. /\ n \in Node /\ q \in Node /\ outcome = {q} /\ Started(q)
      /\ Cardinality(Accept(q)) >= 2 * T + 1 /\ Cardinality(proposal[q]) >= Enough
      /\ proposal[q] \subseteq Node /\ flag[n] \subseteq Node
      /\ pc[n] \in {"broadcasts", "agreement", "batches"}
  BY NodeAssumption DEF IInv, TypeOK, Agreed, Proposed, Started, Over
<1>2. proposal[q] \subseteq flag[n] /\ content[n] = flag[n]
  <2>1. \A p \in proposal[q] : p \in Node /\ Promised(p)
    BY <1>1 DEF Promised, Named
  <2> QED
    BY <2>1, HasPromised
<1>3. ~ GoesOn(n)
  BY DEF AtRest
<1>4. CASE pc[n] = "batches"
  BY <1>2, <1>3, <1>4 DEF GoesOn, HasBatches, HasAll
<1>5. CASE pc[n] = "agreement"
  BY <1>1, <1>3, <1>5 DEF GoesOn, MayAgree
<1>6. CASE pc[n] = "broadcasts"
  <2>1. Cardinality(content[n]) >= Enough
    BY <1>1, <1>2, NodeSets, Sizes
  <2> QED
    BY <1>1, <1>3, <1>6, <2>1 DEF GoesOn, MayStart, RestInv, Prompted
<1> QED
  BY <1>1, <1>4, <1>5, <1>6

\* Before there is one, the correct nodes go on to the agreement, where each of
\* them accepts what each proposes.
LEMMA RestsWithout ==
    ASSUME IInv, RestInv, AtRest, Tolerable, outcome = {}, NEW n \in Correct
    PROVE  FALSE
<1>1. \A m \in Node : ~ Over(m) /\ pc[m] \in {"broadcasts", "agreement"}
  BY DEF RestInv, Ended, Over, IInv, TypeOK
<1>2. Present = Correct /\ n \in Node /\ Correct \subseteq Node
  BY <1>1, NodeAssumption DEF Present
<1>3. Cardinality(Correct) >= 2 * T + 1 /\ Cardinality(Correct) \in Nat
  <2>1. Cardinality(Correct) \in Nat /\ Cardinality(Correct) >= N - T
    BY <1>2, NodeSets DEF Tolerable
  <2> QED
    BY <2>1, Sizes DEF T
<1>4. \A m \in Correct : /\ flag[m] \subseteq Node /\ content[m] = flag[m]
                         /\ Correct \subseteq flag[m]
  <2> SUFFICES ASSUME NEW m \in Correct
               PROVE  flag[m] \subseteq Node /\ content[m] = flag[m] /\ Correct \subseteq flag[m]
    OBVIOUS
  <2>1. \A p \in Correct : p \in Node /\ Promised(p)
    BY <1>1, <1>2 DEF Promised
  <2> QED
    BY <1>1, <1>2, <2>1, HasPromised DEF IInv, TypeOK
<1>5. \A m \in Correct : pc[m] = "agreement"
  <2> SUFFICES ASSUME NEW m \in Correct, pc[m] = "broadcasts" PROVE FALSE
    BY <1>1, <1>2
  <2>1. Cardinality(content[m]) >= Enough
    BY <1>3, <1>4, NodeSets, Sizes DEF Enough
  <2>2. proposal[m] # {}
    BY <1>2, <2>1 DEF RestInv, Prompted
  <2> QED
    BY <2>2 DEF AtRest, GoesOn, MayStart
<1>6. \A m \in Correct : flag[n] \subseteq flag[m]
  <2> SUFFICES ASSUME NEW m \in Correct, NEW p \in flag[n] PROVE p \in flag[m]
    OBVIOUS
  <2>1. p \in Node
    BY <1>4
  <2>2. p \in Correct \/ n \in Holders(p) \ {p}
    BY <1>2 DEF Holders
  <2>3. Promised(p)
    BY <1>1, <1>2, <2>2 DEF Promised
  <2> QED
    BY <1>1, <1>2, <2>1, <2>3, HasPromised
<1>7. Started(n) /\ Correct \subseteq Accept(n) /\ Accept(n) \subseteq Node
  <2>1. \A m \in Correct : Started(m)
    BY <1>5, NodeAssumption DEF Started
  <2>2. proposal[n] \subseteq flag[n]
    BY <1>2 DEF IInv, Proposed
  <2> QED
    BY <1>2, <1>6, <2>1, <2>2 DEF Accept
<1>8. Cardinality(Accept(n)) >= 2 * T + 1
  BY <1>3, <1>7, NodeSets, Sizes
<1>9. MayAgree(n, n)
  BY <1>5, <1>7, <1>8 DEF MayAgree
<1> QED
  BY <1>2, <1>9 DEF AtRest, GoesOn

\* The round comes to its block at every correct node, unless more than T nodes
\* are gone or have dropped what they had to send: none of the waits of Run is
\* for ever, for any number of nodes and whichever of them are preempted.
THEOREM RestsWithBlocks == Spec => []RoundEnds
<1>1. IInv /\ RestInv => RoundEnds
  <2> SUFFICES ASSUME IInv, RestInv, AtRest, Tolerable, NEW n \in Correct PROVE block[n] # {}
    BY DEF RoundEnds, AllHaveBlocks
  <2>1. Over(n)
    <3>1. CASE outcome = {}
      BY <3>1, RestsWithout
    <3>2. CASE outcome # {}
      BY <3>2, RestsWithOutcome
    <3> QED
      BY <3>1, <3>2
  <2> QED
    BY <2>1, NodeAssumption DEF RestInv, Ended
<1> QED
  BY <1>1, RestInvariant, PTL
-----------------------------------------------------------------------------
\* Whoever has a block has its batches: no flag is taken back.
HasItsBlock == \A n \in Node : \A b \in block[n] : b.named \subseteq flag[n]

LEMMA HasItsBlockStep == IInv /\ HasItsBlock /\ [Next]_vars => HasItsBlock'
<1> SUFFICES ASSUME IInv, HasItsBlock, [Next]_vars, NEW m \in Node, NEW b \in block'[m]
             PROVE  b.named \subseteq flag'[m]
  BY DEF HasItsBlock
<1>1. flag[m] \subseteq flag'[m]
  BY Monotonic DEF vars
<1>2. CASE b \in block[m]
  BY <1>1, <1>2 DEF HasItsBlock
<1>3. ASSUME b \notin block[m], NEW n \in Node, MakeBlock(n) PROVE b.named \subseteq flag'[m]
  <2>1. PICK q \in outcome :
          /\ proposal[q] \subseteq flag[n]
          /\ block' = [block EXCEPT ![n] =
                        {[named |-> proposal[q], empty |-> proposal[q] \ content[n]]}]
    BY <1>3 DEF MakeBlock, HasBatches, HasAll
  <2>2. m = n
    BY <1>3, <2>1 DEF IInv, TypeOK
  <2>3. b = [named |-> proposal[q], empty |-> proposal[q] \ content[n]]
    BY <2>1, <2>2 DEF IInv, TypeOK
  <2> QED
    BY <1>1, <2>1, <2>2, <2>3
<1> QED
  BY <1>2, <1>3 DEF Next, Step, Collect, SlowStore, StartAgreement, Outcome, Close, vars

\* What CodedBroadcast assumes of a node that closes done, with the broadcasts named
\* in the outcome as the elected ones (CloseDone): it has them all, and 2T + 1 nodes
\* have each.
ElectedAreDelivered ==
    \A n \in Node : Over(n) =>
        /\ outcome # {}
        /\ \A p \in Named : n \in Holders(p) /\ Cardinality(Holders(p)) >= 2 * T + 1

\* A node leaves the round only when the broadcasts of its block have done their
\* part: wait_rbc_done stands before close(done) (conseneus.go:114-116).
THEOREM LeavesWithAll == Spec => []ElectedAreDelivered
<1>1. IInv /\ RestInv /\ BlockIsBacked /\ HasItsBlock => ElectedAreDelivered
  <2> SUFFICES ASSUME IInv, RestInv, BlockIsBacked, HasItsBlock, NEW n \in Node, Over(n)
               PROVE  /\ outcome # {}
                      /\ \A p \in Named : n \in Holders(p) /\ Cardinality(Holders(p)) >= 2 * T + 1
    BY DEF ElectedAreDelivered
  <2>1. outcome # {} /\ block[n] # {}
    BY DEF RestInv, Ended, Over
  <2>2. PICK b \in block[n] : TRUE
    BY <2>1
  <2>3. Named = b.named
    BY <2>2 DEF Named, IInv, TypeOK, Made
  <2>4. \A p \in Named : n \in Holders(p) /\ Cardinality(Holders(p)) >= 2 * T + 1
    BY <2>2, <2>3 DEF BlockIsBacked, HasItsBlock, Holders
  <2> QED
    BY <2>1, <2>4
<1>2. Init => HasItsBlock
  BY DEF Init, HasItsBlock
<1> QED
  BY <1>1, <1>2, HasItsBlockStep, RestInvariant, BlocksBacked, PTL DEF Spec
-----------------------------------------------------------------------------
(* The round between two abstract specifications: it is a common block for    *)
(* the driver, and uses the agreement as a validated agreement may be used.   *)

\* A block is there only once the round is over.
BlocksEnd == \A n \in Node : block[n] # {} => Over(n)

LEMMA BlocksEndStep == TypeOK /\ BlocksEnd /\ [Next]_vars => BlocksEnd'
<1> SUFFICES ASSUME TypeOK, BlocksEnd, [Next]_vars PROVE BlocksEnd'
  OBVIOUS
<1>1. ASSUME NEW n \in Node, Step(n), NEW m \in Node, block'[m] # {} PROVE Over(m)'
  <2>1. CASE block[m] # {}
    <3>1. Over(m)
      BY <2>1 DEF BlocksEnd
    <3> QED
      BY <1>1, <3>1
      DEF Step, Collect, SlowStore, StartAgreement, MayStart, Outcome, MayAgree, MakeBlock, Close, Over, TypeOK
  <2>2. CASE block[m] = {}
    <3>1. MakeBlock(n) /\ m = n
      BY <1>1, <2>2 DEF Step, Collect, SlowStore, StartAgreement, Outcome, MakeBlock, Close, TypeOK
    <3> QED
      BY <3>1 DEF MakeBlock, Over, TypeOK
  <2> QED
    BY <2>1, <2>2
<1>2. CASE UNCHANGED vars
  BY <1>2 DEF vars, BlocksEnd, Over
<1> QED
  BY <1>1, <1>2 DEF Next, BlocksEnd

\* The instances count with a Cardinality of their own.
LEMMA SameCardinality ==
    \A S : Common!Cardinality(S) = Cardinality(S) /\ Agreement!Cardinality(S) = Cardinality(S)
BY DEF Common!Cardinality, Agreement!Cardinality, Cardinality

\* The blocks of the nodes, as the sets of batches they name.
Sets == [n \in Node |-> {b.named : b \in block[n]}]

\* A round makes at each node one block at most, of batches the node has and of
\* which 2T + 1 nodes have each, and the same at all nodes (conseneus.go:96-118).
THEOREM Implements == Spec => Refinement
<1>1. Init => Common!Init
  BY SettledAssumption DEF Init, Common!Init
<1>2. IInv /\ BlockIsBacked' /\ BlocksEnd /\ IInv' /\ [Next]_vars => [Common!Next]_(Common!vars)
  <2> SUFFICES ASSUME IInv, BlockIsBacked', BlocksEnd, IInv', [Next]_vars
               PROVE  [Common!Next]_(Common!vars)
    OBVIOUS
  <2>1. CASE UNCHANGED <<flag, block>>
    BY <2>1 DEF Common!vars
  <2>2. ASSUME NEW n \in Node, NEW p \in Node, Collect(n, p) PROVE Common!Next
    <3>1. Common!Deliver(n, p)
      BY <2>2 DEF Collect, Common!Deliver
    <3> QED
      BY <3>1 DEF Common!Next
  <2>3. ASSUME NEW n \in Node, MakeBlock(n) PROVE Common!Next
    <3>1. PICK q \in outcome :
            /\ pc[n] = "batches" /\ proposal[q] \subseteq flag[n]
            /\ block' = [block EXCEPT ![n] =
                            {[named |-> proposal[q], empty |-> proposal[q] \ content[n]]}]
            /\ UNCHANGED <<flag, content, proposal, outcome>>
      BY <2>3 DEF MakeBlock, HasBatches, HasAll
    <3>2. q \in Node /\ outcome = {q} /\ proposal[q] \in SUBSET Node /\ block \in [Node -> SUBSET [named : SUBSET Node, empty : SUBSET Node]]
      BY <3>1 DEF IInv, TypeOK
    <3> DEFINE b0 == [named |-> proposal[q], empty |-> proposal[q] \ content[n]]
    <3>3. block'[n] = {b0} /\ b0.named = proposal[q] /\ \A m \in Node : m # n => block'[m] = block[m]
      BY <3>1, <3>2
    <3>4. block[n] = {}
      BY <3>1 DEF BlocksEnd, Over
    <3>5. Cardinality(proposal[q]) >= 2 * T + 1
          /\ \A p \in proposal[q] : Cardinality(Holders(p)') >= 2 * T + 1
      BY <3>3 DEF BlockIsBacked
    <3> HIDE DEF b0
    <3>6. Sets[n] = {} /\ \A m \in Node : Sets[m] \subseteq {proposal[q]}
      BY <3>2, <3>4 DEF Sets, IInv, Made
    <3>7. Sets' = [Sets EXCEPT ![n] = {proposal[q]}]
      <4>1. Sets'[n] = {proposal[q]}
        BY <3>3 DEF Sets
      <4>2. \A m \in Node : m # n => Sets'[m] = Sets[m]
        BY <3>3 DEF Sets
      <4>3. Sets = [m \in Node |-> Sets[m]] /\ Sets' = [m \in Node |-> Sets'[m]]
        BY DEF Sets
      <4> QED
        BY <4>1, <4>2, <4>3
    <3>8. Common!T = T /\ \A p : Holders(p)' = Common!Holders(p)
      BY <3>1, SameCardinality DEF Common!T, Common!N, T, N, Holders, Common!Holders
    <3>9. PICK batches \in SUBSET Node : batches = proposal[q]
      BY <3>2
    <3>10. Common!MakeBlock(n, batches)
      BY <3>1, <3>5, <3>6, <3>7, <3>8, <3>9, SameCardinality DEF Common!MakeBlock, Sets
    <3> QED
      BY <3>10, Zenon DEF Common!Next
  <2> QED
    BY <2>1, <2>2, <2>3 DEF Next, Step, SlowStore, StartAgreement, Outcome, Close, vars
<1>3. Init => BlocksEnd
  BY DEF Init, BlocksEnd
<1>4. IInv => TypeOK
  BY DEF IInv
<1> QED
  BY <1>1, <1>2, <1>3, <1>4, BlocksEndStep, Inductive, BlocksBacked, PTL DEF Spec, Refinement, Common!Spec

\* Only running nodes get anything.
TakePart == \A n \in Node : flag[n] # {} => n \in Running

LEMMA TakePartStep == TypeOK /\ TakePart /\ [Next]_vars => TakePart'
<1> SUFFICES ASSUME TypeOK, TakePart, [Next]_vars PROVE TakePart'
  OBVIOUS
<1>1. ASSUME NEW n \in Node, NEW p \in Node, Collect(n, p) PROVE TakePart'
  BY <1>1 DEF Collect, Collects, TakePart, TypeOK
<1>2. CASE UNCHANGED flag
  BY <1>2 DEF TakePart
<1> QED
  BY <1>1, <1>2 DEF Next, Step, SlowStore, StartAgreement, Outcome, MakeBlock, Close, vars

\* What is valid stays so, and is proposed by who has joined.
LEMMA ValidStays ==
    ASSUME IInv, [Next]_vars
    PROVE  /\ {n \in Node : Started(n)} \subseteq {n \in Node : Started(n)}'
           /\ Valid \subseteq Valid'
<1>1. /\ \A m \in Node : flag[m] \subseteq flag'[m]
      /\ \A m \in Node : Started(m) => Started(m)' /\ proposal'[m] = proposal[m]
  <2>1. CASE UNCHANGED vars
    BY <2>1 DEF vars, Started
  <2> QED
    BY <2>1, Monotonic
<1>2. ASSUME NEW q \in Valid PROVE q \in Valid'
  <2>1. Accept(q) \subseteq Accept(q)' /\ Accept(q)' \subseteq Node
    BY <1>1, <1>2 DEF Accept, Valid
  <2>2. /\ Cardinality(Accept(q)) \in Nat /\ Cardinality(Accept(q)') \in Nat
        /\ Cardinality(Accept(q)) <= Cardinality(Accept(q)')
    BY <2>1, NodeSets
  <2> QED
    BY <1>1, <1>2, <2>2, Sizes DEF Valid
<1> QED
  BY <1>1, <1>2

\* The agreement that Outcome takes for granted is a validated agreement, seen from
\* this side: nodes propose once, what 2T + 1 accept stays accepted, and an outcome
\* is asked for once by each node (conseneus.go:100-112).
THEOREM UsesAgreement == Spec => Agreement!Spec
<1>1. Init => Agreement!Init
  <2> SUFFICES ASSUME Init PROVE Agreement!Init
    OBVIOUS
  <2>1. Given = [n \in Node |-> {}]
    BY DEF Init, Given
  <2>2. Valid \subseteq {n \in Node : Started(n)} /\ {n \in Node : Started(n)} \subseteq Node
    BY DEF Valid
  <2> QED
    BY <2>1, <2>2 DEF Agreement!Init
<1>2. IInv /\ IInv' /\ RestInv /\ TakePart /\ [Next]_vars => [Agreement!Next]_(Agreement!vars)
  <2> SUFFICES ASSUME IInv, IInv', RestInv, TakePart, [Next]_vars PROVE [Agreement!Next]_(Agreement!vars)
    OBVIOUS
  <2> DEFINE J == {n \in Node : Started(n)}
  <2>0. J \subseteq J' /\ Valid \subseteq Valid' /\ J' \subseteq Node /\ Valid' \subseteq J'
    BY ValidStays DEF Valid
  <2>1. CASE UNCHANGED Given
    <3>1. J' = J \union J' /\ Valid' = Valid \union Valid'
      BY <2>0
    <3>2. (\E more \in SUBSET Node : J' = J \union more) /\ \E more \in SUBSET J' : Valid' = Valid \union more
      BY <2>0, <3>1
    <3>3. Agreement!Prepare
      BY <2>1, <3>2 DEF Agreement!Prepare
    <3> QED
      BY <3>3 DEF Agreement!Next
  <2>2. ASSUME NEW n \in Node, NEW q \in Node, Outcome(n, q) PROVE Agreement!Next
    <3>1. /\ pc[n] = "agreement" /\ Started(q) /\ outcome \subseteq {q} /\ Cardinality(Accept(q)) >= 2 * T + 1
          /\ outcome' = {q} /\ pc' = [pc EXCEPT ![n] = "batches"]
          /\ UNCHANGED <<flag, proposal>> /\ pc \in [Node -> {"broadcasts", "agreement", "batches", "done", "closed"}]
      BY <2>2 DEF Outcome, MayAgree, IInv, TypeOK
    <3>2. q \in Valid
      BY <3>1 DEF Valid
    <3>3. Given[n] = {} /\ \A m \in Node : Given[m] \subseteq {q}
      BY <3>1 DEF Given
    <3>4. Given' = [Given EXCEPT ![n] = {q}]
      <4>1. \A m \in Node : Given'[m] = [Given EXCEPT ![n] = {q}][m]
        <5> SUFFICES ASSUME NEW m \in Node PROVE Given'[m] = [Given EXCEPT ![n] = {q}][m]
          OBVIOUS
        <5>1. CASE m = n
          BY <3>1, <5>1 DEF Given
        <5>2. CASE m # n
          <6>1. pc[m] \in {"batches", "done", "closed"} => outcome = {q}
            BY <3>1 DEF RestInv, Ended
          <6> QED
            BY <3>1, <5>2, <6>1 DEF Given
        <5> QED
          BY <5>1, <5>2
      <4> QED
        BY <4>1 DEF Given
    <3>5. J' = J /\ Valid' = Valid
      <4>1. \A m \in Node : Started(m)' <=> Started(m)
        BY <3>1 DEF Started
      <4>2. \A p \in Node : Accept(p)' = Accept(p)
        BY <3>1, <4>1 DEF Accept
      <4> QED
        BY <4>1, <4>2 DEF Valid
    <3>6. n \in J /\ Cardinality(J) >= 2 * T + 1
      <4>1. n \in Running
        BY <3>1 DEF IInv, Proposed, TakePart
      <4>2. Accept(q) \subseteq J /\ J \subseteq Node
        BY DEF Accept
      <4>3. Cardinality(J) \in Nat /\ Cardinality(Accept(q)) \in Nat /\ Cardinality(Accept(q)) <= Cardinality(J)
        BY <4>2, NodeSets
      <4> HIDE DEF J
      <4>4. Cardinality(J) >= 2 * T + 1
        BY <3>1, <4>3, Sizes
      <4> QED
        BY <3>1, <4>1, <4>4 DEF J, Started
    <3>7. Agreement!T = T
      BY SameCardinality DEF Agreement!T, Agreement!N, T, N
    <3>8. Agreement!Decide(n, q)
      BY <3>2, <3>3, <3>4, <3>5, <3>6, <3>7, SameCardinality DEF Agreement!Decide
    <3> QED
      BY <3>8 DEF Agreement!Next
  <2>3. CASE UNCHANGED vars
    BY <2>1, <2>3 DEF vars, Given
  <2>4. ASSUME NEW n \in Node, StartAgreement(n) \/ MakeBlock(n) \/ Close(n) PROVE UNCHANGED Given
    <3>1. /\ UNCHANGED outcome /\ pc \in [Node -> {"broadcasts", "agreement", "batches", "done", "closed"}]
          /\ \/ pc[n] = "broadcasts" /\ pc' = [pc EXCEPT ![n] = "agreement"]
             \/ pc[n] = "batches" /\ pc' = [pc EXCEPT ![n] = "done"]
             \/ pc[n] = "done" /\ pc' = [pc EXCEPT ![n] = "closed"]
      BY <2>4 DEF StartAgreement, MayStart, MakeBlock, HasBatches, Close, IInv, TypeOK
    <3>2. \A m \in Node : pc'[m] \in {"batches", "done", "closed"} <=> pc[m] \in {"batches", "done", "closed"}
      BY <3>1
    <3> QED
      BY <3>1, <3>2 DEF Given
  <2>5. ASSUME NEW n \in Node, SlowStore(n) \/ \E p \in Node : Collect(n, p) PROVE UNCHANGED Given
    BY <2>5 DEF SlowStore, Collect, Given
  <2> QED
    BY <2>1, <2>2, <2>3, <2>4, <2>5 DEF Next, Step
<1>3. Init => TakePart
  BY DEF Init, TakePart
<1>4. IInv => TypeOK
  BY DEF IInv
<1> QED
  BY <1>1, <1>2, <1>3, <1>4, TakePartStep, RestInvariant, PTL DEF Spec, Agreement!Spec
=============================================================================
