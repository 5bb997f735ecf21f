--------------------------- MODULE RoundDriverProof ---------------------------
(***************************************************************************)
(* Proofs about RoundDriver, for any number of nodes and rounds, and any     *)
(* peers of which no more than Fault are liars.                             *)
(***************************************************************************)
EXTENDS RoundDriver, FiniteSetTheorems, SequenceTheorems, WellFoundedInduction, TLAPS

AtLeast(p, v) == {i \in Node : p[i] >= v}
Above(p, v) == {i \in Node : p[i] > v}

\* Nodes, liars, faults are finitely many, and there are more nodes than faults.
LEMMA Sizes ==
    /\ IsFiniteSet(Node) /\ IsFiniteSet(Liar) /\ Fault \in Nat
    /\ Cardinality(Node) > Fault /\ Cardinality(Liar) <= Fault
    /\ \A S : S \subseteq Node => IsFiniteSet(S) /\ Cardinality(S) \in Nat
<1>1. IsFiniteSet(Peer) /\ IsFiniteSet(Liar) /\ Me \notin Peer
  BY PeerAssumption, FS_Subset
<1>2. Cardinality(Peer) \in Nat
  BY <1>1, FS_CardinalityType
<1>3. IsFiniteSet(Node) /\ Cardinality(Node) = Cardinality(Peer) + 1
  BY <1>1, FS_AddElement DEF Node
<1>4. Fault \in Nat /\ Fault <= Cardinality(Peer)
  BY <1>2 DEF Fault
<1>5. ASSUME NEW S, S \subseteq Node PROVE IsFiniteSet(S) /\ Cardinality(S) \in Nat
  BY <1>3, <1>5, FS_Subset, FS_CardinalityType
<1> QED
  BY <1>1, <1>2, <1>3, <1>4, <1>5, LiarAssumption

\* There is a safe priority: findFthLargest finds one.
LEMMA SafeIs ==
    ASSUME NEW p \in [Node -> Round]
    PROVE  /\ SafeOf(p) \in Round
           /\ Cardinality(AtLeast(p, SafeOf(p))) > Fault
<1> DEFINE low == {v \in Round : Cardinality(Above(p, v)) <= Fault}
<1>1. MaxRound \in low
  <2>1. Above(p, MaxRound) = {}
    BY BoundAssumption DEF Above, Round
  <2> QED
    BY <2>1, FS_EmptySet, Sizes, BoundAssumption DEF Round
<1>2. PICK v \in low : \A u \in low : ~ (u < v)
  <2> DEFINE below == {0 .. u : u \in low}
  <2>1. low \subseteq Nat /\ below # {}
    BY <1>1 DEF Round
  <2>2. below \subseteq FiniteSubsetsOf(Nat)
    <3>1. ASSUME NEW u \in low PROVE 0 .. u \in FiniteSubsetsOf(Nat)
      BY <2>1, FS_Interval DEF FiniteSubsetsOf
    <3> QED
      BY <3>1
  <2>3. PICK b \in below : \A c \in below : ~ (<<c, b>> \in StrictSubsetOrdering(Nat))
    <3> HIDE DEF below
    <3> QED
      BY <2>1, <2>2, FS_StrictSubsetOrderingWellFounded, WFMin
  <2>4. PICK v \in low : b = 0 .. v
    OBVIOUS
  <2> HIDE DEF low
  <2>5. ASSUME NEW u \in low, u < v PROVE FALSE
    <3>1. 0 .. u \subseteq 0 .. v /\ v \in 0 .. v /\ v \notin 0 .. u /\ 0 .. v \subseteq Nat
      BY <2>1, <2>5
    <3>2. <<0 .. u, b>> \in StrictSubsetOrdering(Nat)
      BY <3>1, <2>4 DEF StrictSubsetOrdering
    <3> QED
      BY <3>2, <2>3
  <2> QED
    BY <2>5
<1>3. Cardinality(AtLeast(p, v)) > Fault
  <2>1. CASE v = 0
    <3>1. AtLeast(p, v) = Node
      BY <2>1 DEF AtLeast, Round
    <3> QED
      BY <3>1, Sizes
  <2>2. CASE v # 0
    <3>1. v - 1 \in Round /\ v - 1 < v
      BY <2>2, BoundAssumption DEF Round
    <3>2. ~ (Cardinality(Above(p, v - 1)) <= Fault)
      BY <3>1, <1>2
    <3>3. Above(p, v - 1) = AtLeast(p, v)
      BY <3>1 DEF Above, AtLeast, Round
    <3>4. Cardinality(AtLeast(p, v)) \in Nat
      BY Sizes DEF AtLeast
    <3> QED
      BY <3>2, <3>3, <3>4, Sizes
  <2> QED
    BY <2>1, <2>2
<1>4. \E w \in Round :
        /\ Cardinality({i \in Node : p[i] >= w}) > Fault
        /\ Cardinality({i \in Node : p[i] > w}) <= Fault
  BY <1>3 DEF AtLeast, Above
<1> QED
  BY <1>4 DEF SafeOf, AtLeast
-----------------------------------------------------------------------------
\* What HandleOwnCallHelp and the peers' answers do does not concern main.
LEMMA Aside ==
    ASSUME Help \/ \E i \in Peer : Answer(i) \/ AnswerFalsely(i)
    PROVE  UNCHANGED <<peerRound, mainVars, safeVars>>
BY DEF Help, TakeCall, SendCall, TakeAnswer, HandOver, Answer, AnswerFalsely, Heard

\* Taking the first of a sequence.
LEMMA Taken ==
    ASSUME NEW S, NEW q \in Seq(S), q # <<>>
    PROVE  /\ Head(q) \in S /\ Head(q) = q[1] /\ 1 \in 1 .. Len(q)
           /\ Tail(q) \in Seq(S)
           /\ \A i \in 1 .. Len(Tail(q)) : Tail(q)[i] = q[i + 1] /\ i + 1 \in 2 .. Len(q)
<1>1. Len(q) \in Nat \ {0}
  BY EmptySeq
<1>2. Head(q) = q[1]
  BY <1>1
<1> QED
  BY <1>1, <1>2, HeadTailProperties

(***************************************************************************)
(* Safe priorities come in increasing order, and the driver calls for one   *)
(* only if it is beyond the next round.                                    *)
(***************************************************************************)
Calling == pc \in {"call", "wait"}

Increasing ==
    /\ \A k \in 1 .. Len(safeCH) : safeCH[k] <= safePriority
    /\ \A j, k \in 1 .. Len(safeCH) : j < k => safeCH[j] < safeCH[k]
    /\ Calling => /\ round + 1 < end /\ end <= safePriority
                  /\ \A k \in 1 .. Len(safeCH) : end < safeCH[k]

TypeInv == TypeOK /\ Increasing /\ (pc = "select" => round < MaxRound)

LEMMA PrioritiesRound == ASSUME TypeInv, NEW i \in Node PROVE Announced(i) \subseteq Round
BY BoundAssumption DEF Announced, TypeInv, TypeOK, Node

LEMMA HandleType ==
    ASSUME TypeInv, NEW i \in Node, HandlePriorities(i)
    PROVE  /\ maxPriorities' \in [Node -> Round]
           /\ safePriority' \in Round \union {-1} /\ safePriority' >= safePriority
           /\ safeCH' \in Seq(Round)
           /\ \/ UNCHANGED <<safePriority, safeCH>>
              \/ /\ safePriority' = SafeOf(maxPriorities') /\ safePriority' > safePriority
                 /\ safeCH' = Append(safeCH, safePriority')
<1> USE DEF TypeInv, TypeOK
<1>1. PICK p \in Announced(i) :
        /\ maxPriorities' = [maxPriorities EXCEPT ![i] = p]
        /\ IF p > safePriority /\ SafeOf(maxPriorities') > safePriority
           THEN safePriority' = SafeOf(maxPriorities') /\ safeCH' = Append(safeCH, SafeOf(maxPriorities'))
           ELSE UNCHANGED <<safePriority, safeCH>>
  BY DEF HandlePriorities
<1>2. Announced(i) \subseteq Round
  BY PrioritiesRound
<1>3. maxPriorities' \in [Node -> Round]
  BY <1>1, <1>2
<1>4. SafeOf(maxPriorities') \in Round
  BY <1>3, SafeIs
<1>5. Append(safeCH, SafeOf(maxPriorities')) \in Seq(Round)
  BY <1>4, AppendProperties
<1>6. safePriority \in Int /\ safePriority \in Round \union {-1} /\ safeCH \in Seq(Round)
  BY BoundAssumption DEF Round
<1>7. SafeOf(maxPriorities') \in Int
  BY <1>4, BoundAssumption DEF Round
<1> HIDE DEF TypeInv, TypeOK
<1>8. CASE UNCHANGED <<safePriority, safeCH>>
  BY <1>3, <1>6, <1>8
<1>9. CASE /\ SafeOf(maxPriorities') > safePriority
           /\ safePriority' = SafeOf(maxPriorities') /\ safeCH' = Append(safeCH, SafeOf(maxPriorities'))
  BY <1>3, <1>4, <1>5, <1>6, <1>7, <1>9
<1> QED
  BY <1>1, <1>8, <1>9

HelperType ==
    [pr : Round \union {-1}, left : SUBSET Peer, from : SUBSET Peer, content : SUBSET (Peer \X Block),
     block : Block \union {NoBlock}]

LEMMA AnswerType ==
    ASSUME TypeInv, TakeAnswer
    PROVE  assistCH' \in Seq([from : Peer, block : Block]) /\ helper' \in HelperType
<1> USE DEF TypeInv, TypeOK
<1> DEFINE a == Head(assistCH)
           answers == helper.content \union {<<a.from, a.block>>}
<1>1. a \in [from : Peer, block : Block] /\ assistCH' \in Seq([from : Peer, block : Block])
  BY Taken DEF TakeAnswer
<1>2. a.from \in Peer /\ a.block \in Block /\ helper \in HelperType
  BY <1>1 DEF HelperType
<1>3. [helper EXCEPT !.from = @ \union {a.from}, !.content = answers] \in HelperType
  <2>1. helper.from \union {a.from} \in SUBSET Peer /\ answers \in SUBSET (Peer \X Block)
    BY <1>2 DEF HelperType
  <2> HIDE DEF a, answers
  <2> QED
    BY <1>2, <2>1 DEF HelperType
<1>4. [IdleHelper EXCEPT !.pr = helper.pr, !.block = a.block] \in HelperType
  BY <1>2 DEF IdleHelper, HelperType
<1>5. \/ helper' = helper
      \/ helper' = [IdleHelper EXCEPT !.pr = helper.pr, !.block = a.block]
      \/ helper' = [helper EXCEPT !.from = @ \union {a.from}, !.content = answers]
  BY DEF TakeAnswer
<1> HIDE DEF a, answers
<1> QED
  BY <1>1, <1>2, <1>3, <1>4, <1>5

LEMMA StepType == TypeInv /\ [Next]_vars => TypeOK'
<1> SUFFICES ASSUME TypeInv, [Next]_vars PROVE TypeOK'
  OBVIOUS
<1> USE DEF TypeInv, TypeOK
<1>1. CASE RunReturns
  BY <1>1 DEF RunReturns, safeVars, helpVars
<1>2. CASE TakeResult
  <2>1. round + 1 \in Round
    BY <1>2, BoundAssumption DEF TakeResult, Round
  <2>2. <<round, "agreed">> \in Block
    BY DEF Block
  <2> QED
    BY <1>2, <2>1, <2>2 DEF TakeResult, safeVars, helpVars
<1>3. CASE TakeSafe
  <2>1. Head(safeCH) \in Round /\ Tail(safeCH) \in Seq(Round)
    BY <1>3, Taken DEF TakeSafe
  <2> QED
    BY <1>3, <2>1 DEF TakeSafe, helpVars
<1>4. CASE CallNewer
  <2>1. Head(safeCH) \in Round /\ Tail(safeCH) \in Seq(Round)
    BY <1>4, Taken DEF CallNewer
  <2> QED
    BY <1>4, <2>1 DEF CallNewer, helpVars
<1>14. CASE MakeCall
  <2>1. next + 1 \in Round
    BY <1>14, BoundAssumption DEF MakeCall, CallsTo, Round
  <2>2. Append(myCallHelp, next) \in Seq(Round)
    BY AppendProperties
  <2> QED
    BY <1>14, <2>1, <2>2 DEF MakeCall, safeVars
<1>5. CASE CallReturns
  <2>1. LastBlock + 1 \in Round
    BY <1>5, BoundAssumption DEF CallReturns, LastBlock, Increasing, Calling, Round
  <2> QED
    BY <1>5, <2>1 DEF CallReturns, safeVars, helpVars
<1>6. CASE TakeBlock
  <2>1. Head(blockCH) \in Block /\ Tail(blockCH) \in Seq(Block)
    BY <1>6, Taken DEF TakeBlock
  <2> QED
    BY <1>6, <2>1 DEF TakeBlock, safeVars
<1>7. CASE TakeCall
  <2>1. Head(myCallHelp) \in Round /\ Tail(myCallHelp) \in Seq(Round)
    BY <1>7, Taken DEF TakeCall
  <2> QED
    BY <1>7, <2>1 DEF TakeCall, mainVars, safeVars
<1>15. ASSUME NEW i \in Peer, SendCall(i) PROVE TypeOK'
  BY <1>15 DEF SendCall, mainVars, safeVars
<1>8. CASE TakeAnswer
  BY <1>8, AnswerType DEF TakeAnswer, mainVars, safeVars, HelperType
<1>16. CASE HandOver
  <2>1. Append(blockCH, helper.block) \in Seq(Block)
    BY <1>16, AppendProperties DEF HandOver
  <2>2. IdleHelper \in HelperType
    BY DEF IdleHelper, HelperType
  <2> QED
    BY <1>16, <2>1, <2>2 DEF HandOver, mainVars, safeVars, HelperType
<1>9. ASSUME NEW i \in Peer, PeerAdvances(i) PROVE TypeOK'
  BY <1>9, BoundAssumption DEF PeerAdvances, mainVars, safeVars, helpVars
<1>10. ASSUME NEW i \in Peer, NEW content \in {"agreed", "forged"}, Heard(i, content) PROVE TypeOK'
  <2> DEFINE a == [from |-> i, block |-> <<awaited[i], content>>]
  <2>1. a \in [from : Peer, block : Block]
    BY <1>10 DEF Heard, Block
  <2>2. Append(assistCH, a) \in Seq([from : Peer, block : Block])
    BY <2>1, AppendProperties
  <2> QED
    BY <1>10, <2>2 DEF Heard, mainVars, safeVars
<1>11. ASSUME NEW i \in Peer, Answer(i) \/ AnswerFalsely(i) PROVE TypeOK'
  BY <1>10, <1>11, Zenon DEF Answer, AnswerFalsely
<1>12. ASSUME NEW i \in Node, HandlePriorities(i) PROVE TypeOK'
  BY <1>12, HandleType DEF HandlePriorities, mainVars, helpVars
<1>13. CASE UNCHANGED vars
  BY <1>13 DEF vars, mainVars, safeVars, helpVars
<1> QED
  BY <1>1, <1>2, <1>3, <1>4, <1>5, <1>6, <1>7, <1>8, <1>9, <1>11, <1>12, <1>13, <1>14, <1>15, <1>16, Zenon
     DEF Next, Driver, Help
-----------------------------------------------------------------------------
\* What is left of the safe priorities when one is taken.
LEMMA TakenInOrder ==
    ASSUME TypeInv, safeCH # <<>>, safeCH' = Tail(safeCH)
    PROVE  /\ Head(safeCH) \in Round /\ Head(safeCH) = safeCH[1] /\ 1 \in 1 .. Len(safeCH)
           /\ Head(safeCH) <= safePriority
           /\ \A k \in 1 .. Len(safeCH') : safeCH'[k] <= safePriority /\ Head(safeCH) < safeCH'[k]
           /\ \A j, k \in 1 .. Len(safeCH') : j < k => safeCH'[j] < safeCH'[k]
<1>1. safeCH \in Seq(Round) /\ Increasing
  BY DEF TypeInv, TypeOK
<1>2. /\ Head(safeCH) \in Round /\ Head(safeCH) = safeCH[1] /\ 1 \in 1 .. Len(safeCH)
      /\ \A i \in 1 .. Len(safeCH') : safeCH'[i] = safeCH[i + 1] /\ i + 1 \in 2 .. Len(safeCH)
  BY <1>1, Taken
<1>3. Len(safeCH) \in Nat /\ Len(safeCH') \in Nat
  BY <1>1, Taken, LenProperties
<1>4. ASSUME NEW k \in 1 .. Len(safeCH') PROVE safeCH'[k] <= safePriority /\ Head(safeCH) < safeCH'[k]
  <2>1. safeCH'[k] = safeCH[k + 1] /\ k + 1 \in 1 .. Len(safeCH) /\ 1 < k + 1
    BY <1>2, <1>3
  <2> QED
    BY <1>1, <1>2, <2>1 DEF Increasing
<1>5. ASSUME NEW j \in 1 .. Len(safeCH'), NEW k \in 1 .. Len(safeCH'), j < k
      PROVE  safeCH'[j] < safeCH'[k]
  <2>1. j + 1 \in 1 .. Len(safeCH) /\ k + 1 \in 1 .. Len(safeCH) /\ j + 1 < k + 1
    BY <1>2, <1>3, <1>5
  <2>2. safeCH'[j] = safeCH[j + 1] /\ safeCH'[k] = safeCH[k + 1]
    BY <1>2
  <2> QED
    BY <1>1, <2>1, <2>2 DEF Increasing
<1> QED
  BY <1>1, <1>2, <1>4, <1>5 DEF Increasing

LEMMA StepIncreasing == TypeInv /\ [Next]_vars => Increasing' /\ (pc' = "select" => round' < MaxRound)
<1> SUFFICES ASSUME TypeInv, [Next]_vars PROVE Increasing' /\ (pc' = "select" => round' < MaxRound)
  OBVIOUS
<1>0. TypeOK /\ Increasing /\ (pc = "select" => round < MaxRound)
  BY DEF TypeInv
<1>1. CASE RunReturns
  BY <1>0, <1>1 DEF RunReturns, safeVars, Increasing, Calling
<1>2. CASE TakeResult
  BY <1>0, <1>2 DEF TakeResult, safeVars, Increasing, Calling
<1>3. CASE TakeSafe
  <2>1. UNCHANGED <<safePriority, round>> /\ pc = "select"
    BY <1>3 DEF TakeSafe
  <2>2. \/ pc' = "call" /\ end' = Head(safeCH) /\ end' > round + 1
        \/ pc' = "select"
    BY <1>3, <2>1 DEF TakeSafe, Follow
  <2>3. round + 1 \in Int /\ end' > round + 1 <=> round + 1 < end'
    BY <1>0, BoundAssumption DEF TypeOK, Round
  <2> QED
    BY <1>0, <1>3, <2>1, <2>2, <2>3, TakenInOrder DEF TakeSafe, Increasing, Calling
<1>4. CASE CallNewer
  <2>1. UNCHANGED <<safePriority, round>> /\ pc = "call" /\ pc' = "wait" /\ end' = Head(safeCH)
    BY <1>4 DEF CallNewer
  <2>2. round + 1 < end /\ end < end' /\ end' \in Round
    BY <1>0, <1>4, <2>1, TakenInOrder DEF CallNewer, Increasing, Calling
  <2>3. round + 1 < end'
    BY <1>0, <2>2, BoundAssumption DEF TypeOK, Round
  <2> QED
    BY <1>0, <1>4, <2>1, <2>3, TakenInOrder DEF CallNewer, Increasing, Calling
<1>9. CASE MakeCall
  BY <1>0, <1>9 DEF MakeCall, safeVars, Increasing, Calling
<1>5. CASE CallReturns
  BY <1>0, <1>5 DEF CallReturns, safeVars, Increasing, Calling
<1>6. CASE TakeBlock
  BY <1>0, <1>6 DEF TakeBlock, safeVars, Increasing, Calling
<1>7. CASE UNCHANGED <<mainVars, safeVars>>
  BY <1>0, <1>7 DEF mainVars, safeVars, Increasing, Calling
<1>8. ASSUME NEW i \in Node, HandlePriorities(i)
      PROVE  Increasing' /\ (pc' = "select" => round' < MaxRound)
  <2>1. UNCHANGED mainVars
    BY <1>8 DEF HandlePriorities
  <2>2. CASE UNCHANGED <<safePriority, safeCH>>
    BY <1>0, <2>1, <2>2 DEF mainVars, Increasing, Calling
  <2>3. CASE safePriority' > safePriority /\ safeCH' = Append(safeCH, safePriority') /\ safePriority' \in Round
    <3>1. /\ Len(safeCH) \in Nat /\ Len(safeCH') = Len(safeCH) + 1
          /\ \A k \in 1 .. Len(safeCH) : safeCH'[k] = safeCH[k] /\ safeCH[k] \in Round
          /\ safeCH'[Len(safeCH')] = safePriority'
      BY <1>0, <2>3, AppendProperties, LenProperties, ElementOfSeq DEF TypeOK
    <3>2. \A k \in 1 .. Len(safeCH') : k \in 1 .. Len(safeCH) \/ k = Len(safeCH')
      BY <3>1
    <3>3. safePriority \in Int /\ Round \subseteq Int
      BY <1>0, BoundAssumption DEF TypeOK, Round
    <3>4. ASSUME NEW k \in 1 .. Len(safeCH) PROVE safeCH'[k] \in Round /\ safeCH'[k] < safePriority'
      <4>1. safeCH[k] <= safePriority
        BY <1>0 DEF Increasing
      <4>2. safeCH'[k] = safeCH[k] /\ safeCH[k] \in Round
        BY <3>1
      <4>3. safeCH[k] \in Int /\ safePriority \in Int /\ safePriority' \in Int /\ safePriority < safePriority'
        BY <2>3, <3>3, <4>2
      <4>4. safeCH[k] < safePriority'
        BY <4>1, <4>3
      <4> QED
        BY <4>2, <4>4
    <3>5. ASSUME NEW k \in 1 .. Len(safeCH') PROVE safeCH'[k] <= safePriority'
      <4>1. safePriority' \in Int /\ safePriority' <= safePriority'
        BY <2>3, <3>3
      <4>2. CASE k \in 1 .. Len(safeCH)
        <5>1. safeCH'[k] \in Int /\ safeCH'[k] < safePriority'
          BY <3>3, <3>4, <4>2
        <5> QED
          BY <4>1, <5>1
      <4>3. CASE k = Len(safeCH')
        BY <3>1, <4>1, <4>3
      <4> QED
        BY <3>2, <4>2, <4>3
    <3>6. ASSUME NEW j \in 1 .. Len(safeCH'), NEW k \in 1 .. Len(safeCH'), j < k
          PROVE  safeCH'[j] < safeCH'[k]
      <4>1. j \in 1 .. Len(safeCH)
        BY <3>1, <3>6
      <4> QED
        BY <1>0, <3>1, <3>2, <3>4, <3>6, <4>1 DEF Increasing
    <3>7. ASSUME Calling'
          PROVE  round' + 1 < end' /\ end' <= safePriority' /\ \A k \in 1 .. Len(safeCH') : end' < safeCH'[k]
      <4>1. round + 1 < end /\ end <= safePriority /\ end \in Int /\ \A k \in 1 .. Len(safeCH) : end < safeCH[k]
        BY <1>0, <2>1, <3>3, <3>7 DEF mainVars, TypeOK, Increasing, Calling
      <4>2. end < safePriority'
        BY <2>3, <3>3, <4>1
      <4> QED
        BY <2>1, <2>3, <3>1, <3>2, <3>3, <4>1, <4>2 DEF mainVars
    <3> QED
      BY <1>0, <2>1, <3>5, <3>6, <3>7 DEF mainVars, Increasing
  <2> QED
    BY <1>8, <2>2, <2>3, HandleType, SafeIs
<1> QED
  <2>1. CASE Help \/ UNCHANGED vars
    BY <1>7, <2>1, Aside DEF vars
  <2>2. ASSUME NEW i \in Peer, PeerAdvances(i) \/ Answer(i) \/ AnswerFalsely(i)
        PROVE  UNCHANGED <<mainVars, safeVars>>
    BY <2>2, Aside DEF PeerAdvances
  <2> QED
    BY <1>1, <1>2, <1>3, <1>4, <1>5, <1>6, <1>7, <1>8, <1>9, <2>1, <2>2 DEF Next, Driver
-----------------------------------------------------------------------------
(***************************************************************************)
(* A round the driver may jump to has been announced by more nodes than     *)
(* there are liars, so a correct peer has come to it.                      *)
(***************************************************************************)
Backed(p, v) == Cardinality(AtLeast(p, v)) > Fault

BackedInv ==
    /\ \A k \in 1 .. Len(safeCH) : Backed(maxPriorities, safeCH[k])
    /\ Calling => Backed(maxPriorities, end)

AnnouncedInv ==
    /\ \A i \in Peer \ Liar : maxPriorities[i] <= peerRound[i]
    /\ maxPriorities[Me] <= round

Inv == TypeInv /\ BackedInv /\ AnnouncedInv /\ MissingIsHeld

LEMMA Carried ==
    ASSUME Inv, NEW v \in Round, v > round, Backed(maxPriorities, v)
    PROVE  \E i \in Peer \ Liar : peerRound[i] >= v
<1> DEFINE S == AtLeast(maxPriorities, v)
<1>1. S \subseteq Node /\ IsFiniteSet(S) /\ Cardinality(S) \in Nat /\ Cardinality(S) > Fault
  BY Sizes DEF AtLeast, Backed
<1>2. Me \notin S
  BY BoundAssumption DEF Inv, AnnouncedInv, TypeInv, TypeOK, AtLeast, Node, Round
<1>3. ~ (S \subseteq Liar)
  <2> SUFFICES ASSUME S \subseteq Liar PROVE FALSE
    OBVIOUS
  <2>1. Cardinality(S) <= Cardinality(Liar)
    BY Sizes, FS_Subset
  <2> HIDE DEF S
  <2>2. Cardinality(Liar) \in Nat
    BY Sizes, FS_CardinalityType
  <2> QED
    BY <1>1, <2>1, <2>2, Sizes
<1>4. PICK i \in S : i \notin Liar
  BY <1>3
<1>5. i \in Peer \ Liar /\ maxPriorities[i] >= v
  BY <1>1, <1>2, <1>4 DEF AtLeast, Node
<1>6. maxPriorities[i] <= peerRound[i] /\ maxPriorities[i] \in Int /\ peerRound[i] \in Int /\ v \in Int
  BY <1>5, BoundAssumption DEF Inv, AnnouncedInv, TypeInv, TypeOK, Node, Round
<1> QED
  BY <1>5, <1>6

\* Announcements only grow.
LEMMA StaysBacked ==
    ASSUME TypeInv, [Next]_vars, NEW v \in Round, Backed(maxPriorities, v)
    PROVE  Backed(maxPriorities', v)
<1>1. maxPriorities \in [Node -> Round] /\ maxPriorities' \in [Node -> Round]
  BY StepType DEF TypeInv, TypeOK
<1>2. \A i \in Node : maxPriorities'[i] >= maxPriorities[i]
  <2>1. CASE UNCHANGED maxPriorities
    BY <1>1, <2>1, BoundAssumption DEF Round
  <2>2. ASSUME NEW i \in Node, HandlePriorities(i)
        PROVE  \A j \in Node : maxPriorities'[j] >= maxPriorities[j]
    <3>1. PICK p \in Announced(i) : Newer(i, p) /\ maxPriorities' = [maxPriorities EXCEPT ![i] = p]
      BY <2>2 DEF HandlePriorities
    <3>2. p \in Round
      BY <3>1, PrioritiesRound
    <3>3. p >= maxPriorities[i]
      BY <1>1, <3>1, <3>2, BoundAssumption DEF Round, Newer
    <3> QED
      BY <1>1, <3>1, <3>2, <3>3, BoundAssumption DEF Round
  <2>3. CASE Driver \/ Help \/ RunReturns \/ UNCHANGED vars
    BY <2>1, <2>3, Aside DEF Driver, RunReturns, TakeResult, TakeSafe, CallNewer, MakeCall, CallReturns, TakeBlock,
                             vars, safeVars
  <2>4. ASSUME NEW i \in Peer, PeerAdvances(i) \/ Answer(i) \/ AnswerFalsely(i) PROVE UNCHANGED maxPriorities
    BY <2>4, Aside DEF PeerAdvances, safeVars
  <2> QED
    BY <2>1, <2>2, <2>3, <2>4 DEF Next
<1>3. AtLeast(maxPriorities, v) \subseteq AtLeast(maxPriorities', v)
  BY <1>1, <1>2, BoundAssumption DEF AtLeast, Round
<1>4. /\ AtLeast(maxPriorities', v) \subseteq Node
      /\ IsFiniteSet(AtLeast(maxPriorities', v)) /\ Cardinality(AtLeast(maxPriorities', v)) \in Nat
  BY Sizes DEF AtLeast
<1>5. Cardinality(AtLeast(maxPriorities, v)) <= Cardinality(AtLeast(maxPriorities', v))
  BY <1>3, <1>4, FS_Subset
<1>6. Cardinality(AtLeast(maxPriorities, v)) \in Nat
  BY <1>3, <1>4, Sizes
<1> QED
  BY <1>4, <1>5, <1>6, Sizes DEF Backed

\* What the steps of the driver do to its round.
LEMMA RoundMoves ==
    ASSUME TypeInv, [Next]_vars
    PROVE  /\ round' \in Round /\ round \in Round
           /\ \/ round' = round
              \/ round' = round + 1 /\ db' = db \union {<<round, "agreed">>} /\ UNCHANGED peerRound
              \/ Calling /\ round' = end - 1 /\ UNCHANGED <<db, peerRound>>
<1>1. round' \in Round /\ round \in Round
  BY StepType DEF TypeInv, TypeOK
<1>2. CASE TakeResult
  BY <1>1, <1>2 DEF TakeResult
<1>3. CASE CallReturns
  <2>1. end \in Int
    BY BoundAssumption DEF TypeInv, TypeOK, Round
  <2> QED
    BY <1>1, <1>3, <2>1 DEF CallReturns, Calling, LastBlock
<1>4. CASE TakeSafe \/ CallNewer \/ MakeCall \/ TakeBlock \/ Help \/ RunReturns \/ UNCHANGED vars
  BY <1>1, <1>4, Aside DEF TakeSafe, CallNewer, MakeCall, TakeBlock, RunReturns, vars, mainVars
<1>5. ASSUME NEW i \in Peer, PeerAdvances(i) \/ Answer(i) \/ AnswerFalsely(i) PROVE UNCHANGED round
  BY <1>5, Aside DEF PeerAdvances, mainVars
<1>6. ASSUME NEW i \in Node, HandlePriorities(i) PROVE UNCHANGED round
  BY <1>6 DEF HandlePriorities, mainVars
<1> QED
  BY <1>1, <1>2, <1>3, <1>4, <1>5, <1>6 DEF Next, Driver

LEMMA RoundGrows == ASSUME TypeInv, [Next]_vars PROVE round' # round => round' > round
<1>1. Calling => end - 1 > round
  BY BoundAssumption DEF TypeInv, TypeOK, Increasing, Round
<1> QED
  BY <1>1, RoundMoves, BoundAssumption DEF Round

\* Peers only go on, and no block is ever taken out.
LEMMA PeersGrow ==
    ASSUME TypeInv, [Next]_vars
    PROVE  /\ db \subseteq db'
           /\ \A i \in Peer : peerRound'[i] >= peerRound[i] /\ peerRound[i] \in Round /\ peerRound'[i] \in Round
<1>1. peerRound \in [Peer -> Round] /\ peerRound' \in [Peer -> Round]
  BY StepType DEF TypeInv, TypeOK
<1>2. CASE UNCHANGED peerRound /\ db \subseteq db'
  BY <1>1, <1>2, BoundAssumption DEF Round
<1>3. ASSUME NEW i \in Peer, PeerAdvances(i)
      PROVE  /\ UNCHANGED db
             /\ \E r \in Round : r > peerRound[i] /\ peerRound' = [peerRound EXCEPT ![i] = r]
  BY <1>3, BoundAssumption DEF PeerAdvances, mainVars
<1>4. ASSUME NEW i \in Peer, PeerAdvances(i)
      PROVE  \A j \in Peer : peerRound'[j] >= peerRound[j] /\ peerRound[j] \in Round /\ peerRound'[j] \in Round
  BY <1>1, <1>3, <1>4, BoundAssumption DEF Round
<1>5. CASE Driver \/ Help \/ RunReturns \/ UNCHANGED vars
  BY <1>2, <1>5, Aside DEF Driver, TakeResult, TakeSafe, CallNewer, MakeCall, CallReturns, TakeBlock, RunReturns,
                           vars, mainVars
<1>6. ASSUME NEW i \in Peer, Answer(i) \/ AnswerFalsely(i) PROVE UNCHANGED peerRound /\ db \subseteq db'
  BY <1>6, Aside DEF mainVars
<1>7. ASSUME NEW i \in Node, HandlePriorities(i) PROVE UNCHANGED peerRound /\ db \subseteq db'
  BY <1>7 DEF HandlePriorities, mainVars
<1> QED
  BY <1>2, <1>3, <1>4, <1>5, <1>6, <1>7 DEF Next

LEMMA StepAnnounced == TypeInv /\ AnnouncedInv /\ [Next]_vars => AnnouncedInv'
<1> SUFFICES ASSUME TypeInv, AnnouncedInv, [Next]_vars PROVE AnnouncedInv'
  OBVIOUS
<1>1. maxPriorities \in [Node -> Round] /\ maxPriorities' \in [Node -> Round] /\ Me \in Node /\ Peer \subseteq Node
  BY StepType DEF TypeInv, TypeOK, Node
<1>2. CASE UNCHANGED maxPriorities
  <2>1. round' >= round /\ round \in Int /\ round' \in Int /\ Round \subseteq Int
    BY RoundMoves, RoundGrows, BoundAssumption DEF Round
  <2>2. ASSUME NEW i \in Peer \ Liar PROVE maxPriorities'[i] <= peerRound'[i]
    <3>1. maxPriorities'[i] = maxPriorities[i] /\ maxPriorities[i] <= peerRound[i] /\ maxPriorities[i] \in Int
      BY <1>1, <1>2, <2>1 DEF AnnouncedInv
    <3>2. peerRound'[i] >= peerRound[i] /\ peerRound[i] \in Int /\ peerRound'[i] \in Int
      BY <2>1, PeersGrow
    <3> QED
      BY <3>1, <3>2
  <2>3. maxPriorities'[Me] <= round'
    <3>1. maxPriorities'[Me] = maxPriorities[Me] /\ maxPriorities[Me] <= round /\ maxPriorities[Me] \in Int
      BY <1>1, <1>2, <2>1 DEF AnnouncedInv
    <3> QED
      BY <2>1, <3>1
  <2> QED
    BY <2>2, <2>3 DEF AnnouncedInv
<1>3. ASSUME NEW i \in Node, HandlePriorities(i) PROVE AnnouncedInv'
  <2>1. PICK p \in Announced(i) : maxPriorities' = [maxPriorities EXCEPT ![i] = p]
    BY <1>3 DEF HandlePriorities
  <2>2. UNCHANGED <<round, peerRound>>
    BY <1>3 DEF HandlePriorities, mainVars
  <2>3. round \in Int /\ peerRound \in [Peer -> Round] /\ Round \subseteq Int
    BY BoundAssumption DEF TypeInv, TypeOK, Round
  <2>4. ASSUME NEW j \in Peer \ Liar PROVE maxPriorities'[j] <= peerRound'[j]
    BY <1>1, <2>1, <2>2, <2>3, PeerAssumption DEF AnnouncedInv, Announced
  <2>5. maxPriorities'[Me] <= round'
    BY <1>1, <2>1, <2>2, <2>3 DEF AnnouncedInv, Announced
  <2> QED
    BY <2>4, <2>5 DEF AnnouncedInv
<1>4. CASE Driver \/ Help \/ RunReturns \/ UNCHANGED vars
  BY <1>2, <1>4, Aside DEF Driver, RunReturns, TakeResult, TakeSafe, CallNewer, MakeCall, CallReturns, TakeBlock,
                           vars, safeVars
<1>5. ASSUME NEW i \in Peer, PeerAdvances(i) \/ Answer(i) \/ AnswerFalsely(i) PROVE UNCHANGED maxPriorities
  BY <1>5, Aside DEF PeerAdvances, safeVars
<1> QED
  BY <1>2, <1>3, <1>4, <1>5 DEF Next

LEMMA StepBacked == TypeInv /\ BackedInv /\ [Next]_vars => BackedInv'
<1> SUFFICES ASSUME TypeInv, BackedInv, [Next]_vars PROVE BackedInv'
  OBVIOUS
<1>1. safeCH \in Seq(Round) /\ end \in Round
  BY DEF TypeInv, TypeOK
<1>2. \A k \in 1 .. Len(safeCH) : safeCH[k] \in Round /\ Backed(maxPriorities, safeCH[k])
  BY <1>1, ElementOfSeq DEF BackedInv
<1>3. \A v \in Round : Backed(maxPriorities, v) => Backed(maxPriorities', v)
  BY StaysBacked
<1>4. CASE UNCHANGED safeCH /\ (Calling' => Calling /\ UNCHANGED end)
  <2>1. \A k \in 1 .. Len(safeCH') : Backed(maxPriorities', safeCH'[k])
    BY <1>2, <1>3, <1>4
  <2>2. Calling' => Backed(maxPriorities', end')
    BY <1>1, <1>3, <1>4 DEF BackedInv
  <2> QED
    BY <2>1, <2>2 DEF BackedInv
<1>5. CASE safeCH # <<>> /\ safeCH' = Tail(safeCH) /\ (Calling' => end' = Head(safeCH))
  <2>1. /\ Head(safeCH) \in Round /\ Backed(maxPriorities, Head(safeCH))
        /\ \A k \in 1 .. Len(safeCH') : safeCH'[k] = safeCH[k + 1] /\ k + 1 \in 2 .. Len(safeCH)
    BY <1>1, <1>2, <1>5, Taken
  <2>2. Len(safeCH) \in Nat
    BY <1>1, LenProperties
  <2>3. \A k \in 1 .. Len(safeCH') : Backed(maxPriorities', safeCH'[k])
    <3>1. ASSUME NEW k \in 1 .. Len(safeCH') PROVE safeCH'[k] \in Round /\ Backed(maxPriorities, safeCH'[k])
      BY <1>2, <2>1, <2>2
    <3> QED
      BY <1>3, <3>1
  <2>4. Calling' => Backed(maxPriorities', end')
    BY <1>3, <1>5, <2>1
  <2> QED
    BY <2>3, <2>4 DEF BackedInv
<1>6. ASSUME NEW i \in Node, HandlePriorities(i) PROVE BackedInv'
  <2>1. UNCHANGED mainVars
    BY <1>6 DEF HandlePriorities
  <2>2. CASE UNCHANGED <<safePriority, safeCH>>
    BY <1>4, <2>1, <2>2 DEF mainVars, Calling
  <2>3. CASE safePriority' = SafeOf(maxPriorities') /\ safeCH' = Append(safeCH, safePriority')
    <3>1. safePriority' \in Round /\ Backed(maxPriorities', safePriority')
      BY <1>6, <2>3, HandleType, SafeIs DEF Backed
    <3>2. /\ Len(safeCH) \in Nat /\ Len(safeCH') = Len(safeCH) + 1
          /\ \A k \in 1 .. Len(safeCH) : safeCH'[k] = safeCH[k]
          /\ safeCH'[Len(safeCH')] = safePriority'
      BY <1>1, <2>3, <3>1, AppendProperties, LenProperties
    <3>3. \A k \in 1 .. Len(safeCH') : k \in 1 .. Len(safeCH) \/ k = Len(safeCH')
      BY <3>2
    <3>4. \A k \in 1 .. Len(safeCH') : Backed(maxPriorities', safeCH'[k])
      BY <1>2, <1>3, <3>1, <3>2, <3>3
    <3>5. Calling' => Backed(maxPriorities', end')
      BY <1>1, <1>3, <2>1 DEF mainVars, Calling, BackedInv
    <3> QED
      BY <3>4, <3>5 DEF BackedInv
  <2> QED
    BY <1>6, <2>2, <2>3, HandleType
<1>7. CASE TakeSafe
  <2>1. pc = "select" /\ safeCH # <<>> /\ safeCH' = Tail(safeCH) /\ ((pc' = "call" /\ end' = Head(safeCH)) \/ pc' = pc)
    BY <1>7 DEF TakeSafe
  <2> QED
    BY <1>5, <2>1 DEF Calling
<1>8. CASE CallNewer
  BY <1>5, <1>8 DEF CallNewer
<1>9. CASE TakeResult \/ MakeCall \/ CallReturns \/ TakeBlock \/ RunReturns \/ Help \/ UNCHANGED vars
  BY <1>4, <1>9, Aside DEF TakeResult, MakeCall, CallReturns, TakeBlock, RunReturns, vars, mainVars, safeVars, Calling
<1>10. ASSUME NEW i \in Peer, PeerAdvances(i) \/ Answer(i) \/ AnswerFalsely(i)
       PROVE  UNCHANGED safeCH /\ (Calling' => Calling /\ UNCHANGED end)
  BY <1>10, Aside DEF PeerAdvances, mainVars, safeVars, Calling
<1> QED
  BY <1>4, <1>6, <1>7, <1>8, <1>9, <1>10 DEF Next, Driver

LEMMA StepMissing == Inv /\ [Next]_vars => MissingIsHeld'
<1> SUFFICES ASSUME Inv, [Next]_vars, NEW r \in Round, r < round', r \notin Stored'
             PROVE  \E i \in Peer \ Liar : peerRound'[i] > r
  BY DEF MissingIsHeld
<1>1. TypeInv /\ MissingIsHeld /\ Round \subseteq Int
  BY BoundAssumption DEF Inv, Round
<1>2. r \notin Stored
  BY <1>1, PeersGrow DEF Stored
<1>3. CASE r < round
  <2>1. PICK i \in Peer \ Liar : peerRound[i] > r
    BY <1>1, <1>2, <1>3 DEF MissingIsHeld
  <2>2. peerRound'[i] >= peerRound[i] /\ peerRound[i] \in Round /\ peerRound'[i] \in Round
    BY <1>1, PeersGrow
  <2>3. r \in Int /\ peerRound[i] \in Int /\ peerRound'[i] \in Int
    BY <1>1, <2>2
  <2>4. peerRound'[i] > r
    BY <2>1, <2>2, <2>3
  <2> QED
    BY <2>4
<1>4. CASE ~ (r < round)
  <2>1. round \in Round /\ round' \in Round /\ round' # round
    BY <1>1, <1>4, RoundMoves
  <2>2. CASE round' = round + 1 /\ db' = db \union {<<round, "agreed">>}
    <3>1. r = round
      BY <1>1, <1>4, <2>1, <2>2
    <3>2. <<round, "agreed">> \in db' /\ <<round, "agreed">>[1] = round
      BY <2>2
    <3>3. round \in Stored'
      BY <3>2 DEF Stored
    <3> QED
      BY <3>1, <3>3
  <2>3. CASE Calling /\ round' = end - 1 /\ UNCHANGED <<db, peerRound>>
    <3>1. Backed(maxPriorities, end) /\ end \in Round /\ end > round
      BY <1>1, <2>1, <2>3 DEF Inv, BackedInv, TypeInv, TypeOK, Increasing
    <3>2. PICK i \in Peer \ Liar : peerRound[i] >= end
      BY <3>1, Carried
    <3>3. peerRound[i] \in Round
      BY <1>1 DEF TypeInv, TypeOK
    <3>4. r \in Int /\ peerRound[i] \in Int /\ end \in Int
      BY <1>1, <3>1, <3>3
    <3>5. r < end - 1
      BY <2>3, <3>4
    <3>6. peerRound'[i] > r
      BY <2>3, <3>2, <3>4, <3>5
    <3> QED
      BY <3>6
  <2> QED
    BY <1>1, <2>1, <2>2, <2>3, RoundMoves
<1> QED
  BY <1>3, <1>4
-----------------------------------------------------------------------------
(***************************************************************************)
(* A forged block, and one of a round that no correct peer has been through, *)
(* is answered by liars only, and they are too few.                         *)
(***************************************************************************)
HeldBlocks == {<<r, "agreed">> : r \in Passed}

GenuineInv ==
    /\ \A b \in db : b[2] = "agreed"
    /\ \A k \in 1 .. Len(blockCH) : blockCH[k] \in HeldBlocks
    /\ \A k \in 1 .. Len(assistCH) : assistCH[k].block \in HeldBlocks \/ assistCH[k].from \in Liar
    /\ \A x \in helper.content : x[2] \in HeldBlocks \/ x[1] \in Liar
    /\ helper.block # NoBlock => helper.block \in HeldBlocks

\* The rounds of correct peers grow, and their blocks.
LEMMA HeldGrow == ASSUME TypeInv, [Next]_vars PROVE Passed \subseteq Passed' /\ HeldBlocks \subseteq HeldBlocks'
<1>1. ASSUME NEW r \in Passed PROVE r \in Passed'
  <2>1. PICK i \in Peer \ Liar : peerRound[i] > r
    BY DEF Passed
  <2>2. peerRound'[i] >= peerRound[i] /\ peerRound[i] \in Int /\ peerRound'[i] \in Int /\ r \in Round /\ r \in Int
    BY PeersGrow, BoundAssumption DEF Passed, Round
  <2>3. peerRound'[i] > r
    BY <2>1, <2>2
  <2> QED
    BY <2>2, <2>3 DEF Passed
<1> QED
  BY <1>1 DEF HeldBlocks

LEMMA TooFewLiars ==
    ASSUME NEW answers, answers \subseteq Peer \X Block, NEW b \in Block,
           \A x \in answers : x[2] \in HeldBlocks \/ x[1] \in Liar,
           Cardinality({x \in answers : x[2] = b}) = EnoughEqual
    PROVE  b \in HeldBlocks
<1> SUFFICES ASSUME b \notin HeldBlocks PROVE FALSE
  OBVIOUS
<1> DEFINE S == {x \in answers : x[2] = b}
           f == [i \in Liar |-> <<i, b>>]
           range == {f[i] : i \in Liar}
<1>1. S \subseteq range
  <2> SUFFICES ASSUME NEW x \in S PROVE x \in range
    OBVIOUS
  <2>1. x[1] \in Liar /\ x = <<x[1], b>>
    OBVIOUS
  <2> QED
    BY <2>1
<1>2. IsFiniteSet(range) /\ Cardinality(range) <= Cardinality(Liar)
  <2>1. f \in Surjection(Liar, range)
    BY DEF Surjection
  <2> HIDE DEF f, range
  <2> QED
    BY <2>1, Sizes, FS_Surjection
<1>3. Cardinality(S) <= Cardinality(range) /\ Cardinality(S) \in Nat /\ Cardinality(range) \in Nat
  BY <1>1, <1>2, FS_Subset, FS_CardinalityType
<1>4. Cardinality(Liar) \in Nat
  BY Sizes, FS_CardinalityType
<1> HIDE DEF S, range
<1>5. Cardinality(S) = Fault + 1
  BY DEF S, EnoughEqual
<1> QED
  BY <1>2, <1>3, <1>4, <1>5, Sizes

LEMMA StepGenuine == TypeInv /\ GenuineInv /\ [Next]_vars => GenuineInv'
<1> SUFFICES ASSUME TypeInv, GenuineInv, [Next]_vars PROVE GenuineInv'
  OBVIOUS
<1>1. /\ assistCH \in Seq([from : Peer, block : Block]) /\ blockCH \in Seq(Block)
      /\ helper.content \subseteq Peer \X Block
  BY DEF TypeInv, TypeOK
<1>0. HeldBlocks \subseteq HeldBlocks'
  BY HeldGrow
<1>2. CASE UNCHANGED <<db, blockCH, assistCH, helper>>
  BY <1>0, <1>2 DEF GenuineInv
<1>3. CASE TakeResult
  BY <1>0, <1>3 DEF TakeResult, helpVars, GenuineInv
<1>4. CASE TakeBlock
  <2>1. blockCH # <<>> /\ blockCH' = Tail(blockCH) /\ db' = db \union {Head(blockCH)} /\ UNCHANGED <<helper, assistCH>>
    BY <1>4 DEF TakeBlock
  <2>2. /\ Head(blockCH) = blockCH[1] /\ 1 \in 1 .. Len(blockCH) /\ Len(blockCH) \in Nat
        /\ \A i \in 1 .. Len(blockCH') : blockCH'[i] = blockCH[i + 1] /\ i + 1 \in 1 .. Len(blockCH)
    BY <1>1, <2>1, Taken, LenProperties
  <2>3. Head(blockCH)[2] = "agreed"
    BY <2>2 DEF GenuineInv, HeldBlocks
  <2> QED
    BY <1>0, <2>1, <2>2, <2>3 DEF GenuineInv
<1>5. CASE TakeCall
  BY <1>0, <1>5 DEF TakeCall, mainVars, IdleHelper, GenuineInv
<1>13. ASSUME NEW i \in Peer, SendCall(i) PROVE GenuineInv'
  BY <1>0, <1>13 DEF SendCall, mainVars, GenuineInv, TypeInv, TypeOK
<1>6. CASE TakeAnswer
  <2> DEFINE a == Head(assistCH)
             answers == helper.content \union {<<a.from, a.block>>}
  <2>1. /\ assistCH # <<>> /\ assistCH' = Tail(assistCH) /\ UNCHANGED <<db, blockCH>>
        /\ \/ UNCHANGED helper
           \/ /\ Cardinality({x \in answers : x[2] = a.block}) = EnoughEqual
              /\ helper' = [IdleHelper EXCEPT !.pr = helper.pr, !.block = a.block]
           \/ helper' = [helper EXCEPT !.from = @ \union {a.from}, !.content = answers]
    BY <1>6 DEF TakeAnswer, mainVars
  <2>2. /\ a \in [from : Peer, block : Block] /\ a = assistCH[1] /\ 1 \in 1 .. Len(assistCH)
        /\ \A i \in 1 .. Len(assistCH') : assistCH'[i] = assistCH[i + 1] /\ i + 1 \in 1 .. Len(assistCH)
    <3>1. assistCH \in Seq([from : Peer, block : Block]) /\ assistCH # <<>> /\ assistCH' = Tail(assistCH)
      BY <1>1, <2>1
    <3>2. Len(assistCH) \in Nat
      BY <3>1, LenProperties
    <3> DEFINE S == [from : Peer, block : Block]
    <3>3. assistCH \in Seq(S)
      BY <3>1
    <3> HIDE DEF S
    <3>4. /\ Head(assistCH) \in S /\ Head(assistCH) = assistCH[1] /\ 1 \in 1 .. Len(assistCH)
          /\ \A i \in 1 .. Len(Tail(assistCH)) : Tail(assistCH)[i] = assistCH[i + 1] /\ i + 1 \in 2 .. Len(assistCH)
      BY <3>1, <3>3, Taken
    <3>5. \A i \in 1 .. Len(Tail(assistCH)) : i + 1 \in 1 .. Len(assistCH)
      BY <3>2, <3>4
    <3> QED
      BY <3>1, <3>4, <3>5 DEF S
  <2>3. \A k \in 1 .. Len(assistCH') : assistCH'[k].block \in HeldBlocks' \/ assistCH'[k].from \in Liar
    BY <1>0, <2>2 DEF GenuineInv
  <2>4. answers \subseteq Peer \X Block /\ a.block \in Block
        /\ \A x \in answers : x[2] \in HeldBlocks \/ x[1] \in Liar
    BY <1>1, <2>2 DEF GenuineInv
  <2> HIDE DEF a, answers
  <2>5. /\ \A x \in helper'.content : x[2] \in HeldBlocks' \/ x[1] \in Liar
        /\ helper'.block # NoBlock => helper'.block \in HeldBlocks'
    <3>1. helper \in HelperType
      BY DEF TypeInv, TypeOK, HelperType
    <3>2. CASE UNCHANGED helper
      BY <1>0, <3>2 DEF GenuineInv
    <3>3. CASE /\ Cardinality({x \in answers : x[2] = a.block}) = EnoughEqual
               /\ helper' = [IdleHelper EXCEPT !.pr = helper.pr, !.block = a.block]
      <4>1. a.block \in HeldBlocks
        BY <2>4, <3>3, TooFewLiars
      <4>2. helper'.content = {} /\ helper'.block = a.block
        BY <3>3 DEF IdleHelper
      <4> QED
        BY <1>0, <4>1, <4>2
    <3>4. CASE helper' = [helper EXCEPT !.from = @ \union {a.from}, !.content = answers]
      <4>1. helper'.content = answers /\ helper'.block = helper.block
        BY <3>1, <3>4 DEF HelperType
      <4> QED
        BY <1>0, <2>4, <4>1 DEF GenuineInv
    <3> QED
      BY <2>1, <3>2, <3>3, <3>4
  <2> QED
    BY <1>0, <2>1, <2>3, <2>5 DEF GenuineInv
<1>14. CASE HandOver
  <2>1. /\ helper.block \in Block /\ helper.block \in HeldBlocks
        /\ blockCH' = Append(blockCH, helper.block) /\ helper' = IdleHelper /\ UNCHANGED <<db, assistCH>>
    BY <1>14 DEF HandOver, mainVars, GenuineInv, TypeInv, TypeOK
  <2>2. /\ Len(blockCH) \in Nat /\ Len(blockCH') = Len(blockCH) + 1
        /\ \A k \in 1 .. Len(blockCH) : blockCH'[k] = blockCH[k]
        /\ blockCH'[Len(blockCH')] = helper.block
    BY <1>1, <2>1, AppendProperties, LenProperties
  <2>3. \A k \in 1 .. Len(blockCH') : k \in 1 .. Len(blockCH) \/ k = Len(blockCH')
    BY <2>2
  <2>4. \A k \in 1 .. Len(blockCH') : blockCH'[k] \in HeldBlocks'
    BY <1>0, <2>1, <2>2, <2>3 DEF GenuineInv
  <2> QED
    BY <1>0, <2>1, <2>4 DEF GenuineInv, IdleHelper
<1>7. ASSUME NEW i \in Peer, NEW b \in Block, b \in HeldBlocks \/ i \in Liar,
             assistCH' = Append(assistCH, [from |-> i, block |-> b]), UNCHANGED <<db, blockCH, helper>>
      PROVE  GenuineInv'
  <2>1. [from |-> i, block |-> b] \in [from : Peer, block : Block]
    OBVIOUS
  <2>2. /\ Len(assistCH) \in Nat /\ Len(assistCH') = Len(assistCH) + 1
        /\ \A k \in 1 .. Len(assistCH) : assistCH'[k] = assistCH[k]
        /\ assistCH'[Len(assistCH')] = [from |-> i, block |-> b]
    BY <1>1, <1>7, <2>1, AppendProperties, LenProperties
  <2>3. \A k \in 1 .. Len(assistCH') : k \in 1 .. Len(assistCH) \/ k = Len(assistCH')
    BY <2>2
  <2> QED
    BY <1>0, <1>7, <2>2, <2>3 DEF GenuineInv
<1>8. ASSUME NEW i \in Peer, Answer(i) PROVE GenuineInv'
  <2>1. <<awaited[i], "agreed">> \in Block /\ awaited[i] \in Round /\ i \in Peer \ Liar
    BY <1>8, PeerAssumption DEF Answer, Heard, TypeInv, TypeOK, Block
  <2>2. peerRound[i] > awaited[i]
    BY <1>8, <2>1, BoundAssumption DEF Answer, TypeInv, TypeOK, Round
  <2>3. <<awaited[i], "agreed">> \in HeldBlocks
    BY <2>1, <2>2 DEF HeldBlocks, Passed
  <2> QED
    BY <1>7, <1>8, <2>1, <2>3 DEF Answer, Heard, mainVars
<1>9. ASSUME NEW i \in Peer, AnswerFalsely(i) PROVE GenuineInv'
  <2>1. <<awaited[i], "forged">> \in Block
    BY <1>9 DEF AnswerFalsely, Heard, TypeInv, TypeOK, Block
  <2> QED
    BY <1>7, <1>9, <2>1 DEF AnswerFalsely, Heard, mainVars
<1>10. CASE TakeSafe \/ CallNewer \/ MakeCall \/ CallReturns \/ RunReturns \/ UNCHANGED vars
  BY <1>2, <1>10 DEF TakeSafe, CallNewer, MakeCall, CallReturns, RunReturns, vars, mainVars, helpVars
<1>11. ASSUME NEW i \in Peer, PeerAdvances(i) PROVE GenuineInv'
  BY <1>2, <1>11 DEF PeerAdvances, mainVars, helpVars
<1>12. ASSUME NEW i \in Node, HandlePriorities(i) PROVE GenuineInv'
  BY <1>2, <1>12 DEF HandlePriorities, mainVars, helpVars
<1> QED
  BY <1>3, <1>4, <1>5, <1>6, <1>8, <1>9, <1>10, <1>11, <1>12, <1>13, <1>14, Zenon DEF Next, Driver, Help
-----------------------------------------------------------------------------
IInv == Inv /\ GenuineInv

LEMMA InitIInv == Init => IInv
<1> SUFFICES ASSUME Init PROVE IInv
  OBVIOUS
<1>1. 0 \in Round
  BY BoundAssumption DEF Round
<1>2. TypeOK
  BY <1>1, EmptySeq DEF Init, TypeOK, IdleHelper, NoBlock
<1>3. Len(<<>>) = 0 /\ Me \in Node /\ Peer \subseteq Node
  BY DEF Node
<1>4. Increasing /\ BackedInv
  BY <1>3 DEF Init, Increasing, BackedInv, Calling
<1>5. AnnouncedInv
  BY <1>3 DEF Init, AnnouncedInv
<1>6. MissingIsHeld
  BY DEF Init, MissingIsHeld, Round
<1>7. GenuineInv
  BY <1>3 DEF Init, GenuineInv, IdleHelper
<1> QED
  BY <1>2, <1>4, <1>5, <1>6, <1>7 DEF IInv, Inv, TypeInv, Init

LEMMA StepIInv == IInv /\ [Next]_vars => IInv'
BY StepType, StepIncreasing, StepBacked, StepAnnounced, StepMissing, StepGenuine DEF IInv, Inv, TypeInv

LEMMA Always == Spec => []IInv
<1>1. Init /\ [][Next]_vars => []IInv
  BY InitIInv, StepIInv, PTL
<1> QED
  BY <1>1, PTL DEF Spec

\* What is stored is what was agreed on, whatever liars announce and answer
\* (network.go:316-337).
THEOREM BlocksGenuine == Spec => []StoredIsAgreed
<1>1. IInv => StoredIsAgreed
  BY DEF IInv, Inv, TypeInv, GenuineInv, StoredIsAgreed
<1> QED
  BY <1>1, Always, PTL

\* Where the driver has left a round without its block, a correct peer has been
\* through the round (network.go:148-153, main.go:170, 276).
THEOREM BlocksHeld == Spec => []MissingIsHeld
<1>1. IInv => MissingIsHeld
  BY DEF IInv, Inv
<1> QED
  BY <1>1, Always, PTL

\* The driver never goes back to a round (main.go:170-180).
THEOREM RoundsGoOn == Spec => NoRoundTwice
<1>1. IInv /\ [Next]_vars => [round' # round => round' > round]_round
  BY RoundGrows DEF IInv, Inv
<1>2. Spec => [][Next]_vars
  BY DEF Spec
<1> QED
  BY <1>1, <1>2, Always, PTL DEF NoRoundTwice
-----------------------------------------------------------------------------
(* What a wait of CallHelp comes to rest with, from the guards of main and of *)
(* HandleOwnCallHelp.                                                       *)

CanDrive ==
    \/ pc \in {"select", "call"}
    \/ pc = "wait" /\ next < CallsTo /\ Len(myCallHelp) < CallSize
    \/ pc = "wait" /\ next >= CallsTo /\ blockCH # <<>>

CanHelp ==
    \/ helper = IdleHelper /\ myCallHelp # <<>>
    \/ helper.left # {}
    \/ helper.pr # -1 /\ helper.left = {} /\ helper.block = NoBlock /\ assistCH # <<>>
    \/ helper.block # NoBlock /\ Len(blockCH) < BlockSize

\* No step of Fairness can be taken.
AtRest == ~ CanDrive /\ ~ CanHelp

\* What HandleOwnCallHelp holds belongs to its call, and no channel overflows.
HelperInv ==
    /\ helper.pr = -1 => helper = IdleHelper
    /\ helper.block # NoBlock => helper.block[1] = helper.pr
    /\ Len(myCallHelp) <= CallSize /\ Len(blockCH) <= BlockSize

\* The block waited for is called for, or found, or has come.
OnItsWay ==
    \/ \E k \in 1 .. Len(myCallHelp) : myCallHelp[k] = LastBlock
    \/ helper.pr = LastBlock
    \/ \E k \in 1 .. Len(blockCH) : blockCH[k][1] = LastBlock

WayInv == pc = "wait" /\ start <= LastBlock /\ LastBlock < next => OnItsWay

RestsForAReason == AtRest /\ pc = "wait" => Unanswered \/ NotAsked \/ Deadlocked

\* The last of a sequence that has grown.
LEMMA Appended ==
    ASSUME NEW S, NEW q \in Seq(S), NEW e \in S, NEW t, t = Append(q, e)
    PROVE  /\ Len(q) \in Nat /\ Len(t) = Len(q) + 1
           /\ \A k \in 1 .. Len(q) : t[k] = q[k] /\ k \in 1 .. Len(t)
           /\ t[Len(t)] = e /\ Len(t) \in 1 .. Len(t)
  BY AppendProperties, LenProperties

\* What is behind the first of a sequence stays when that is taken.
LEMMA StaysBehind ==
    ASSUME NEW S, NEW q \in Seq(S), q # <<>>
    PROVE  /\ Len(Tail(q)) = Len(q) - 1 /\ Len(q) \in Nat
           /\ \A k \in 1 .. Len(q) :
                \/ q[k] = Head(q)
                \/ \E j \in 1 .. Len(Tail(q)) : Tail(q)[j] = q[k]
<1>1. /\ Head(q) = q[1] /\ Len(q) \in Nat /\ Len(Tail(q)) = Len(q) - 1
      /\ \A i \in 1 .. Len(Tail(q)) : Tail(q)[i] = q[i + 1]
  BY Taken, HeadTailProperties, LenProperties
<1>2. ASSUME NEW k \in 1 .. Len(q), k # 1 PROVE \E j \in 1 .. Len(Tail(q)) : Tail(q)[j] = q[k]
  <2>1. k - 1 \in 1 .. Len(Tail(q)) /\ (k - 1) + 1 = k
    BY <1>1, <1>2
  <2>2. Tail(q)[k - 1] = q[k]
    BY <1>1, <2>1
  <2> QED
    BY <2>1, <2>2
<1> QED
  BY <1>1, <1>2

LEMMA StepHelper == TypeInv /\ HelperInv /\ [Next]_vars => HelperInv'
<1> SUFFICES ASSUME TypeInv, HelperInv, [Next]_vars PROVE HelperInv'
  OBVIOUS
<1>1. /\ myCallHelp \in Seq(Round) /\ blockCH \in Seq(Block) /\ helper \in HelperType /\ next \in Round
      /\ CallSize \in Nat /\ BlockSize \in Nat
      /\ assistCH \in Seq([from : Peer, block : Block])
  BY BoundAssumption DEF TypeInv, TypeOK, HelperType
<1>2. CASE UNCHANGED <<helper, myCallHelp, blockCH>>
  BY <1>2 DEF HelperInv
<1>3. CASE MakeCall
  <2>1. UNCHANGED <<helper, blockCH>> /\ Len(myCallHelp) < CallSize /\ myCallHelp' = Append(myCallHelp, next)
    BY <1>3 DEF MakeCall
  <2>2. Len(myCallHelp) \in Nat /\ Len(myCallHelp') = Len(myCallHelp) + 1
    BY <1>1, <2>1, Appended
  <2> QED
    BY <1>1, <2>1, <2>2 DEF HelperInv
<1>4. CASE TakeBlock
  <2>1. Len(blockCH') = Len(blockCH) - 1 /\ Len(blockCH) \in Nat
    BY <1>1, <1>4, StaysBehind DEF TakeBlock
  <2> QED
    BY <1>1, <1>4, <2>1 DEF TakeBlock, HelperInv
<1>5. CASE TakeCall
  <2>1. Len(myCallHelp') = Len(myCallHelp) - 1 /\ Len(myCallHelp) \in Nat /\ Head(myCallHelp) \in Round
    BY <1>1, <1>5, StaysBehind, Taken DEF TakeCall
  <2>2. helper'.pr = Head(myCallHelp) /\ helper'.block = NoBlock /\ UNCHANGED blockCH
    BY <1>1, <1>5 DEF TakeCall, IdleHelper, HelperType
  <2>3. helper'.pr # -1
    BY <2>1, <2>2, BoundAssumption DEF Round
  <2> QED
    BY <1>1, <2>1, <2>2, <2>3 DEF HelperInv
<1>6. ASSUME NEW i \in Peer, SendCall(i) PROVE HelperInv'
  <2>1. /\ helper' = [helper EXCEPT !.left = @ \ {i}] /\ UNCHANGED <<myCallHelp, blockCH>>
        /\ i \in helper.left
    BY <1>6 DEF SendCall
  <2>2. helper'.pr = helper.pr /\ helper'.block = helper.block /\ helper # IdleHelper
    BY <1>1, <2>1 DEF HelperType, IdleHelper
  <2> QED
    BY <2>1, <2>2 DEF HelperInv
<1>7. CASE TakeAnswer
  <2> DEFINE a == Head(assistCH)
             answers == helper.content \union {<<a.from, a.block>>}
  <2>1. /\ helper.pr # -1 /\ helper.block = NoBlock /\ UNCHANGED <<myCallHelp, blockCH>>
        /\ \/ helper' = helper
           \/ helper' = [IdleHelper EXCEPT !.pr = helper.pr, !.block = a.block] /\ a.block[1] = helper.pr
           \/ helper' = [helper EXCEPT !.from = @ \union {a.from}, !.content = answers]
    BY <1>7 DEF TakeAnswer
  <2> HIDE DEF a, answers
  <2>2. helper'.pr = helper.pr /\ (helper'.block = NoBlock \/ helper'.block[1] = helper.pr)
    BY <1>1, <2>1 DEF HelperType, IdleHelper
  <2> QED
    BY <2>1, <2>2 DEF HelperInv
<1>8. CASE HandOver
  <2>1. /\ helper' = IdleHelper /\ blockCH' = Append(blockCH, helper.block) /\ helper.block \in Block
        /\ Len(blockCH) < BlockSize /\ UNCHANGED myCallHelp
    BY <1>1, <1>8 DEF HandOver, HelperType
  <2>2. Len(blockCH') = Len(blockCH) + 1 /\ Len(blockCH) \in Nat
    BY <1>1, <2>1, Appended
  <2> QED
    BY <1>1, <2>1, <2>2 DEF HelperInv, IdleHelper
<1>9. CASE TakeResult \/ TakeSafe \/ CallNewer \/ CallReturns \/ RunReturns \/ UNCHANGED vars
  BY <1>2, <1>9 DEF TakeResult, TakeSafe, CallNewer, CallReturns, RunReturns, vars, helpVars
<1>10. ASSUME NEW i \in Peer, PeerAdvances(i) \/ Answer(i) \/ AnswerFalsely(i) PROVE HelperInv'
  BY <1>2, <1>10 DEF PeerAdvances, Answer, AnswerFalsely, Heard, helpVars
<1>11. ASSUME NEW i \in Node, HandlePriorities(i) PROVE HelperInv'
  BY <1>2, <1>11 DEF HandlePriorities, helpVars
<1> QED
  BY <1>3, <1>4, <1>5, <1>6, <1>7, <1>8, <1>9, <1>10, <1>11, Zenon DEF Next, Driver, Help

LEMMA StepWay == TypeInv /\ HelperInv /\ WayInv /\ [Next]_vars => WayInv'
<1> SUFFICES ASSUME TypeInv, HelperInv, WayInv, [Next]_vars,
                    pc' = "wait", (start <= LastBlock)', (LastBlock < next)'
             PROVE  OnItsWay'
  BY DEF WayInv
<1>1. /\ myCallHelp \in Seq(Round) /\ blockCH \in Seq(Block) /\ helper \in HelperType
      /\ start \in Int /\ end \in Int /\ next \in Int /\ start >= 0 /\ next \in Round
      /\ assistCH \in Seq([from : Peer, block : Block])
  BY BoundAssumption DEF TypeInv, TypeOK, HelperType, Round
<1>2. CASE pc = "wait" /\ UNCHANGED <<start, end, next, helper, myCallHelp, blockCH>>
  BY <1>2 DEF WayInv, OnItsWay, LastBlock
<1>3. CASE CallNewer
  <2>1. start' = end /\ next' = end /\ safeCH # <<>> /\ safeCH \in Seq(Round) /\ end' = Head(safeCH)
    BY <1>3 DEF CallNewer, TypeInv, TypeOK
  <2>2. end' \in Round
    BY <2>1
  <2>4. end' \in Int
    BY <2>2 DEF Round
  <2>3. start' <= end' - 2 /\ end' - 2 < next'
    BY DEF LastBlock
  <2> QED
    BY <1>1, <2>1, <2>4, <2>3
<1>4. CASE MakeCall
  <2>1. /\ pc = "wait" /\ UNCHANGED <<start, end, helper, blockCH>> /\ next' = next + 1
        /\ myCallHelp' = Append(myCallHelp, next)
    BY <1>4 DEF MakeCall
  <2>2. /\ \A k \in 1 .. Len(myCallHelp) : myCallHelp'[k] = myCallHelp[k] /\ k \in 1 .. Len(myCallHelp')
        /\ myCallHelp'[Len(myCallHelp')] = next /\ Len(myCallHelp') \in 1 .. Len(myCallHelp')
    BY <1>1, <2>1, Appended
  <2>3. CASE LastBlock = next
    BY <2>1, <2>2, <2>3 DEF OnItsWay, LastBlock
  <2>4. CASE LastBlock # next
    <3>1. start <= LastBlock /\ LastBlock < next
      BY <1>1, <2>1, <2>4 DEF LastBlock
    <3> QED
      BY <2>1, <2>2, <3>1 DEF WayInv, OnItsWay, LastBlock
  <2> QED
    BY <2>3, <2>4
<1>5. CASE TakeBlock
  <2>1. /\ pc = "wait" /\ UNCHANGED <<start, end, next, helper, myCallHelp>> /\ blockCH # <<>>
        /\ blockCH' = Tail(blockCH) /\ Head(blockCH)[1] # LastBlock
    BY <1>5 DEF TakeBlock
  <2>2. OnItsWay
    BY <2>1 DEF WayInv, LastBlock
  <2>3. ASSUME NEW k \in 1 .. Len(blockCH), blockCH[k][1] = LastBlock
        PROVE  \E j \in 1 .. Len(blockCH') : blockCH'[j][1] = LastBlock
    BY <1>1, <2>1, <2>3, StaysBehind
  <2> QED
    BY <2>1, <2>2, <2>3 DEF OnItsWay, LastBlock
<1>6. CASE TakeCall
  <2>1. /\ pc = "wait" /\ UNCHANGED <<start, end, next, blockCH>> /\ myCallHelp # <<>> /\ helper = IdleHelper
        /\ myCallHelp' = Tail(myCallHelp) /\ helper' = [helper EXCEPT !.pr = Head(myCallHelp), !.left = Peer]
    BY <1>6 DEF TakeCall, mainVars
  <2>2. OnItsWay /\ helper.pr = -1 /\ LastBlock >= 0 /\ LastBlock \in Int /\ UNCHANGED LastBlock
    BY <1>1, <2>1 DEF WayInv, LastBlock, IdleHelper
  <2>3. helper'.pr = Head(myCallHelp) /\ helper.pr # LastBlock
    BY <1>1, <2>1, <2>2 DEF HelperType
  <2>4. ASSUME NEW k \in 1 .. Len(myCallHelp), myCallHelp[k] = LastBlock
        PROVE  helper'.pr = LastBlock \/ \E j \in 1 .. Len(myCallHelp') : myCallHelp'[j] = LastBlock
    BY <1>1, <2>1, <2>3, <2>4, StaysBehind
  <2> QED
    BY <2>1, <2>2, <2>3, <2>4 DEF OnItsWay
<1>7. ASSUME NEW i \in Peer, SendCall(i) PROVE OnItsWay'
  <2>1. /\ pc = "wait" /\ UNCHANGED <<start, end, next, myCallHelp, blockCH>>
        /\ helper' = [helper EXCEPT !.left = @ \ {i}]
    BY <1>7 DEF SendCall, mainVars
  <2>2. helper'.pr = helper.pr
    BY <1>1, <2>1 DEF HelperType
  <2> QED
    BY <2>1, <2>2 DEF WayInv, OnItsWay, LastBlock
<1>8. CASE TakeAnswer
  <2> DEFINE a == Head(assistCH)
             answers == helper.content \union {<<a.from, a.block>>}
  <2>1. /\ pc = "wait" /\ UNCHANGED <<start, end, next, myCallHelp, blockCH>>
        /\ \/ helper' = helper
           \/ helper' = [IdleHelper EXCEPT !.pr = helper.pr, !.block = a.block]
           \/ helper' = [helper EXCEPT !.from = @ \union {a.from}, !.content = answers]
    BY <1>8 DEF TakeAnswer, mainVars
  <2> HIDE DEF a, answers
  <2>2. helper'.pr = helper.pr
    BY <1>1, <2>1 DEF HelperType, IdleHelper
  <2> QED
    BY <2>1, <2>2 DEF WayInv, OnItsWay, LastBlock
<1>9. CASE HandOver
  <2>1. /\ pc = "wait" /\ UNCHANGED <<start, end, next, myCallHelp>> /\ helper.block # NoBlock
        /\ helper.block \in Block /\ blockCH' = Append(blockCH, helper.block)
    BY <1>1, <1>9 DEF HandOver, mainVars, HelperType
  <2>2. /\ \A k \in 1 .. Len(blockCH) : blockCH'[k] = blockCH[k] /\ k \in 1 .. Len(blockCH')
        /\ blockCH'[Len(blockCH')] = helper.block /\ Len(blockCH') \in 1 .. Len(blockCH')
    BY <1>1, <2>1, Appended
  <2>3. OnItsWay /\ helper.block[1] = helper.pr /\ UNCHANGED LastBlock
    BY <2>1 DEF WayInv, HelperInv, LastBlock
  <2> QED
    BY <2>1, <2>2, <2>3 DEF OnItsWay
<1>10. CASE TakeResult \/ TakeSafe \/ CallReturns \/ RunReturns \/ UNCHANGED vars
  <2>1. CASE UNCHANGED vars
    BY <1>2, <2>1 DEF vars, mainVars, helpVars
  <2> QED
    BY <1>10, <2>1 DEF TakeResult, TakeSafe, CallReturns, RunReturns
<1>11. ASSUME NEW i \in Peer, PeerAdvances(i) \/ Answer(i) \/ AnswerFalsely(i) PROVE OnItsWay'
  BY <1>2, <1>11 DEF PeerAdvances, Answer, AnswerFalsely, Heard, mainVars, helpVars
<1>12. ASSUME NEW i \in Node, HandlePriorities(i) PROVE OnItsWay'
  BY <1>2, <1>12 DEF HandlePriorities, mainVars, helpVars
<1> QED
  BY <1>3, <1>4, <1>5, <1>6, <1>7, <1>8, <1>9, <1>10, <1>11, <1>12, Zenon DEF Next, Driver, Help

LEMMA RestsSo == TypeInv /\ HelperInv /\ WayInv => RestsForAReason
<1> SUFFICES ASSUME TypeInv, HelperInv, WayInv, AtRest, pc = "wait"
             PROVE  Unanswered \/ NotAsked \/ Deadlocked
  BY DEF RestsForAReason
<1>1. /\ Len(myCallHelp) \in Nat /\ Len(blockCH) \in Nat /\ next \in Int /\ end \in Int /\ start \in Int
      /\ CallSize \in Nat \ {0} /\ BlockSize \in Nat \ {0} /\ start >= 0
  BY BoundAssumption, LenProperties DEF TypeInv, TypeOK, Round
<1>2. CASE helper.pr # -1 /\ helper.block = NoBlock
  BY <1>2 DEF AtRest, CanHelp, Unanswered
<1>3. CASE helper.block # NoBlock
  <2>1. Len(blockCH) = BlockSize /\ blockCH # <<>>
    BY <1>1, <1>3, Len(<<>>) = 0 DEF AtRest, CanHelp, HelperInv
  <2>2. next < end /\ Len(myCallHelp) = CallSize
    BY <1>1, <2>1 DEF AtRest, CanDrive, CallsTo, HelperInv
  <2> QED
    BY <1>3, <2>1, <2>2 DEF Deadlocked
<1>4. CASE helper = IdleHelper
  <2>1. myCallHelp = <<>> /\ Len(myCallHelp) = 0
    BY <1>4, Len(<<>>) = 0 DEF AtRest, CanHelp
  <2>2. next >= end /\ blockCH = <<>> /\ Len(blockCH) = 0
    BY <1>1, <2>1, Len(<<>>) = 0 DEF AtRest, CanDrive, CallsTo
  <2>3. ASSUME start <= LastBlock PROVE FALSE
    <3>1. LastBlock < next /\ LastBlock >= 0 /\ LastBlock \in Int
      BY <1>1, <2>2, <2>3 DEF LastBlock
    <3>2. helper.pr # LastBlock
      BY <1>4, <3>1 DEF IdleHelper
    <3> QED
      BY <2>1, <2>2, <2>3, <3>1, <3>2 DEF WayInv, OnItsWay
  <2> QED
    BY <1>1, <1>4, <2>2, <2>3 DEF NotAsked, LastBlock
<1> QED
  BY <1>2, <1>3, <1>4 DEF HelperInv

\* A wait of CallHelp comes to rest only without answers to the present call, or with
\* a block that was not called for, or between two full channels, whatever came in
\* what order: no call and no block is lost between main and HandleOwnCallHelp
\* (main.go:268-288, network.go:305-337).
THEOREM RestsCalling == Spec => []RestsForAReason
<1>1. Init => HelperInv /\ WayInv
  BY BoundAssumption, Len(<<>>) = 0 DEF Init, HelperInv, WayInv, IdleHelper
<1>2. IInv /\ HelperInv /\ WayInv /\ [Next]_vars => (HelperInv /\ WayInv)'
  BY StepHelper, StepWay DEF IInv, Inv
<1>3. IInv /\ HelperInv /\ WayInv => RestsForAReason
  BY RestsSo DEF IInv, Inv
<1>4. Init /\ [][Next]_vars => [](HelperInv /\ WayInv)
  BY <1>1, <1>2, InitIInv, StepIInv, PTL
<1> QED
  BY <1>3, <1>4, Always, PTL DEF Spec
-----------------------------------------------------------------------------
(* The abstract specification.                                               *)

\* The block CallHelp takes is of a round a correct peer has been through.
LEMMA TakesHeld ==
    ASSUME TypeInv, GenuineInv, TakeBlock
    PROVE  \E r \in Passed : db' = db \union {<<r, "agreed">>}
<1>1. blockCH \in Seq(Block) /\ blockCH # <<>> /\ db' = db \union {Head(blockCH)}
  BY DEF TypeInv, TypeOK, TakeBlock
<1>2. Head(blockCH) = blockCH[1] /\ 1 \in 1 .. Len(blockCH)
  BY <1>1, Taken
<1>3. Head(blockCH) \in HeldBlocks
  BY <1>2 DEF GenuineInv
<1> QED
  BY <1>1, <1>3 DEF HeldBlocks

\* A correct peer has come to the round CallHelp goes up to.
LEMMA JumpsOverPassed ==
    ASSUME Inv, CallReturns
    PROVE  /\ round' \in Round /\ round' > round
           /\ \A r \in Round : round <= r /\ r < round' => r \in Passed
<1>1. TypeInv /\ BackedInv /\ Calling /\ round' = LastBlock + 1
  BY DEF Inv, Calling, CallReturns
<1>2. end \in Round /\ round \in Round /\ round + 1 < end /\ Backed(maxPriorities, end)
  BY <1>1 DEF TypeInv, TypeOK, Increasing, BackedInv
<1>3. /\ end \in Int /\ round \in Int /\ MaxRound \in Nat /\ 0 <= round /\ end <= MaxRound
      /\ end > round /\ round' = end - 1
  BY <1>1, <1>2, BoundAssumption DEF Round, LastBlock
<1>4. round' \in Round /\ round' > round
  BY <1>2, <1>3 DEF Round
<1>5. PICK i \in Peer \ Liar : peerRound[i] >= end
  BY <1>2, <1>3, Carried
<1>6. ASSUME NEW r \in Round, r < round' PROVE r \in Passed
  <2>1. peerRound[i] \in Int /\ r \in Int
    BY <1>1, BoundAssumption DEF TypeInv, TypeOK, Round
  <2>2. peerRound[i] > r
    BY <1>3, <1>5, <1>6, <2>1
  <2> QED
    BY <2>2 DEF Passed
<1> QED
  BY <1>4, <1>6

\* The driver makes a chain of blocks: it goes on by one round with the block of the
\* round before, or over rounds that a correct peer has been through, and stores
\* the agreed blocks of its own rounds and of such rounds alone, in whatever order
\* results, safe priorities and answers come (main.go:150-312, network.go:316-341).
THEOREM Implements == Spec => Refinement
<1>1. Init => Chain!Init
  <2> SUFFICES ASSUME Init PROVE Chain!Init
    OBVIOUS
  <2>1. \A i \in Peer : peerRound[i] = 0
    BY DEF Init
  <2>2. Passed = {}
    BY <2>1, BoundAssumption DEF Passed, Round
  <2> QED
    BY <2>2 DEF Init, Chain!Init
<1>2. IInv /\ [Next]_vars => [Chain!Next]_(Chain!vars)
  <2> SUFFICES ASSUME TypeInv, Inv, GenuineInv, [Next]_vars PROVE [Chain!Next]_(Chain!vars)
    BY DEF IInv, Inv
  <2>1. CASE UNCHANGED <<peerRound, round, db>>
    BY <2>1 DEF Passed, Chain!vars
  <2>2. CASE TakeResult
    <3>1. round + 1 \in Round
      BY <2>2, BoundAssumption DEF TakeResult, TypeInv, TypeOK, Round
    <3>2. UNCHANGED Passed
      BY <2>2 DEF TakeResult, Passed
    <3>3. Chain!Store
      BY <2>2, <3>1, <3>2 DEF TakeResult, Chain!Store, Chain!Agreed
    <3> QED
      BY <3>3 DEF Chain!Next
  <2>3. CASE CallReturns
    <3>1. UNCHANGED <<Passed, db>>
      BY <2>3 DEF CallReturns, Passed
    <3>2. PICK r \in Round : r = round'
      BY <2>3, JumpsOverPassed
    <3>3. Chain!Jump(r)
      BY <2>3, <3>1, <3>2, JumpsOverPassed DEF Chain!Jump
    <3> QED
      BY <3>3 DEF Chain!Next
  <2>4. CASE TakeBlock
    <3>1. UNCHANGED <<Passed, round>>
      BY <2>4 DEF TakeBlock, Passed
    <3>2. PICK r \in Passed : db' = db \union {<<r, "agreed">>}
      BY <2>4, TakesHeld
    <3>3. Chain!Recover(r) /\ r \in Round
      BY <3>1, <3>2 DEF Chain!Recover, Chain!Agreed, Passed
    <3> QED
      BY <3>3 DEF Chain!Next
  <2>5. ASSUME NEW i \in Peer, PeerAdvances(i) PROVE Chain!Next
    <3>1. Passed \subseteq Passed' /\ Passed' \in SUBSET Round /\ Passed' = Passed \union Passed'
      BY HeldGrow DEF Passed
    <3>2. Chain!PeersGoOn
      BY <2>5, <3>1 DEF PeerAdvances, mainVars, Chain!PeersGoOn
    <3> QED
      BY <3>2 DEF Chain!Next
  <2>6. CASE TakeSafe \/ CallNewer \/ MakeCall \/ Help \/ RunReturns \/ UNCHANGED vars
    BY <2>1, <2>6, Aside DEF TakeSafe, CallNewer, MakeCall, RunReturns, vars, mainVars
  <2>7. ASSUME NEW i \in Peer, Answer(i) \/ AnswerFalsely(i) PROVE UNCHANGED <<peerRound, round, db>>
    BY <2>7, Aside DEF mainVars
  <2>8. ASSUME NEW i \in Node, HandlePriorities(i) PROVE UNCHANGED <<peerRound, round, db>>
    BY <2>8 DEF HandlePriorities, mainVars
  <2> QED
    BY <2>1, <2>2, <2>3, <2>4, <2>5, <2>6, <2>7, <2>8 DEF Next, Driver
<1>3. Spec => Init /\ [][Next]_vars
  BY DEF Spec
<1> QED
  BY <1>1, <1>2, <1>3, Always, PTL DEF Refinement, Chain!Spec
=============================================================================
