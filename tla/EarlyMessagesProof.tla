------------------------- MODULE EarlyMessagesProof -------------------------
(***************************************************************************)
(* Proofs about EarlyMessages, for any messages, stages and arrivals: no     *)
(* message is ever in two places, checkbuf counts on one message too many at *)
(* most, none gets lost but with a laggard, and none waits for ever.         *)
(***************************************************************************)
EXTENDS EarlyMessages, FiniteSetTheorems, SequenceTheorems, TLAPS

(***************************************************************************)
(* Sequences without repetition                                            *)
(***************************************************************************)
Has(q, m) == \E k \in 1 .. Len(q) : q[k] = m
NoRepeat(q) == \A j, k \in 1 .. Len(q) : q[j] = q[k] => j = k

\* What is taken from the front of a queue is in it no more.
LEMMA TailHas ==
    ASSUME NEW S, NEW q \in Seq(S), q # <<>>
    PROVE  /\ Head(q) \in S /\ Has(q, Head(q))
           /\ Tail(q) \in Seq(S) /\ Len(Tail(q)) = Len(q) - 1
           /\ \A m : Has(Tail(q), m) => Has(q, m)
           /\ NoRepeat(q) => NoRepeat(Tail(q)) /\ ~ Has(Tail(q), Head(q))
<1>1. Len(q) \in Nat \ {0} /\ Head(q) = q[1] /\ Head(q) \in S
  BY EmptySeq, HeadTailProperties
<1>2. /\ Tail(q) \in Seq(S) /\ Len(Tail(q)) = Len(q) - 1
      /\ \A i \in 1 .. Len(Tail(q)) : Tail(q)[i] = q[i + 1]
  BY HeadTailProperties
<1>3. \A i \in 1 .. Len(Tail(q)) : i + 1 \in 1 .. Len(q) /\ i + 1 # 1
  BY <1>1, <1>2
<1>4. Has(q, Head(q))
  BY <1>1 DEF Has
<1>5. \A m : Has(Tail(q), m) => Has(q, m)
  BY <1>2, <1>3 DEF Has
<1>6. ASSUME NoRepeat(q) PROVE NoRepeat(Tail(q)) /\ ~ Has(Tail(q), Head(q))
  <2>1. ~ Has(Tail(q), Head(q))
    BY <1>1, <1>2, <1>3, <1>6 DEF Has, NoRepeat
  <2>2. NoRepeat(Tail(q))
    <3> SUFFICES ASSUME NEW j \in 1 .. Len(Tail(q)), NEW k \in 1 .. Len(Tail(q)), Tail(q)[j] = Tail(q)[k]
                 PROVE  j = k
      BY DEF NoRepeat
    <3>1. j + 1 = k + 1
      BY <1>2, <1>3, <1>6 DEF NoRepeat
    <3> QED
      BY <3>1
  <2> QED
    BY <2>1, <2>2
<1> QED
  BY <1>1, <1>2, <1>4, <1>5, <1>6

\* What is put at the end of a queue is in it, and nothing else new.
LEMMA AppendHas ==
    ASSUME NEW S, NEW q \in Seq(S), NEW m \in S
    PROVE  /\ Append(q, m) \in Seq(S) /\ Len(Append(q, m)) = Len(q) + 1
           /\ \A x : Has(Append(q, m), x) <=> Has(q, x) \/ x = m
           /\ NoRepeat(q) /\ ~ Has(q, m) => NoRepeat(Append(q, m))
<1>1. /\ Append(q, m) \in Seq(S) /\ Len(q) \in Nat /\ Len(Append(q, m)) = Len(q) + 1
      /\ \A i \in 1 .. Len(q) : Append(q, m)[i] = q[i]
      /\ Append(q, m)[Len(q) + 1] = m
  BY AppendProperties, LenProperties
<1>2. \A i \in 1 .. Len(q) + 1 : i \in 1 .. Len(q) \/ i = Len(q) + 1
  BY <1>1
<1>3. \A i \in 1 .. Len(q) : i \in 1 .. Len(q) + 1
  BY <1>1
<1>4. Len(q) + 1 \in 1 .. Len(q) + 1
  BY <1>1
<1>5. \A x : Has(Append(q, m), x) <=> Has(q, x) \/ x = m
  BY <1>1, <1>2, <1>3, <1>4 DEF Has
<1>6. NoRepeat(q) /\ ~ Has(q, m) => NoRepeat(Append(q, m))
  BY <1>1, <1>2 DEF NoRepeat, Has
<1> QED
  BY <1>1, <1>5, <1>6
-----------------------------------------------------------------------------
(***************************************************************************)
(* Types                                                                   *)
(***************************************************************************)
\* A handler that holds something holds a message.
TypeInv == TypeOK /\ \A s \in Stages : handler[s].at = "hold" => handler[s].msg \in Message

LEMMA Indices ==
    /\ \A s \in Stages : s \in Int /\ s \in -1 .. MaxStage + 1 /\ s + 1 \in -1 .. MaxStage + 1 /\ s - 1 \in -1 .. MaxStage + 1
    /\ 0 \in Stages
  BY BoundAssumption DEF Stages

HandlerType ==
    [at : {"none", "first", "second", "third", "hold", "gone"}, msg : Message \union {None}]

LEMMA InitType == Init => TypeInv
<1> SUFFICES ASSUME Init PROVE TypeInv
  OBVIOUS
<1>1. buf \in [-1 .. MaxStage + 1 -> Seq(Message)]
  BY DEF Init
<1>2. handler \in [Stages -> HandlerType] /\ \A s \in Stages : handler[s].at = "none"
  BY DEF Init, HandlerType
<1>3. stage \in Stages
  BY Indices DEF Init
<1> QED
  BY <1>1, <1>2, <1>3 DEF Init, TypeInv, TypeOK, HandlerType

LEMMA StepType == TypeInv /\ [Next]_vars => TypeInv'
<1> SUFFICES ASSUME TypeInv, [Next]_vars PROVE TypeInv'
  OBVIOUS
<1> USE DEF TypeInv
<1>1. /\ input \subseteq Message
      /\ stage \in Stages /\ pc \in {"run", "next", "drain"} /\ left \in Nat
      /\ buf \in [-1 .. MaxStage + 1 -> Seq(Message)]
      /\ handler \in [Stages -> HandlerType]
      /\ got \in [Stages -> SUBSET Message]
  BY DEF TypeOK, HandlerType
<1>2. CASE UNCHANGED vars
  BY <1>2 DEF vars, TypeOK
<1>3. CASE EndStage
  <2>1. stage' \in Stages
    BY <1>1, <1>3, BoundAssumption DEF EndStage, Stages
  <2> QED
    BY <1>3, <2>1 DEF EndStage, TypeOK
<1>4. CASE CheckLength
  <2>1. Len(buf[stage - 1]) \in Nat
    BY <1>1, Indices, LenProperties
  <2> QED
    BY <1>4, <2>1 DEF CheckLength, TypeOK
<1>5. CASE Check
  <2> DEFINE m == Head(buf[stage - 1])
  <2>1. buf[stage - 1] \in Seq(Message) /\ buf[stage - 1] # <<>>
    BY <1>1, <1>5, Indices DEF Check
  <2>2. m \in Message /\ Tail(buf[stage - 1]) \in Seq(Message)
    BY <2>1, TailHas
  <2>3. Append(buf[stage], m) \in Seq(Message)
    BY <1>1, <2>2, Indices, AppendHas
  <2>4. buf' \in [-1 .. MaxStage + 1 -> Seq(Message)]
    BY <1>1, <1>5, <2>2, <2>3, Indices DEF Check, Rest
  <2>5. left' \in Nat
    BY <1>1, <1>5 DEF Check, MoreToTake
  <2> QED
    BY <1>1, <1>5, <2>4, <2>5 DEF Check, TypeOK
<1>6. CASE StartStage
  <2>1. handler' \in [Stages -> HandlerType] /\ \A s \in Stages : handler'[s].at = "hold" => handler[s].at = "hold" /\ handler'[s].msg = handler[s].msg
    BY <1>1, <1>6 DEF StartStage, HandlerType
  <2> QED
    BY <1>6, <2>1 DEF StartStage, TypeOK, HandlerType
<1>7. ASSUME NEW s \in Stages, LookFirst(s) \/ SeeClosed(s) \/ FindNothing(s) PROVE TypeInv'
  <2>1. \E at \in {"second", "third", "gone"} : handler' = [handler EXCEPT ![s].at = at]
    BY <1>7 DEF LookFirst, SeeClosed, FindNothing
  <2>2. /\ handler' \in [Stages -> HandlerType]
        /\ \A r \in Stages : handler'[r].at = "hold" => handler[r].at = "hold" /\ handler'[r].msg = handler[r].msg
    BY <1>1, <2>1 DEF HandlerType
  <2>3. UNCHANGED <<input, stage, pc, left, buf, got>>
    BY <1>7 DEF LookFirst, SeeClosed, FindNothing
  <2> QED
    BY <2>2, <2>3 DEF TypeOK, HandlerType
<1>8. ASSUME NEW s \in Stages, NEW m \in Message, handler' = [handler EXCEPT ![s] = [at |-> "hold", msg |-> m]]
      PROVE  /\ handler' \in [Stages -> HandlerType]
             /\ \A r \in Stages : handler'[r].at = "hold" => handler'[r].msg \in Message
  BY <1>1, <1>8 DEF HandlerType
<1>9. ASSUME NEW s \in Stages, TakeOld(s) PROVE TypeInv'
  <2>1. buf[s] \in Seq(Message) /\ buf[s] # <<>>
    BY <1>1, <1>9, Indices DEF TakeOld
  <2>2. Head(buf[s]) \in Message /\ Tail(buf[s]) \in Seq(Message)
    BY <2>1, TailHas
  <2>3. buf' \in [-1 .. MaxStage + 1 -> Seq(Message)]
    BY <1>1, <1>9, <2>2 DEF TakeOld
  <2>4. /\ handler' \in [Stages -> HandlerType]
        /\ \A r \in Stages : handler'[r].at = "hold" => handler'[r].msg \in Message
    BY <1>8, <1>9, <2>2 DEF TakeOld
  <2> QED
    BY <1>1, <1>9, <2>3, <2>4 DEF TakeOld, TypeOK, HandlerType
<1>10. ASSUME NEW s \in Stages, TakeInput(s) PROVE TypeInv'
  <2>1. PICK m \in input : handler' = [handler EXCEPT ![s] = [at |-> "hold", msg |-> m]] /\ input' = input \ {m}
    BY <1>10 DEF TakeInput
  <2>2. /\ handler' \in [Stages -> HandlerType]
        /\ \A r \in Stages : handler'[r].at = "hold" => handler'[r].msg \in Message
    BY <1>1, <1>8, <2>1
  <2> QED
    BY <1>1, <1>10, <2>1, <2>2 DEF TakeInput, TypeOK, HandlerType
<1>11. ASSUME NEW s \in Stages, Place(s) PROVE TypeInv'
  <2> DEFINE m == handler[s].msg
  <2>1. m \in Message
    BY <1>11 DEF Place
  <2>2. Append(buf[s + 1], m) \in Seq(Message)
    BY <1>1, <2>1, Indices, AppendHas
  <2>3. buf' \in [-1 .. MaxStage + 1 -> Seq(Message)]
    BY <1>1, <1>11, <2>2 DEF Place
  <2>4. got' \in [Stages -> SUBSET Message]
    BY <1>1, <1>11, <2>1 DEF Place
  <2>5. handler' \in [Stages -> HandlerType] /\ \A r \in Stages : handler'[r].at = "hold" => handler[r].at = "hold" /\ handler'[r].msg = handler[r].msg
    BY <1>1, <1>11 DEF Place, BackTo, HandlerType
  <2> QED
    BY <1>1, <1>11, <2>3, <2>4, <2>5 DEF Place, TypeOK, HandlerType
<1> QED
  BY <1>2, <1>3, <1>4, <1>5, <1>6, <1>7, <1>9, <1>10, <1>11 DEF Next, Launch, Handler
-----------------------------------------------------------------------------
(***************************************************************************)
(* What checkbuf counts on                                                 *)
(***************************************************************************)
\* The old handler has taken one, and has come from its selects for good.
HasTaken == stage - 1 \in Stages /\ handler[stage - 1].at \in {"hold", "first", "gone"}

StolenInv ==
    pc = "drain" =>
        \/ left <= Len(buf[stage - 1])
        \/ HasTaken /\ left <= Len(buf[stage - 1]) + 1

LEMMA StolenImplies == TypeInv /\ StolenInv => OneStolen
<1> SUFFICES ASSUME TypeInv, StolenInv, pc = "drain" PROVE left <= Len(buf[stage - 1]) + 1
  BY DEF OneStolen
<1>1. stage \in Stages /\ left \in Nat /\ buf \in [-1 .. MaxStage + 1 -> Seq(Message)]
  BY DEF TypeInv, TypeOK
<1>2. Len(buf[stage - 1]) \in Nat
  BY <1>1, Indices, LenProperties
<1> QED
  BY <1>1, <1>2 DEF StolenInv

LEMMA StepStolen == TypeInv /\ StolenInv /\ [Next]_vars => StolenInv'
<1> SUFFICES ASSUME TypeInv, StolenInv, [Next]_vars PROVE StolenInv'
  OBVIOUS
<1>1. /\ stage \in Stages /\ left \in Nat
      /\ buf \in [-1 .. MaxStage + 1 -> Seq(Message)]
      /\ handler \in [Stages -> HandlerType]
  BY DEF TypeInv, TypeOK, HandlerType
<1>2. /\ stage \in Int /\ stage \in -1 .. MaxStage + 1 /\ stage - 1 \in -1 .. MaxStage + 1
      /\ buf[stage - 1] \in Seq(Message) /\ Len(buf[stage - 1]) \in Nat
  BY <1>1, Indices, LenProperties
<1>3. CASE UNCHANGED vars
  BY <1>3 DEF vars, StolenInv, HasTaken
<1>4. CASE EndStage
  BY <1>4 DEF EndStage, StolenInv
<1>5. CASE CheckLength
  BY <1>2, <1>5 DEF CheckLength, StolenInv, HasTaken
<1>6. CASE Check
  <2> DEFINE m == Head(buf[stage - 1])
  <2>1. buf[stage - 1] # <<>> /\ left > 0 /\ left' = left - 1 /\ UNCHANGED <<stage, pc, handler>> /\ pc = "drain"
    BY <1>6 DEF Check, MoreToTake
  <2>2. buf'[stage - 1] = Tail(buf[stage - 1])
    BY <1>1, <1>2, <1>6 DEF Check, Rest
  <2>3. Len(buf'[stage - 1]) = Len(buf[stage - 1]) - 1
    BY <1>2, <2>1, <2>2, TailHas
  <2>4. HasTaken' <=> HasTaken
    BY <2>1 DEF HasTaken
  <2> QED
    BY <1>1, <1>2, <2>1, <2>3, <2>4 DEF StolenInv
<1>7. CASE StartStage
  BY <1>7 DEF StartStage, StolenInv
<1>8. ASSUME NEW s \in Stages, LookFirst(s) \/ SeeClosed(s) \/ FindNothing(s) PROVE StolenInv'
  <2>1. /\ handler' \in [Stages -> HandlerType]
        /\ \A r \in Stages \ {s} : handler'[r] = handler[r]
        /\ Closed(s) => handler'[s].at = "gone"
    <3>1. PICK at \in {"second", "third", "gone"} :
             handler' = [handler EXCEPT ![s].at = at] /\ (Closed(s) => at = "gone")
      BY <1>8 DEF LookFirst, SeeClosed, FindNothing
    <3> QED
      BY <1>1, <3>1 DEF HandlerType
  <2>2. UNCHANGED <<stage, pc, left, buf>>
    BY <1>8 DEF LookFirst, SeeClosed, FindNothing
  <2>3. HasTaken => HasTaken'
    BY <1>1, <1>2, <2>1, <2>2 DEF HasTaken, Closed
  <2> QED
    BY <1>1, <1>2, <2>2, <2>3 DEF StolenInv
<1>9. ASSUME NEW s \in Stages, TakeOld(s) PROVE StolenInv'
  <2>1. /\ buf[s] # <<>> /\ handler[s].at \in {"second", "third"} /\ UNCHANGED <<stage, pc, left>>
        /\ handler' = [handler EXCEPT ![s] = [at |-> "hold", msg |-> Head(buf[s])]]
        /\ buf' = [buf EXCEPT ![s] = Tail(@)]
    BY <1>9 DEF TakeOld, LooksIntoOld
  <2>2. CASE s = stage - 1
    <3>1. ~ HasTaken /\ HasTaken'
      BY <1>1, <2>1, <2>2 DEF HasTaken
    <3>2. buf'[stage - 1] = Tail(buf[stage - 1])
      BY <1>1, <1>2, <2>1, <2>2
    <3>3. Len(buf'[stage - 1]) = Len(buf[stage - 1]) - 1
      BY <1>2, <2>1, <2>2, <3>2, TailHas
    <3> QED
      BY <1>1, <1>2, <2>1, <3>1, <3>3 DEF StolenInv
  <2>3. CASE s # stage - 1
    <3>1. HasTaken' <=> HasTaken
      BY <1>1, <2>1, <2>3 DEF HasTaken
    <3>2. buf'[stage - 1] = buf[stage - 1]
      BY <1>1, <1>2, <2>1, <2>3
    <3> QED
      BY <2>1, <3>1, <3>2 DEF StolenInv
  <2> QED
    BY <2>2, <2>3
<1>10. ASSUME NEW s \in Stages, TakeInput(s) PROVE StolenInv'
  <2>1. PICK m : handler' = [handler EXCEPT ![s] = [at |-> "hold", msg |-> m]]
    BY <1>10 DEF TakeInput
  <2>2. HasTaken => HasTaken'
    BY <1>1, <1>10, <2>1 DEF HasTaken, TakeInput
  <2> QED
    BY <1>1, <1>2, <1>10, <2>2 DEF StolenInv, TakeInput
<1>11. ASSUME NEW s \in Stages, Place(s) PROVE StolenInv'
  <2>1. HasTaken => HasTaken'
    BY <1>1, <1>11 DEF HasTaken, Place, BackTo
  <2>2. Len(buf'[stage - 1]) \in Nat /\ Len(buf'[stage - 1]) >= Len(buf[stage - 1])
    <3>1. handler[s].msg \in Message
      BY <1>11 DEF Place, TypeInv
    <3>2. buf'[stage - 1] = buf[stage - 1] \/ buf'[stage - 1] = Append(buf[stage - 1], handler[s].msg)
      BY <1>1, <1>2, <1>11 DEF Place
    <3> QED
      BY <1>2, <3>1, <3>2, AppendHas
  <2> QED
    BY <1>1, <1>2, <1>11, <2>1, <2>2 DEF StolenInv, Place
<1> QED
  BY <1>3, <1>4, <1>5, <1>6, <1>7, <1>8, <1>9, <1>10, <1>11 DEF Next, Launch, Handler

\* checkbuf (sfmvba.go:188-198) never waits for more than one message that the
\* closed handler has taken from under it, in any run.
THEOREM StealsOne == Spec => []OneStolen
<1>1. Init => TypeInv /\ StolenInv
  BY InitType DEF Init, StolenInv
<1>2. TypeInv /\ StolenInv /\ [Next]_vars => (TypeInv /\ StolenInv)'
  BY StepType, StepStolen
<1>3. TypeInv /\ StolenInv => OneStolen
  BY StolenImplies
<1> QED
  BY <1>1, <1>2, <1>3, PTL DEF Spec
-----------------------------------------------------------------------------
(***************************************************************************)
(* One place                                                               *)
(***************************************************************************)
\* Message m lies at place p; the four kinds of place.
Lies(m, p) ==
    \/ p = <<"input", 0>> /\ m \in input
    \/ \E s \in Stages : p = <<"held", s>> /\ handler[s].msg = m
    \/ \E s \in -1 .. MaxStage + 1 : p = <<"buf", s>> /\ Has(buf[s], m)
    \/ \E s \in Stages : p = <<"got", s>> /\ m \in got[s]

PlaceInv ==
    /\ \A s \in -1 .. MaxStage + 1 : NoRepeat(buf[s])
    /\ \A m \in Message : \A p, q : Lies(m, p) /\ Lies(m, q) => p = q

LEMMA RangeHas == ASSUME NEW S, NEW q \in Seq(S), NEW m PROVE m \in Range(q) <=> Has(q, m)
<1>1. DOMAIN q = 1 .. Len(q)
  BY LenProperties
<1> QED
  BY <1>1 DEF Range, Has

LEMMA PlacesAreLies ==
    ASSUME TypeInv, NEW m \in Message, NEW p
    PROVE  p \in Places(m) <=> Lies(m, p)
<1>1. buf \in [-1 .. MaxStage + 1 -> Seq(Message)]
  BY DEF TypeInv, TypeOK
<1>2. \A s \in -1 .. MaxStage + 1 : m \in Range(buf[s]) <=> Has(buf[s], m)
  BY <1>1, RangeHas
<1>3. In(m) = {s \in -1 .. MaxStage + 1 : Has(buf[s], m)}
  BY <1>1, <1>2 DEF In
<1>4. p \in {<<"input", 0>> : x \in {m} \intersect input} <=> p = <<"input", 0>> /\ m \in input
  OBVIOUS
<1>5. p \in {<<"held", s>> : s \in Held(m)} <=> \E s \in Stages : p = <<"held", s>> /\ handler[s].msg = m
  BY DEF Held
<1>6. p \in {<<"buf", s>> : s \in In(m)} <=> \E s \in -1 .. MaxStage + 1 : p = <<"buf", s>> /\ Has(buf[s], m)
  BY <1>3
<1>7. p \in {<<"got", s>> : s \in {r \in Stages : m \in got[r]}} <=> \E s \in Stages : p = <<"got", s>> /\ m \in got[s]
  OBVIOUS
<1> QED
  BY <1>4, <1>5, <1>6, <1>7 DEF Places, Lies

LEMMA PlaceImplies == TypeInv /\ PlaceInv => OnePlace
<1> SUFFICES ASSUME TypeInv, PlaceInv, NEW m \in Message PROVE Cardinality(Places(m)) <= 1
  BY DEF OnePlace, TypeInv
<1>1. \A p, q \in Places(m) : p = q
  BY PlacesAreLies DEF PlaceInv
<1>2. CASE Places(m) = {}
  BY <1>2, FS_EmptySet
<1>3. CASE Places(m) # {}
  <2>1. PICK p : p \in Places(m)
    BY <1>3
  <2>2. Places(m) = {p}
    BY <1>1, <2>1
  <2> QED
    BY <2>2, FS_Singleton
<1> QED
  BY <1>2, <1>3

LEMMA InitPlace == Init => PlaceInv
<1> SUFFICES ASSUME Init PROVE PlaceInv
  OBVIOUS
<1>1. \A s \in -1 .. MaxStage + 1 : buf[s] = <<>> /\ Len(buf[s]) = 0
  BY DEF Init
<1>2. \A s \in -1 .. MaxStage + 1 : NoRepeat(buf[s]) /\ \A m : ~ Has(buf[s], m)
  BY <1>1 DEF NoRepeat, Has
<1>3. \A s \in Stages : handler[s].msg = None /\ got[s] = {}
  BY DEF Init
<1>4. \A m \in Message : m # None
  BY NoneAssumption
<1>5. ASSUME NEW m \in Message, NEW p, Lies(m, p) PROVE p = <<"input", 0>>
  BY <1>2, <1>3, <1>4, <1>5 DEF Lies
<1> QED
  BY <1>2, <1>5 DEF PlaceInv

\* One message goes from place a to place b, the others stay or are dropped.
LEMMA Moved ==
    ASSUME PlaceInv, NEW x \in Message, NEW a, NEW b, Lies(x, a),
           \A p : Lies(x, p)' => (Lies(x, p) /\ p # a) \/ p = b,
           \A m \in Message \ {x} : \A p : Lies(m, p)' => Lies(m, p),
           \A s \in -1 .. MaxStage + 1 : NoRepeat(buf'[s])
    PROVE  PlaceInv'
<1>1. \A p : Lies(x, p)' => p = b
  BY DEF PlaceInv
<1>2. ASSUME NEW m \in Message, NEW p, NEW q, Lies(m, p)', Lies(m, q)' PROVE p = q
  <2>1. CASE m = x
    BY <1>1, <1>2, <2>1
  <2>2. CASE m # x
    BY <1>2, <2>2 DEF PlaceInv
  <2> QED
    BY <2>1, <2>2
<1> QED
  BY <1>2 DEF PlaceInv

\* Nothing moves.
LEMMA Still ==
    ASSUME PlaceInv, UNCHANGED <<input, buf, got>>,
           \A s \in Stages : handler'[s].msg = handler[s].msg
    PROVE  PlaceInv'
<1>1. \A m, p : Lies(m, p)' <=> Lies(m, p)
  BY DEF Lies
<1> QED
  BY <1>1 DEF PlaceInv

LEMMA StepPlace == TypeInv /\ PlaceInv /\ [Next]_vars => PlaceInv'
<1> SUFFICES ASSUME TypeInv, PlaceInv, [Next]_vars PROVE PlaceInv'
  OBVIOUS
<1>1. /\ stage \in Stages /\ input \subseteq Message
      /\ buf \in [-1 .. MaxStage + 1 -> Seq(Message)]
      /\ handler \in [Stages -> HandlerType]
      /\ got \in [Stages -> SUBSET Message]
  BY DEF TypeInv, TypeOK, HandlerType
<1>2. \A s \in -1 .. MaxStage + 1 : buf[s] \in Seq(Message) /\ NoRepeat(buf[s])
  BY <1>1 DEF PlaceInv
<1>3. CASE UNCHANGED vars
  BY <1>3, Still DEF vars
<1>4. CASE EndStage
  BY <1>4, Still DEF EndStage
<1>5. CASE CheckLength
  BY <1>5, Still DEF CheckLength
<1>6. CASE Check
  <2> DEFINE old == stage - 1
  <2>1. /\ old \in -1 .. MaxStage + 1 /\ stage \in -1 .. MaxStage + 1 /\ old # stage
        /\ buf[old] # <<>>
    BY <1>1, <1>6, Indices, SMTT(30) DEF Check
  <2>0. PICK x : x = Head(buf[old])
    OBVIOUS
  <2>2. /\ x \in Message /\ Has(buf[old], x)
        /\ \A m : Has(Tail(buf[old]), m) => Has(buf[old], m)
        /\ NoRepeat(Tail(buf[old])) /\ ~ Has(Tail(buf[old]), x)
    BY <1>2, <2>0, <2>1, TailHas
  <2>3. Lies(x, <<"buf", old>>)
    BY <2>1, <2>2 DEF Lies
  <2>4. ~ Has(buf[stage], x)
    <3> SUFFICES ASSUME Has(buf[stage], x) PROVE FALSE
      OBVIOUS
    <3>1. Lies(x, <<"buf", stage>>)
      BY <2>1 DEF Lies
    <3>2. <<"buf", old>> = <<"buf", stage>>
      BY <2>2, <2>3, <3>1 DEF PlaceInv
    <3> QED
      BY <2>1, <3>2
  <2>5. /\ \A m : Has(Append(buf[stage], x), m) <=> Has(buf[stage], m) \/ m = x
        /\ NoRepeat(Append(buf[stage], x))
    BY <1>2, <2>1, <2>2, <2>4, AppendHas
  <2>6. /\ buf'[old] = Tail(buf[old])
        /\ buf'[stage] \in {buf[stage], Append(buf[stage], x)}
        /\ \A s \in -1 .. MaxStage + 1 : s \notin {old, stage} => buf'[s] = buf[s]
        /\ UNCHANGED <<input, handler, got>>
    BY <1>1, <1>6, <2>0, <2>1 DEF Check, Rest
  <2>7. \A s \in -1 .. MaxStage + 1 : NoRepeat(buf'[s])
    BY <1>2, <2>2, <2>5, <2>6
  <2>8. ASSUME NEW s \in -1 .. MaxStage + 1, NEW m, Has(buf'[s], m)
        PROVE  (Has(buf[s], m) /\ ~ (m = x /\ s = old)) \/ (m = x /\ s = stage)
    BY <2>1, <2>2, <2>5, <2>6, <2>8
  <2>9. ASSUME NEW m, NEW p, Lies(m, p)'
        PROVE  (Lies(m, p) /\ ~ (m = x /\ p = <<"buf", old>>)) \/ (m = x /\ p = <<"buf", stage>>)
    <3>1. CASE \E s \in -1 .. MaxStage + 1 : p = <<"buf", s>> /\ Has(buf'[s], m)
      BY <2>8, <3>1 DEF Lies
    <3>2. CASE ~ \E s \in -1 .. MaxStage + 1 : p = <<"buf", s>> /\ Has(buf'[s], m)
      <4>1. Lies(m, p) /\ p # <<"buf", old>>
        BY <2>6, <2>9, <3>2 DEF Lies
      <4> QED
        BY <4>1
    <3> QED
      BY <3>1, <3>2
  <2> DEFINE a == <<"buf", old>>
             b == <<"buf", stage>>
  <2>10. \A p : Lies(x, p)' => (Lies(x, p) /\ p # a) \/ p = b
    BY <2>9
  <2>11. \A m \in Message \ {x} : \A p : Lies(m, p)' => Lies(m, p)
    BY <2>9
  <2>12. Lies(x, a)
    BY <2>3
  <2> HIDE DEF a, b
  <2> QED
    BY <2>2, <2>7, <2>10, <2>11, <2>12, Moved
<1>7. CASE StartStage
  <2>1. \A s \in Stages : handler'[s].msg = handler[s].msg
    BY <1>1, <1>7 DEF StartStage, HandlerType
  <2> QED
    BY <1>7, <2>1, Still DEF StartStage
<1>8. ASSUME NEW s \in Stages, LookFirst(s) \/ SeeClosed(s) \/ FindNothing(s) PROVE PlaceInv'
  <2>1. \E at \in {"second", "third", "gone"} : handler' = [handler EXCEPT ![s].at = at]
    BY <1>8 DEF LookFirst, SeeClosed, FindNothing
  <2>2. \A r \in Stages : handler'[r].msg = handler[r].msg
    BY <1>1, <2>1 DEF HandlerType
  <2>3. UNCHANGED <<input, buf, got>>
    BY <1>8 DEF LookFirst, SeeClosed, FindNothing
  <2> QED
    BY <2>2, <2>3, Still
<1>9. ASSUME NEW s \in Stages, TakeOld(s) PROVE PlaceInv'
  <2>1. s \in -1 .. MaxStage + 1 /\ buf[s] # <<>>
    BY <1>9, Indices DEF TakeOld
  <2>0. PICK x : x = Head(buf[s])
    OBVIOUS
  <2>2. /\ x \in Message /\ Has(buf[s], x)
        /\ \A m : Has(Tail(buf[s]), m) => Has(buf[s], m)
        /\ NoRepeat(Tail(buf[s])) /\ ~ Has(Tail(buf[s]), x)
    BY <1>2, <2>0, <2>1, TailHas
  <2>3. /\ buf'[s] = Tail(buf[s])
        /\ \A r \in -1 .. MaxStage + 1 : r # s => buf'[r] = buf[r]
        /\ handler'[s].msg = x
        /\ \A r \in Stages : r # s => handler'[r] = handler[r]
        /\ UNCHANGED <<input, got>>
    BY <1>1, <1>9, <2>0, <2>1 DEF TakeOld
  <2>4. \A r \in -1 .. MaxStage + 1 : NoRepeat(buf'[r])
    BY <1>2, <2>2, <2>3
  <2>5. Lies(x, <<"buf", s>>)
    BY <2>1, <2>2 DEF Lies
  <2>6. ASSUME NEW m, NEW p, Lies(m, p)'
        PROVE  (Lies(m, p) /\ ~ (m = x /\ p = <<"buf", s>>)) \/ (m = x /\ p = <<"held", s>>)
    <3>1. CASE \E r \in -1 .. MaxStage + 1 : p = <<"buf", r>> /\ Has(buf'[r], m)
      BY <2>2, <2>3, <3>1 DEF Lies
    <3>2. CASE \E r \in Stages : p = <<"held", r>> /\ handler'[r].msg = m
      BY <2>3, <3>2 DEF Lies
    <3>3. CASE (p = <<"input", 0>> /\ m \in input') \/ (\E r \in Stages : p = <<"got", r>> /\ m \in got'[r])
      BY <2>3, <3>3 DEF Lies
    <3> QED
      BY <2>6, <3>1, <3>2, <3>3 DEF Lies
  <2> QED
    BY <2>2, <2>4, <2>5, <2>6, Moved
<1>10. ASSUME NEW s \in Stages, TakeInput(s) PROVE PlaceInv'
  <2>1. PICK x \in input : handler' = [handler EXCEPT ![s] = [at |-> "hold", msg |-> x]] /\ input' = input \ {x}
    BY <1>10 DEF TakeInput
  <2>2. /\ x \in Message /\ handler'[s].msg = x
        /\ \A r \in Stages : r # s => handler'[r] = handler[r]
        /\ UNCHANGED <<buf, got>>
    BY <1>1, <1>10, <2>1 DEF TakeInput
  <2>3. Lies(x, <<"input", 0>>)
    BY DEF Lies
  <2>4. ASSUME NEW m, NEW p, Lies(m, p)'
        PROVE  (Lies(m, p) /\ ~ (m = x /\ p = <<"input", 0>>)) \/ (m = x /\ p = <<"held", s>>)
    <3>1. CASE p = <<"input", 0>> /\ m \in input'
      BY <2>1, <3>1 DEF Lies
    <3>2. CASE \E r \in Stages : p = <<"held", r>> /\ handler'[r].msg = m
      BY <2>2, <3>2 DEF Lies
    <3>3. CASE \/ \E r \in -1 .. MaxStage + 1 : p = <<"buf", r>> /\ Has(buf'[r], m)
               \/ \E r \in Stages : p = <<"got", r>> /\ m \in got'[r]
      BY <2>2, <3>3 DEF Lies
    <3> QED
      BY <2>4, <3>1, <3>2, <3>3 DEF Lies
  <2> QED
    BY <1>2, <2>2, <2>3, <2>4, Moved
<1>11. ASSUME NEW s \in Stages, Place(s) PROVE PlaceInv'
  <2>0. PICK x : x = handler[s].msg
    OBVIOUS
  <2> DEFINE b == IF Stage[x] = s THEN <<"got", s>> ELSE <<"buf", s + 1>>
  <2>1. x \in Message /\ Stage[x] \in Int /\ s \in Int /\ s + 1 \in -1 .. MaxStage + 1
    BY <1>1, <1>11, <2>0, Indices, MessageAssumption DEF Place, TypeInv
  <2>2. Lies(x, <<"held", s>>)
    BY <2>0 DEF Lies
  <2>3. ~ Has(buf[s + 1], x)
    <3> SUFFICES ASSUME Has(buf[s + 1], x) PROVE FALSE
      OBVIOUS
    <3>1. Lies(x, <<"buf", s + 1>>)
      BY <2>1 DEF Lies
    <3>2. <<"held", s>> = <<"buf", s + 1>>
      BY <2>1, <2>2, <3>1 DEF PlaceInv
    <3> QED
      BY <3>2
  <2>4. /\ \A m : Has(Append(buf[s + 1], x), m) <=> Has(buf[s + 1], m) \/ m = x
        /\ NoRepeat(Append(buf[s + 1], x))
    BY <1>2, <2>1, <2>3, AppendHas
  <2>5. /\ handler'[s].msg = None
        /\ \A r \in Stages : r # s => handler'[r] = handler[r]
        /\ UNCHANGED input
    BY <1>1, <1>11, <2>0 DEF Place
  <2>6. /\ \A r \in -1 .. MaxStage + 1 : r # s + 1 => buf'[r] = buf[r]
        /\ buf'[s + 1] = buf[s + 1] \/ (Stage[x] > s /\ buf'[s + 1] = Append(buf[s + 1], x))
    BY <1>1, <1>11, <2>0, <2>1 DEF Place
  <2>7. \A r \in Stages : \A m : m \in got'[r] => m \in got[r] \/ (m = x /\ r = s /\ Stage[x] = s)
    BY <1>1, <1>11, <2>0 DEF Place
  <2>8. \A r \in -1 .. MaxStage + 1 : NoRepeat(buf'[r])
    BY <1>2, <2>4, <2>6
  <2>9. ASSUME NEW m \in Message, NEW p, Lies(m, p)'
        PROVE  (Lies(m, p) /\ ~ (m = x /\ p = <<"held", s>>)) \/ (m = x /\ p = b)
    <3>1. CASE p = <<"input", 0>> /\ m \in input'
      BY <2>5, <3>1 DEF Lies
    <3>2. CASE \E r \in Stages : p = <<"held", r>> /\ handler'[r].msg = m
      <4>1. PICK r \in Stages : p = <<"held", r>> /\ handler'[r].msg = m
        BY <3>2
      <4>2. r # s
        BY <2>5, <4>1, NoneAssumption
      <4>3. Lies(m, p) /\ p # <<"held", s>>
        BY <2>5, <4>1, <4>2 DEF Lies
      <4> QED
        BY <4>3
    <3>3. CASE \E r \in -1 .. MaxStage + 1 : p = <<"buf", r>> /\ Has(buf'[r], m)
      <4>1. PICK r \in -1 .. MaxStage + 1 : p = <<"buf", r>> /\ Has(buf'[r], m)
        BY <3>3
      <4>2. Has(buf[r], m) \/ (m = x /\ r = s + 1 /\ Stage[x] > s)
        BY <2>4, <2>6, <4>1
      <4>3. CASE Has(buf[r], m)
        BY <4>1, <4>3 DEF Lies
      <4>4. CASE m = x /\ r = s + 1 /\ Stage[x] > s
        BY <2>1, <4>1, <4>4
      <4> QED
        BY <4>2, <4>3, <4>4
    <3>4. CASE \E r \in Stages : p = <<"got", r>> /\ m \in got'[r]
      <4>1. PICK r \in Stages : p = <<"got", r>> /\ m \in got'[r]
        BY <3>4
      <4>2. m \in got[r] \/ (m = x /\ r = s /\ Stage[x] = s)
        BY <2>7, <4>1
      <4> QED
        BY <4>1, <4>2 DEF Lies
    <3> QED
      BY <2>9, <3>1, <3>2, <3>3, <3>4 DEF Lies
  <2> QED
    BY <2>1, <2>2, <2>8, <2>9, Moved, SMTT(30)
<1> QED
  BY <1>3, <1>4, <1>5, <1>6, <1>7, <1>8, <1>9, <1>10, <1>11 DEF Next, Launch, Handler

\* Handlers and checkbuf hand a message on, they never double it, whatever they
\* take from the same channel (sfmvba.go:190-198, handlemsg.go:24-58).
THEOREM MessageInOnePlace == Spec => []OnePlace
<1>1. Init => TypeInv /\ PlaceInv
  BY InitType, InitPlace
<1>2. TypeInv /\ PlaceInv /\ [Next]_vars => (TypeInv /\ PlaceInv)'
  BY StepType, StepPlace
<1>3. TypeInv /\ PlaceInv => OnePlace
  BY PlaceImplies
<1> QED
  BY <1>1, <1>2, <1>3, PTL DEF Spec
-----------------------------------------------------------------------------
(***************************************************************************)
(* What gets lost                                                          *)
(***************************************************************************)
\* A handler has a message only while it holds it, and begins with its stage.
HandInv ==
    \A s \in Stages :
        /\ handler[s].at # "hold" => handler[s].msg = None
        /\ s > stage \/ (s = stage /\ pc # "run") => handler[s].at = "none"

LEMMA StepHand == TypeInv /\ HandInv /\ [Next]_vars => HandInv'
<1> SUFFICES ASSUME TypeInv, HandInv, [Next]_vars PROVE HandInv'
  OBVIOUS
<1>1. /\ stage \in Stages /\ handler \in [Stages -> HandlerType] /\ Stages \subseteq Int
  BY Indices DEF TypeInv, TypeOK, HandlerType
<1>2. CASE UNCHANGED vars \/ CheckLength \/ Check
  BY <1>2 DEF vars, CheckLength, Check, HandInv
<1>3. CASE EndStage
  <2>1. stage' = stage + 1 /\ UNCHANGED handler
    BY <1>3 DEF EndStage
  <2>2. \A s \in Stages : s > stage' \/ s = stage' => s > stage
    BY <1>1, <2>1
  <2> QED
    BY <2>1, <2>2 DEF HandInv
<1>4. CASE StartStage
  <2>1. /\ handler'[stage].at = "first" /\ handler'[stage].msg = handler[stage].msg
        /\ \A s \in Stages : s # stage => handler'[s] = handler[s]
        /\ pc = "drain" /\ pc' = "run" /\ stage' = stage
    BY <1>1, <1>4 DEF StartStage, HandlerType
  <2>2. handler[stage].msg = None
    BY <1>1, <2>1 DEF HandInv
  <2> QED
    BY <1>1, <2>1, <2>2 DEF HandInv
<1>5. ASSUME NEW s \in Stages, Handler(s) PROVE HandInv'
  <2>1. UNCHANGED <<stage, pc>> /\ handler[s].at # "none"
    BY <1>5 DEF Handler, LookFirst, SeeClosed, TakeOld, FindNothing, TakeInput, Place, LooksIntoOld
  <2>2. \A r \in Stages : r # s => handler'[r] = handler[r]
    BY <1>1, <1>5 DEF Handler, LookFirst, SeeClosed, TakeOld, FindNothing, TakeInput, Place
  <2>3. handler'[s].at # "hold" => handler'[s].msg = None
    <3>1. CASE LookFirst(s) \/ SeeClosed(s) \/ FindNothing(s)
      BY <1>1, <3>1 DEF LookFirst, SeeClosed, FindNothing, HandlerType, HandInv
    <3>2. CASE TakeOld(s) \/ TakeInput(s) \/ Place(s)
      BY <1>1, <3>2 DEF TakeOld, TakeInput, Place
    <3> QED
      BY <1>5, <3>1, <3>2 DEF Handler
  <2> QED
    BY <2>1, <2>2, <2>3 DEF HandInv
<1> QED
  BY <1>2, <1>3, <1>4, <1>5 DEF Next, Launch

\* Message m is among the first k of a queue.
InFront(q, k, m) == \E j \in 1 .. Len(q) : j <= k /\ q[j] = m

\* How the front of a queue fares.
LEMMA Front ==
    ASSUME NEW S, NEW q \in Seq(S), NEW k \in Nat, NEW m
    PROVE  /\ m \in Range(FirstOf(q, k)) <=> InFront(q, k, m)
           /\ Has(q, m) <=> InFront(q, Len(q), m)
           /\ ~ InFront(q, 0, m)
           /\ InFront(q, k, m) => Has(q, m)
           /\ q # <<>> /\ m # Head(q) /\ InFront(q, k, m) => InFront(Tail(q), k - 1, m)
           /\ \A x \in S : InFront(q, k, m) => InFront(Append(q, x), k, m)
<1>1. Len(q) \in Nat /\ DOMAIN q = 1 .. Len(q)
  OBVIOUS
<1>2. m \in Range(FirstOf(q, k)) <=> InFront(q, k, m)
  <2>1. PICK n : n = IF k < Len(q) THEN k ELSE Len(q)
    OBVIOUS
  <2>2. PICK t : t = SubSeq(q, 1, n)
    OBVIOUS
  <2>3. n \in 0 .. Len(q) /\ \A j \in 1 .. Len(q) : j <= k <=> j <= n
    <3>1. CASE k < Len(q)
      BY <1>1, <2>1, <3>1
    <3>2. CASE ~ k < Len(q)
      <4>1. n = Len(q) /\ \A j \in 1 .. Len(q) : j <= k
        BY <1>1, <2>1, <3>2
      <4> QED
        BY <1>1, <4>1
    <3> QED
      BY <3>1, <3>2
  <2>4. t \in Seq(S) /\ Len(t) = n /\ \A j \in 1 .. n : t[j] = q[j] /\ j \in 1 .. Len(q)
    BY <1>1, <2>2, <2>3
  <2>5. m \in Range(t) <=> \E j \in 1 .. n : t[j] = m
    BY <2>4, RangeHas DEF Has
  <2>6. FirstOf(q, k) = t
    BY <2>1, <2>2 DEF FirstOf
  <2>7. (\E j \in 1 .. n : t[j] = m) <=> InFront(q, k, m)
    BY <1>1, <2>3, <2>4 DEF InFront
  <2> QED
    BY <2>5, <2>6, <2>7
<1>3. /\ Has(q, m) <=> InFront(q, Len(q), m)
      /\ ~ InFront(q, 0, m)
      /\ InFront(q, k, m) => Has(q, m)
  BY <1>1 DEF Has, InFront
<1>4. ASSUME q # <<>>, m # Head(q), InFront(q, k, m) PROVE InFront(Tail(q), k - 1, m)
  <2>1. PICK j \in 1 .. Len(q) : j <= k /\ q[j] = m
    BY <1>4 DEF InFront
  <2>2. Head(q) = q[1] /\ j # 1
    BY <1>4, <2>1
  <2>3. /\ Len(Tail(q)) = Len(q) - 1 /\ \A i \in 1 .. Len(Tail(q)) : Tail(q)[i] = q[i + 1]
    BY <1>4
  <2>4. j - 1 \in 1 .. Len(Tail(q)) /\ j - 1 <= k - 1 /\ (j - 1) + 1 = j
    BY <1>1, <2>1, <2>2, <2>3
  <2>5. Tail(q)[j - 1] = m
    BY <2>1, <2>3, <2>4
  <2> QED
    BY <2>4, <2>5 DEF InFront
<1>5. ASSUME NEW x \in S, InFront(q, k, m) PROVE InFront(Append(q, x), k, m)
  <2>1. PICK j \in 1 .. Len(q) : j <= k /\ q[j] = m
    BY <1>5 DEF InFront
  <2>2. j \in 1 .. Len(Append(q, x)) /\ Append(q, x)[j] = m
    BY <1>1, <2>1
  <2> QED
    BY <2>1, <2>2 DEF InFront
<1> QED
  BY <1>2, <1>3, <1>4, <1>5

\* The ways to a message, as the proof goes through them.
Seen(m) ==
    \/ m \in input
    \/ \E s \in Stages : handler[s].msg = m /\ s >= stage - 1
    \/ \E s \in -1 .. MaxStage + 1 : s >= stage /\ Has(buf[s], m)
    \/ pc = "next" /\ Has(buf[stage - 1], m)
    \/ pc = "drain" /\ InFront(buf[stage - 1], left, m)
    \/ m \in got[Stage[m]]

LEMMA SightIsSeen ==
    ASSUME TypeInv, NEW m \in Message
    PROVE  InSight(m) <=> Seen(m)
<1>1. /\ buf \in [-1 .. MaxStage + 1 -> Seq(Message)] /\ stage \in Stages /\ left \in Nat
      /\ stage - 1 \in -1 .. MaxStage + 1
  BY Indices DEF TypeInv, TypeOK
<1>2. \A s \in -1 .. MaxStage + 1 : s \in In(m) <=> Has(buf[s], m)
  BY <1>1, RangeHas DEF In
<1>3. In(m) \subseteq -1 .. MaxStage + 1
  BY <1>1 DEF In
<1>4. m \in Range(FirstOf(buf[stage - 1], left)) <=> InFront(buf[stage - 1], left, m)
  BY <1>1, Front
<1> QED
  BY <1>1, <1>2, <1>3, <1>4 DEF InSight, Seen, Held

\* The same of the state after a step.
LEMMA SeenIsSight ==
    ASSUME TypeInv', NEW m \in Message, Seen(m)'
    PROVE  InSight(m)'
<1>1. /\ buf' \in [-1 .. MaxStage + 1 -> Seq(Message)] /\ stage' \in Stages /\ left' \in Nat
      /\ stage' - 1 \in -1 .. MaxStage + 1
  BY Indices DEF TypeInv, TypeOK
<1>2. \A s \in -1 .. MaxStage + 1 : Has(buf'[s], m) => s \in In(m)'
  BY <1>1, RangeHas DEF In
<1>3. InFront(buf'[stage' - 1], left', m) => m \in Range(FirstOf(buf'[stage' - 1], left'))
  BY <1>1, Front
<1>4. CASE \E s \in -1 .. MaxStage + 1 : s >= stage' /\ Has(buf'[s], m)
  BY <1>2, <1>4 DEF InSight
<1>5. CASE \E s \in Stages : handler'[s].msg = m /\ s >= stage' - 1
  BY <1>5 DEF InSight, Held
<1> QED
  BY <1>1, <1>2, <1>3, <1>4, <1>5 DEF InSight, Seen

\* A step that moves neither stage nor checkbuf, and takes m from nowhere ...
Stays(m) ==
    /\ stage' = stage /\ pc' = pc /\ left' = left
    /\ m \in input => m \in input'
    /\ \A r \in Stages : handler[r].msg = m => handler'[r].msg = m
    /\ \A r \in -1 .. MaxStage + 1 : /\ Has(buf[r], m) => Has(buf'[r], m)
                                     /\ InFront(buf[r], left, m) => InFront(buf'[r], left, m)
    /\ \A r \in Stages : m \in got[r] => m \in got'[r]

\* ... leaves it in sight.
LEMMA SeenStays ==
    ASSUME TypeInv, NEW m \in Message, Seen(m), Stays(m)
    PROVE  Seen(m)'
<1>1. stage - 1 \in -1 .. MaxStage + 1 /\ Stage[m] \in Stages
  BY Indices, MessageAssumption DEF TypeInv, TypeOK
<1>2. CASE m \in input
  BY <1>2 DEF Seen, Stays
<1>3. CASE \E r \in Stages : handler[r].msg = m /\ r >= stage - 1
  BY <1>3 DEF Seen, Stays
<1>4. CASE \E r \in -1 .. MaxStage + 1 : r >= stage /\ Has(buf[r], m)
  BY <1>4 DEF Seen, Stays
<1>5. CASE pc = "next" /\ Has(buf[stage - 1], m)
  BY <1>1, <1>5 DEF Seen, Stays
<1>6. CASE pc = "drain" /\ InFront(buf[stage - 1], left, m)
  BY <1>1, <1>6 DEF Seen, Stays
<1>7. CASE m \in got[Stage[m]]
  BY <1>1, <1>7 DEF Seen, Stays
<1> QED
  BY <1>2, <1>3, <1>4, <1>5, <1>6, <1>7 DEF Seen

\* Where the ways to m that a step may take away lead.
LEMMA LostStep ==
    ASSUME TypeInv, PlaceInv, HandInv, Next, TypeInv', NEW m \in Message, Stage[m] >= stage', Seen(m)
    PROVE  Seen(m)' \/ \E s \in Stages : handler'[s].msg = m
<1>1. /\ stage \in Stages /\ left \in Nat /\ pc \in {"run", "next", "drain"}
      /\ buf \in [-1 .. MaxStage + 1 -> Seq(Message)]
      /\ handler \in [Stages -> HandlerType]
      /\ got \in [Stages -> SUBSET Message]
      /\ Stages \subseteq Int /\ Stage[m] \in Stages /\ m # None
  BY Indices, MessageAssumption, NoneAssumption DEF TypeInv, TypeOK, HandlerType
<1>2. /\ stage \in Int /\ stage \in -1 .. MaxStage + 1 /\ stage - 1 \in -1 .. MaxStage + 1
      /\ stage - 1 # stage
  BY <1>1, Indices
<1>3. \A s \in -1 .. MaxStage + 1 : buf[s] \in Seq(Message) /\ Len(buf[s]) \in Nat
  BY <1>1
<1>4. CASE EndStage
  <2>1. stage' = stage + 1 /\ pc = "run" /\ pc' = "next" /\ UNCHANGED <<input, left, buf, handler, got>>
    BY <1>4 DEF EndStage
  <2>2. stage' - 1 = stage
    BY <1>2, <2>1
  <2>3. ASSUME NEW s \in -1 .. MaxStage + 1, s >= stage, Has(buf[s], m) PROVE Seen(m)'
    <3>1. s = stage \/ s >= stage + 1
      BY <1>2, <2>3
    <3> QED
      BY <2>1, <2>2, <2>3, <3>1 DEF Seen
  <2> QED
    BY <2>1, <2>3 DEF Seen
<1>5. CASE CheckLength
  <2>1. pc = "next" /\ pc' = "drain" /\ left' = Len(buf[stage - 1]) /\ UNCHANGED <<input, stage, buf, handler, got>>
    BY <1>5 DEF CheckLength
  <2>2. Has(buf[stage - 1], m) => InFront(buf[stage - 1], Len(buf[stage - 1]), m)
    BY <1>2, <1>3, Front
  <2> QED
    BY <2>1, <2>2 DEF Seen
<1>6. CASE Check
  <2>1. PICK q, x : q = buf[stage - 1] /\ x = Head(q)
    OBVIOUS
  <2>2. q \in Seq(Message) /\ q # <<>> /\ x \in Message
    BY <1>2, <1>3, <1>6, <2>1, TailHas DEF Check
  <2>3. /\ pc = "drain" /\ left' = left - 1 /\ left - 1 \in Nat /\ UNCHANGED <<input, stage, pc, handler, got>>
        /\ buf'[stage - 1] = Tail(q)
        /\ buf'[stage] = IF StillWanted(x) THEN Append(buf[stage], x) ELSE buf[stage]
        /\ \A s \in -1 .. MaxStage + 1 : s \notin {stage - 1, stage} => buf'[s] = buf[s]
    BY <1>1, <1>2, <1>6, <2>1 DEF Check, Rest, MoreToTake
  <2>4. Has(Append(buf[stage], x), m) <=> Has(buf[stage], m) \/ m = x
    BY <1>2, <1>3, <2>2, AppendHas
  <2>5. CASE \E s \in -1 .. MaxStage + 1 : s >= stage /\ Has(buf[s], m)
    <3>1. PICK s \in -1 .. MaxStage + 1 : s >= stage /\ Has(buf[s], m)
      BY <2>5
    <3>2. s # stage - 1
      BY <1>2, <3>1
    <3>3. Has(buf'[s], m)
      BY <2>3, <2>4, <3>1, <3>2
    <3> QED
      BY <2>3, <3>1, <3>3 DEF Seen
  <2>6. CASE InFront(q, left, m)
    <3>1. CASE m = x
      <4>1. Has(buf'[stage], m) /\ stage >= stage
        BY <1>1, <1>2, <2>3, <2>4, <3>1 DEF StillWanted
      <4> QED
        BY <1>2, <2>3, <4>1 DEF Seen
    <3>2. CASE m # x
      <4>1. InFront(Tail(q), left - 1, m)
        BY <1>1, <2>1, <2>2, <2>6, <3>2, Front
      <4> QED
        BY <2>3, <4>1 DEF Seen
    <3> QED
      BY <3>1, <3>2
  <2> QED
    BY <2>1, <2>3, <2>5, <2>6 DEF Seen
<1>7. CASE StartStage
  <2>1. /\ pc = "drain" /\ left = 0 /\ UNCHANGED <<input, stage, left, buf, got>>
        /\ \A s \in Stages : handler'[s].msg = handler[s].msg
    BY <1>1, <1>7 DEF StartStage, HandlerType
  <2>2. ~ InFront(buf[stage - 1], left, m)
    BY <1>2, <1>3, <2>1, Front
  <2> QED
    BY <2>1, <2>2 DEF Seen
<1>8. ASSUME NEW s \in Stages, LookFirst(s) \/ SeeClosed(s) \/ FindNothing(s)
      PROVE  Seen(m)' \/ \E r \in Stages : handler'[r].msg = m
  <2>1. UNCHANGED <<input, stage, pc, left, buf, got>>
    BY <1>8 DEF LookFirst, SeeClosed, FindNothing
  <2>2. \E at \in {"second", "third", "gone"} : handler' = [handler EXCEPT ![s].at = at]
    BY <1>8 DEF LookFirst, SeeClosed, FindNothing
  <2>3. \A r \in Stages : handler'[r].msg = handler[r].msg
    BY <1>1, <2>2 DEF HandlerType
  <2> QED
    BY <2>1, <2>3 DEF Seen
<1>9. ASSUME NEW s \in Stages, TakeOld(s)
      PROVE  Seen(m)' \/ \E r \in Stages : handler'[r].msg = m
  <2>1. PICK q, x : q = buf[s] /\ x = Head(q)
    OBVIOUS
  <2>2. s \in -1 .. MaxStage + 1 /\ q \in Seq(Message) /\ q # <<>>
    BY <1>3, <1>9, <2>1, Indices DEF TakeOld
  <2>3. /\ UNCHANGED <<input, stage, pc, left, got>> /\ handler[s].msg = None
        /\ handler'[s].msg = x /\ buf'[s] = Tail(q)
        /\ \A r \in Stages : r # s => handler'[r] = handler[r]
        /\ \A r \in -1 .. MaxStage + 1 : r # s => buf'[r] = buf[r]
    BY <1>1, <1>9, <2>1, <2>2 DEF TakeOld, LooksIntoOld, HandInv
  <2> SUFFICES ASSUME m # x PROVE Seen(m)'
    BY <2>3
  <2>4. Has(q, m) => Has(Tail(q), m)
    <3>1. Has(q, m) => InFront(q, Len(q), m) /\ Len(q) \in Nat
      BY <2>2, Front
    <3>2. Has(q, m) => InFront(Tail(q), Len(q) - 1, m)
      BY <2>1, <2>2, <3>1, Front
    <3> QED
      BY <3>2 DEF InFront, Has
  <2>5. InFront(q, left, m) => InFront(Tail(q), left, m)
    <3>1. InFront(q, left, m) => InFront(Tail(q), left - 1, m)
      BY <1>1, <2>1, <2>2, Front
    <3>2. Len(Tail(q)) \in Nat
      BY <2>2
    <3> QED
      BY <1>1, <3>1, <3>2 DEF InFront
  <2>6. \A r \in -1 .. MaxStage + 1 : /\ Has(buf[r], m) => Has(buf'[r], m)
                                      /\ InFront(buf[r], left, m) => InFront(buf'[r], left, m)
    BY <2>1, <2>3, <2>4, <2>5
  <2>7. \A r \in Stages : handler[r].msg = m => handler'[r].msg = m
    BY <1>1, <2>3
  <2>8. /\ stage' = stage /\ pc' = pc /\ left' = left /\ (m \in input => m \in input')
        /\ \A r \in Stages : m \in got[r] => m \in got'[r]
    BY <2>3
  <2> QED
    <3>1. Stays(m)
      BY <2>6, <2>7, <2>8 DEF Stays
    <3> QED
      BY <3>1, SeenStays
<1>10. ASSUME NEW s \in Stages, TakeInput(s)
       PROVE  Seen(m)' \/ \E r \in Stages : handler'[r].msg = m
  <2>1. PICK x \in input : handler' = [handler EXCEPT ![s] = [at |-> "hold", msg |-> x]] /\ input' = input \ {x}
    BY <1>10 DEF TakeInput
  <2>2. /\ UNCHANGED <<stage, pc, left, buf, got>> /\ handler[s].msg = None
        /\ handler'[s].msg = x /\ \A r \in Stages : r # s => handler'[r] = handler[r]
    BY <1>1, <1>10, <2>1 DEF TakeInput, HandInv
  <2>3. m # x => \A r \in Stages : handler[r].msg = m => handler'[r].msg = m
    BY <1>1, <2>2
  <2> QED
    BY <2>1, <2>2, <2>3 DEF Seen
<1>11. ASSUME NEW s \in Stages, Place(s)
       PROVE  Seen(m)' \/ \E r \in Stages : handler'[r].msg = m
  <2>1. PICK x : x = handler[s].msg
    OBVIOUS
  <2>2. s + 1 \in -1 .. MaxStage + 1 /\ s \in Int /\ x \in Message /\ handler[s].at = "hold"
    BY <1>1, <1>11, <2>1, Indices DEF Place, TypeInv
  <2>3. /\ UNCHANGED <<input, stage, pc, left>>
        /\ got' = (IF Stage[x] = s THEN [got EXCEPT ![s] = @ \union {x}] ELSE got)
        /\ buf' = (IF Stage[x] > s THEN [buf EXCEPT ![s + 1] = Append(@, x)] ELSE buf)
        /\ \A r \in Stages : r # s => handler'[r] = handler[r]
    BY <1>1, <1>11, <2>1 DEF Place
  <2>4. \A r \in -1 .. MaxStage + 1 : /\ Has(buf[r], m) => Has(buf'[r], m)
                                      /\ InFront(buf[r], left, m) => InFront(buf'[r], left, m)
    <3>1. /\ Has(Append(buf[s + 1], x), m) <=> Has(buf[s + 1], m) \/ m = x
          /\ InFront(buf[s + 1], left, m) => InFront(Append(buf[s + 1], x), left, m)
      BY <1>1, <1>3, <2>2, AppendHas, Front
    <3> QED
      BY <1>1, <2>2, <2>3, <3>1
  <2>5. /\ stage' = stage /\ pc' = pc /\ left' = left /\ (m \in input => m \in input')
        /\ \A r \in Stages : m \in got[r] => m \in got'[r]
    BY <1>1, <2>3
  <2>6. CASE m # x
    <3>1. \A r \in Stages : handler[r].msg = m => handler'[r].msg = m
      BY <2>1, <2>3, <2>6
    <3> QED
      <4>1. Stays(m)
        BY <2>4, <2>5, <3>1 DEF Stays
      <4> QED
        BY <4>1, SeenStays
  <2>7. CASE m = x
    <3>1. s <= stage
      BY <1>1, <2>2 DEF HandInv
    <3>5. Stage[m] \in Int
      BY <1>1
    <3>2. CASE Stage[m] = s
      <4>1. m \in got'[Stage[m]]
        BY <1>1, <2>3, <2>7, <3>2
      <4> QED
        BY <4>1 DEF Seen
    <3>3. CASE Stage[m] > s
      <4>1. Has(buf'[s + 1], m)
        <5>1. Has(Append(buf[s + 1], x), x)
          BY <1>3, <2>2, AppendHas
        <5> QED
          BY <1>1, <2>2, <2>3, <2>7, <3>3, <5>1
      <4>2. Lies(m, <<"held", s>>)
        BY <2>1, <2>7 DEF Lies
      <4>3. \A p : Lies(m, p) => p = <<"held", s>>
        BY <4>2 DEF PlaceInv
      <4>4. m \notin input /\ \A r \in Stages : m \notin got[r]
        BY <4>3 DEF Lies
      <4>5. \A r \in -1 .. MaxStage + 1 : ~ Has(buf[r], m)
        BY <4>3 DEF Lies
      <4>6. ~ InFront(buf[stage - 1], left, m)
        BY <1>1, <1>2, <1>3, <4>5, Front
      <4>7. PICK r \in Stages : handler[r].msg = m /\ r >= stage - 1
        BY <1>1, <1>2, <4>4, <4>5, <4>6 DEF Seen
      <4>8. r = s
        BY <4>3, <4>7 DEF Lies
      <4>9. s + 1 >= stage
        BY <1>2, <2>2, <4>7, <4>8
      <4> QED
        BY <2>2, <2>3, <4>1, <4>9 DEF Seen
    <3>4. CASE Stage[m] < s
      <4>1. Stage[m] >= stage
        BY <2>3
      <4> QED
        BY <1>2, <2>2, <3>1, <3>4, <3>5, <4>1
    <3> QED
      BY <2>2, <3>2, <3>3, <3>4, <3>5
  <2> QED
    BY <2>6, <2>7
<1> QED
  BY <1>4, <1>5, <1>6, <1>7, <1>8, <1>9, <1>10, <1>11, Zenon DEF Next, Launch, Handler

\* A message that is still wanted gets out of sight only in the hands of a handler
\* that is a whole stage behind (handlemsg.go:54, ba.go:84-86): checkbuf and the
\* handlers together lose none.
THEOREM NoneIsLost == Spec => LostOnlyByLaggard
<1> DEFINE Kept == \A m \in Message :
                       Stage[m] >= stage' /\ InSight(m) /\ ~ InSight(m)' => Held(m)' # {}
           Inv == TypeInv /\ PlaceInv /\ HandInv
<1>1. Init => HandInv
  BY DEF Init, HandInv
<1>2. Init => Inv
  BY <1>1, InitType, InitPlace
<1>3. Inv /\ [Next]_vars => Inv'
  BY StepType, StepPlace, StepHand
<1>4. ASSUME Inv, Next, NEW m \in Message, Stage[m] >= stage', InSight(m), ~ InSight(m)'
      PROVE  Held(m)' # {}
  <2>1. TypeInv'
    BY <1>4, StepType
  <2>2. Seen(m)
    BY <1>4, SightIsSeen
  <2>3. ~ Seen(m)'
    BY <1>4, <2>1, SeenIsSight
  <2>4. PICK s \in Stages : handler'[s].msg = m
    BY <1>4, <2>1, <2>2, <2>3, LostStep
  <2> QED
    BY <2>4 DEF Held
<1>5. Inv /\ [Next]_vars => [Kept]_vars
  BY <1>4
<1> HIDE DEF Kept, Inv
<1>6. [][Kept]_vars <=> LostOnlyByLaggard
  BY DEF Kept, LostOnlyByLaggard
<1> QED
  BY <1>2, <1>3, <1>5, <1>6, PTL DEF Spec
-----------------------------------------------------------------------------
(* What a node comes to rest with, from the guards of its goroutines.        *)

CanLaunch ==
    \/ pc = "next"
    \/ pc = "drain" /\ (left = 0 \/ buf[stage - 1] # <<>>)

CanHandle(s) ==
    \/ handler[s].at \in {"first", "second", "hold"}
    \/ handler[s].at = "third" /\ (Closed(s) \/ buf[s] # <<>> \/ input # {})

\* No step with fairness can be taken.
AtRest == ~ CanLaunch /\ \A s \in Stages : ~ CanHandle(s)

\* Whatever is left in a channel is of its stage or a later one, and the stage that
\* runs has its handler.
LaterInv ==
    /\ \A s \in -1 .. MaxStage + 1 : \A m \in Message : Has(buf[s], m) => Stage[m] >= s
    /\ pc = "run" => handler[stage].at \in {"first", "second", "third", "hold"}

LEMMA StepLater == TypeInv /\ LaterInv /\ [Next]_vars => LaterInv'
<1> SUFFICES ASSUME TypeInv, LaterInv, [Next]_vars PROVE LaterInv'
  OBVIOUS
<1>1. /\ stage \in Stages /\ left \in Nat /\ Stages \subseteq Int
      /\ buf \in [-1 .. MaxStage + 1 -> Seq(Message)]
      /\ handler \in [Stages -> HandlerType]
      /\ Stage \in [Message -> Stages]
  BY Indices, MessageAssumption DEF TypeInv, TypeOK, HandlerType
<1>2. /\ stage \in -1 .. MaxStage + 1 /\ stage - 1 \in -1 .. MaxStage + 1
      /\ \A s \in -1 .. MaxStage + 1 : buf[s] \in Seq(Message)
  BY <1>1, Indices
<1>3. CASE UNCHANGED vars
  BY <1>3 DEF vars, LaterInv
<1>4. CASE EndStage \/ CheckLength
  BY <1>4 DEF EndStage, CheckLength, LaterInv
<1>5. CASE Check
  <2> DEFINE m == Head(buf[stage - 1])
  <2>1. buf[stage - 1] # <<>> /\ UNCHANGED <<stage, pc, handler>> /\ pc = "drain"
    BY <1>5 DEF Check
  <2>2. /\ buf'[stage - 1] = Tail(buf[stage - 1])
        /\ buf'[stage] = buf[stage] \/ (Stage[m] >= stage /\ buf'[stage] = Append(buf[stage], m))
        /\ \A s \in -1 .. MaxStage + 1 : s # stage /\ s # stage - 1 => buf'[s] = buf[s]
    BY <1>1, <1>2, <1>5 DEF Check, Rest, StillWanted
  <2>3. m \in Message
    BY <1>2, <2>1, TailHas
  <2>4. ASSUME NEW s \in -1 .. MaxStage + 1, NEW x \in Message, Has(buf'[s], x)
        PROVE  Has(buf[s], x) \/ (x = m /\ s = stage /\ Stage[m] >= stage)
    <3>1. CASE s = stage - 1
      BY <1>2, <2>1, <2>2, <2>4, <3>1, TailHas
    <3>2. CASE s = stage
      <4>1. CASE buf'[stage] = Append(buf[stage], m)
        <5>1. Has(buf[stage], x) \/ x = m
          BY <1>2, <2>3, <2>4, <3>2, <4>1, AppendHas
        <5> QED
          BY <2>2, <2>4, <3>2, <5>1
      <4> QED
        BY <2>2, <2>4, <3>2, <4>1
    <3>3. CASE s # stage /\ s # stage - 1
      BY <2>2, <2>4, <3>3
    <3> QED
      BY <3>1, <3>2, <3>3
  <2> HIDE DEF m
  <2> QED
    BY <2>1, <2>4 DEF LaterInv
<1>6. CASE StartStage
  BY <1>1, <1>6 DEF StartStage, LaterInv, HandlerType
<1>7. ASSUME NEW s \in Stages, LookFirst(s) \/ SeeClosed(s) \/ FindNothing(s) PROVE LaterInv'
  <2>1. /\ UNCHANGED <<stage, pc, buf>>
        /\ \A r \in Stages \ {s} : handler'[r] = handler[r]
        /\ handler'[s].at \in {"second", "third"} \/ Closed(s)
    BY <1>1, <1>7 DEF LookFirst, SeeClosed, FindNothing, HandlerType
  <2>2. Closed(s) => s # stage
    BY <1>1 DEF Closed
  <2> QED
    BY <1>1, <2>1, <2>2 DEF LaterInv
<1>8. ASSUME NEW s \in Stages, TakeOld(s) PROVE LaterInv'
  <2>1. /\ UNCHANGED <<stage, pc>> /\ buf[s] # <<>> /\ s \in -1 .. MaxStage + 1
        /\ \A r \in Stages \ {s} : handler'[r] = handler[r]
        /\ handler'[s].at = "hold"
        /\ buf' = [buf EXCEPT ![s] = Tail(@)]
    BY <1>1, <1>8, Indices DEF TakeOld
  <2>2. \A r \in -1 .. MaxStage + 1 : \A x \in Message : Has(buf'[r], x) => Has(buf[r], x)
    BY <1>1, <1>2, <2>1, TailHas
  <2> QED
    BY <1>1, <2>1, <2>2 DEF LaterInv
<1>9. ASSUME NEW s \in Stages, TakeInput(s) PROVE LaterInv'
  BY <1>1, <1>9 DEF TakeInput, LaterInv
<1>10. ASSUME NEW s \in Stages, Place(s) PROVE LaterInv'
  <2> DEFINE m == handler[s].msg
  <2>1. /\ UNCHANGED <<stage, pc>> /\ s + 1 \in -1 .. MaxStage + 1 /\ m \in Message
        /\ \A r \in Stages \ {s} : handler'[r] = handler[r]
        /\ handler'[s].at = "first"
        /\ buf' = buf \/ (Stage[m] > s /\ buf' = [buf EXCEPT ![s + 1] = Append(@, m)])
    BY <1>1, <1>10, Indices DEF Place, BackTo, TypeInv
  <2> HIDE DEF m
  <2>2. ASSUME NEW r \in -1 .. MaxStage + 1, NEW x \in Message, Has(buf'[r], x)
        PROVE  Has(buf[r], x) \/ (x = m /\ r = s + 1 /\ Stage[m] >= s + 1)
    <3>1. CASE buf' = buf
      BY <2>2, <3>1
    <3>2. CASE Stage[m] > s /\ buf' = [buf EXCEPT ![s + 1] = Append(@, m)]
      <4>1. CASE r = s + 1
        <5>1. buf'[r] = Append(buf[r], m)
          BY <1>1, <2>1, <3>2, <4>1
        <5>2. Has(buf[r], x) \/ x = m
          BY <1>2, <2>1, <2>2, <5>1, AppendHas
        <5>3. Stage[m] >= s + 1
          <6>1. s \in Int /\ Stage[m] \in Int /\ Stage[m] > s
            BY <1>1, <2>1, <3>2
          <6> QED
            BY <6>1
        <5> QED
          BY <4>1, <5>2, <5>3
      <4>2. CASE r # s + 1
        BY <1>1, <2>2, <3>2, <4>2
      <4> QED
        BY <4>1, <4>2
    <3> QED
      BY <2>1, <3>1, <3>2
  <2> QED
    BY <1>1, <2>1, <2>2 DEF LaterInv
<1> QED
  BY <1>3, <1>4, <1>5, <1>6, <1>7, <1>8, <1>9, <1>10, Zenon DEF Next, Launch, Handler

\* When a node is at rest in a stage, what was in sight of that stage has been taken in.
RestsTakenIn ==
    AtRest /\ pc = "run" =>
        \A m \in Message : Stage[m] = stage /\ InSight(m) => m \in got[stage]

\* A stage's message that can still be reached does not wait for ever, however the
\* handlers take from each other's channels (handlemsg.go:24-58, sfmvba.go:188-198).
THEOREM RestsTaken == Spec => []RestsTakenIn
<1> DEFINE Inv == TypeInv /\ HandInv /\ LaterInv
<1>1. Init => Inv
  <2> SUFFICES ASSUME Init PROVE HandInv /\ LaterInv
    BY InitType
  <2>1. \A s \in -1 .. MaxStage + 1 : Len(buf[s]) = 0
    BY DEF Init
  <2> QED
    BY <2>1 DEF Init, HandInv, LaterInv, Has
<1>2. Inv /\ [Next]_vars => Inv'
  BY StepType, StepHand, StepLater
<1>3. Inv => RestsTakenIn
  <2> SUFFICES ASSUME Inv, AtRest, pc = "run",
                      NEW m \in Message, Stage[m] = stage, InSight(m), m \notin got[stage]
               PROVE  FALSE
    BY DEF RestsTakenIn
  <2>1. /\ stage \in Stages /\ Stages \subseteq Int /\ None \notin Message
        /\ \A s \in Stages : handler[s].at \in {"none", "first", "second", "third", "hold", "gone"}
    BY Indices, NoneAssumption DEF TypeInv, TypeOK
  <2>2. handler[stage].at = "third" /\ buf[stage] = <<>> /\ input = {}
    BY <2>1 DEF LaterInv, AtRest, CanHandle
  <2>3. Seen(m)
    BY SightIsSeen
  <2>4. \A s \in Stages : handler[s].msg # m
    BY <2>1 DEF HandInv, AtRest, CanHandle
  <2>5. ~ Has(buf[stage], m)
    BY <2>2, Len(<<>>) = 0 DEF Has
  <2>6. ASSUME NEW s \in -1 .. MaxStage + 1, s >= stage, Has(buf[s], m) PROVE FALSE
    <3>1. stage >= s /\ s \in Int
      BY <2>6 DEF LaterInv
    <3>2. s = stage
      BY <2>1, <2>6, <3>1
    <3> QED
      BY <2>5, <2>6, <3>2
  <2> QED
    BY <2>2, <2>3, <2>4, <2>6 DEF Seen
<1> HIDE DEF Inv
<1> QED
  BY <1>1, <1>2, <1>3, PTL DEF Spec
-----------------------------------------------------------------------------
\* Launch is on its way to the next stage and the old handler is in no select.
OnItsWay ==
    /\ CannotSteal
    /\ pc = "next" \/ (pc = "drain" /\ left <= Len(buf[stage - 1]))

\* Between two stages a node is at rest only where checkbuf waits for the one
\* message that the old handler has taken, and gone with.
RestsStarted ==
    AtRest =>
        \/ pc = "run"
        \/ /\ ~ OnItsWay
           /\ pc = "drain" /\ left = 1 /\ buf[stage - 1] = <<>>
           /\ stage - 1 \in Stages /\ handler[stage - 1].at = "gone"

LEMMA StepOnItsWay == TypeInv /\ OnItsWay /\ [Next]_vars => OnItsWay' \/ pc' = "run"
<1> SUFFICES ASSUME TypeInv, OnItsWay, [Next]_vars, pc' # "run" PROVE OnItsWay'
  OBVIOUS
<1>1. /\ stage \in Stages /\ left \in Nat /\ Stages \subseteq Int
      /\ buf \in [-1 .. MaxStage + 1 -> Seq(Message)]
      /\ handler \in [Stages -> HandlerType]
  BY Indices DEF TypeInv, TypeOK, HandlerType
<1>2. /\ stage - 1 \in -1 .. MaxStage + 1 /\ stage \in -1 .. MaxStage + 1
      /\ buf[stage - 1] \in Seq(Message) /\ Len(buf[stage - 1]) \in Nat
  BY <1>1, Indices, LenProperties
<1>3. pc # "run"
  BY DEF OnItsWay
<1>4. CASE UNCHANGED vars
  BY <1>4 DEF vars, OnItsWay, CannotSteal
<1>5. CASE CheckLength
  BY <1>2, <1>5 DEF CheckLength, OnItsWay, CannotSteal
<1>6. CASE Check
  <2>1. buf[stage - 1] # <<>> /\ left' = left - 1 /\ UNCHANGED <<stage, pc, handler>> /\ pc = "drain"
    BY <1>6 DEF Check
  <2>2. buf'[stage - 1] = Tail(buf[stage - 1])
    BY <1>1, <1>2, <1>6 DEF Check, Rest
  <2>3. Len(buf'[stage - 1]) = Len(buf[stage - 1]) - 1
    BY <1>2, <2>1, <2>2, TailHas
  <2> QED
    BY <1>1, <1>2, <2>1, <2>3 DEF OnItsWay, CannotSteal
<1>7. CASE EndStage \/ StartStage
  BY <1>3, <1>7 DEF EndStage, StartStage
<1>8. ASSUME NEW s \in Stages, LookFirst(s) \/ SeeClosed(s) \/ FindNothing(s) PROVE OnItsWay'
  <2>1. /\ UNCHANGED <<stage, pc, left, buf>>
        /\ \A r \in Stages \ {s} : handler'[r] = handler[r]
        /\ Closed(s) => handler'[s].at = "gone"
    BY <1>1, <1>8 DEF LookFirst, SeeClosed, FindNothing, HandlerType
  <2>2. s = stage - 1 => Closed(s)
    BY <1>1 DEF Closed
  <2>3. CannotSteal'
    BY <2>1, <2>2 DEF OnItsWay, CannotSteal
  <2> QED
    BY <2>1, <2>3 DEF OnItsWay
<1>9. ASSUME NEW s \in Stages, TakeOld(s) PROVE OnItsWay'
  <2>1. s # stage - 1
    BY <1>9 DEF TakeOld, LooksIntoOld, OnItsWay, CannotSteal
  <2>2. buf'[stage - 1] = buf[stage - 1] /\ \A r \in Stages \ {s} : handler'[r] = handler[r]
    BY <1>1, <1>2, <1>9, <2>1 DEF TakeOld
  <2> QED
    BY <1>9, <2>1, <2>2 DEF TakeOld, OnItsWay, CannotSteal
<1>10. ASSUME NEW s \in Stages, TakeInput(s) PROVE OnItsWay'
  <2>1. s # stage - 1
    BY <1>10 DEF TakeInput, OnItsWay, CannotSteal
  <2>2. \A r \in Stages \ {s} : handler'[r] = handler[r]
    BY <1>1, <1>10 DEF TakeInput
  <2> QED
    BY <1>10, <2>1, <2>2 DEF TakeInput, OnItsWay, CannotSteal
<1>11. ASSUME NEW s \in Stages, Place(s) PROVE OnItsWay'
  <2>1. /\ handler'[s].at = "first" /\ \A r \in Stages \ {s} : handler'[r] = handler[r]
        /\ UNCHANGED <<stage, pc, left>>
    BY <1>1, <1>11 DEF Place, BackTo
  <2>2. Len(buf'[stage - 1]) \in Nat /\ Len(buf'[stage - 1]) >= Len(buf[stage - 1])
    <3>1. handler[s].msg \in Message
      BY <1>11 DEF Place, TypeInv
    <3>2. buf'[stage - 1] = buf[stage - 1] \/ buf'[stage - 1] = Append(buf[stage - 1], handler[s].msg)
      BY <1>1, <1>2, <1>11 DEF Place
    <3> QED
      BY <1>2, <3>1, <3>2, AppendHas
  <2>3. CannotSteal'
    BY <2>1 DEF OnItsWay, CannotSteal
  <2> QED
    BY <1>1, <1>2, <2>1, <2>2, <2>3 DEF OnItsWay
<1> QED
  BY <1>4, <1>5, <1>6, <1>7, <1>8, <1>9, <1>10, <1>11, Zenon DEF Next, Launch, Handler

\* A node whose old handler was in no select as its stage was closed goes on to the
\* next one and does not come to rest before (sfmvba.go:143, 188-198); the only rest
\* between two stages is at a message this handler took.
THEOREM RestsBegun == Spec => []RestsStarted /\ [][OnItsWay => OnItsWay' \/ pc' = "run"]_vars
<1>1. Init => TypeInv /\ StolenInv /\ HandInv
  BY InitType DEF Init, StolenInv, HandInv
<1>2. TypeInv /\ StolenInv /\ HandInv /\ [Next]_vars => (TypeInv /\ StolenInv /\ HandInv)'
  BY StepType, StepStolen, StepHand
<1>3. TypeInv /\ StolenInv => RestsStarted
  <2> SUFFICES ASSUME TypeInv, StolenInv, AtRest, pc # "run"
               PROVE  /\ ~ OnItsWay
                      /\ pc = "drain" /\ left = 1 /\ buf[stage - 1] = <<>>
                      /\ stage - 1 \in Stages /\ handler[stage - 1].at = "gone"
    BY DEF RestsStarted
  <2>1. /\ stage \in Stages /\ left \in Nat /\ pc \in {"run", "next", "drain"}
    BY DEF TypeInv, TypeOK
  <2>2. pc = "drain" /\ left # 0 /\ buf[stage - 1] = <<>>
    BY <2>1 DEF AtRest, CanLaunch
  <2>3. Len(buf[stage - 1]) = 0
    BY <2>2
  <2>4. ~ (left <= Len(buf[stage - 1]))
    BY <2>1, <2>2, <2>3
  <2>5. HasTaken /\ left = 1
    BY <2>1, <2>2, <2>3, <2>4 DEF StolenInv
  <2>6. stage - 1 \in Stages /\ handler[stage - 1].at = "gone"
    BY <2>5 DEF HasTaken, AtRest, CanHandle
  <2> QED
    BY <2>2, <2>4, <2>5, <2>6 DEF OnItsWay
<1>4. TypeInv /\ [Next]_vars => [OnItsWay => OnItsWay' \/ pc' = "run"]_vars
  BY StepOnItsWay
<1> QED
  BY <1>1, <1>2, <1>3, <1>4, PTL DEF Spec
=============================================================================
