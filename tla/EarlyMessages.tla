---------------------------- MODULE EarlyMessages ----------------------------
(***************************************************************************)
(* How a node keeps messages of stages it has not come to: the rounds of     *)
(* MVBA (handle_baloopmsg and checkbuf, MVBA/sfmvba.go, MVBA/handlemsg.go)   *)
(* and the loops of the binary agreement (handle_loopmsg and checkbuf,       *)
(* MVBA/binaryagreement) do it in the same way.                             *)
(*                                                                          *)
(* Stage s has a handler goroutine with an old and a new buffer, buf[s] and  *)
(* buf[s + 1]: messages of the stage go to msgbuf, later ones to the new     *)
(* buffer, which is the old one of stage s + 1.  Between two stages Launch   *)
(* copies what is left in the old buffer into the new one, while the handler *)
(* may not yet have seen that its stage is closed.                          *)
(***************************************************************************)
EXTENDS Integers, Sequences, FiniteSets, Functions

CONSTANTS
    Message,    \* what the node receives, in any order
    Stage,      \* the stage of each message
    MaxStage,   \* bound on the stages
    Needed      \* messages of a stage without which it does not end

Stages == 0 .. MaxStage
None == "none"

ASSUME MessageAssumption == IsFiniteSet(Message) /\ Stage \in [Message -> Stages]
ASSUME NoneAssumption == None \notin Message
ASSUME BoundAssumption == MaxStage \in Nat /\ Needed \in Nat

VARIABLES
    input,      \* messages in bamsgCH, or msginCH
    stage,      \* Roundba, or loop
    pc,         \* of Launch: "run", "next" when it has closed a stage, "drain" in checkbuf
    left,       \* what checkbuf has still to take
    buf,        \* the buffers
    handler,    \* of each stage: [at, msg], at is "none", one of its three selects
                \* "first", "second", "third", "hold" with a message, or "gone"
    got         \* what has come to the msgbuf of each stage

vars == <<input, stage, pc, left, buf, handler, got>>

Init ==
    /\ input = Message
    /\ stage = 0 /\ pc = "next" /\ left = 0
    /\ buf = [s \in -1 .. MaxStage + 1 |-> <<>>]
    /\ handler = [s \in Stages |-> [at |-> "none", msg |-> None]]
    /\ got = [s \in Stages |-> {}]
-----------------------------------------------------------------------------
Closed(s) == s < stage

\* Launch has the result of the stage, closes it and goes on.
EndStage ==
    /\ pc = "run" /\ stage < MaxStage
    /\ Cardinality(got[stage]) >= Needed
    /\ stage' = stage + 1
    /\ pc' = "next"
    /\ UNCHANGED <<input, left, buf, handler, got>>

\* length := len(oldbuf)
CheckLength ==
    /\ pc = "next"
    /\ left' = Len(buf[stage - 1])
    /\ pc' = "drain"
    /\ UNCHANGED <<input, stage, buf, handler, got>>

\* Mutant: what is of the present stage is taken for old.
LaterOnly(m) == Stage[m] > stage

StillWanted(m) == Stage[m] >= stage

\* Mutant: a message is put into the new buffer and stays in the old one.
TakenFrom(q) == q

Rest(q) == Tail(q)

MoreToTake == left > 0

\* oldmsg := <-oldbuf, which waits when another has taken the message
Check ==
    /\ pc = "drain" /\ MoreToTake /\ buf[stage - 1] # <<>>
    /\ LET m == Head(buf[stage - 1]) IN
       buf' = [buf EXCEPT ![stage - 1] = Rest(@),
                          ![stage] = IF StillWanted(m) THEN Append(@, m) ELSE @]
    /\ left' = left - 1
    /\ UNCHANGED <<input, stage, pc, handler, got>>

\* go handle_baloopmsg, and the stage begins.
StartStage ==
    /\ pc = "drain" /\ left = 0
    /\ handler' = [handler EXCEPT ![stage].at = "first"]
    /\ pc' = "run"
    /\ UNCHANGED <<input, stage, left, buf, got>>
-----------------------------------------------------------------------------
\* The first select looks at close alone.
LookFirst(s) ==
    /\ handler[s].at = "first"
    /\ handler' = [handler EXCEPT ![s].at = IF Closed(s) THEN "gone" ELSE "second"]
    /\ UNCHANGED <<input, stage, pc, left, buf, got>>

\* Mutant: after a message the handler is back in the second select.
LookAgain == "second"

BackTo == "first"

\* case <-close, in the second and third select
SeeClosed(s) ==
    /\ handler[s].at \in {"second", "third"} /\ Closed(s)
    /\ handler' = [handler EXCEPT ![s].at = "gone"]
    /\ UNCHANGED <<input, stage, pc, left, buf, got>>

\* Mutant: only the second looks into the old buffer.
LooksOnce == {"second"}

LooksIntoOld == {"second", "third"}

\* case msg = <-oldbuf, in either
TakeOld(s) ==
    /\ handler[s].at \in LooksIntoOld /\ buf[s] # <<>>
    /\ handler' = [handler EXCEPT ![s] = [at |-> "hold", msg |-> Head(buf[s])]]
    /\ buf' = [buf EXCEPT ![s] = Tail(@)]
    /\ UNCHANGED <<input, stage, pc, left, got>>

\* default, when the second finds nothing
FindNothing(s) ==
    /\ handler[s].at = "second" /\ ~ Closed(s) /\ buf[s] = <<>>
    /\ handler' = [handler EXCEPT ![s].at = "third"]
    /\ UNCHANGED <<input, stage, pc, left, buf, got>>

\* case msg = <-mvba.bamsgCH, in the third
TakeInput(s) ==
    /\ handler[s].at = "third"
    /\ \E m \in input :
        /\ handler' = [handler EXCEPT ![s] = [at |-> "hold", msg |-> m]]
        /\ input' = input \ {m}
    /\ UNCHANGED <<stage, pc, left, buf, got>>

\* The message goes where its stage says, as the handler's own stage sees it.
Place(s) ==
    /\ handler[s].at = "hold"
    /\ LET m == handler[s].msg IN
       /\ got' = IF Stage[m] = s THEN [got EXCEPT ![s] = @ \union {m}] ELSE got
       /\ buf' = IF Stage[m] > s THEN [buf EXCEPT ![s + 1] = Append(@, m)] ELSE buf
    /\ handler' = [handler EXCEPT ![s] = [at |-> BackTo, msg |-> None]]
    /\ UNCHANGED <<input, stage, pc, left>>
-----------------------------------------------------------------------------
Launch == CheckLength \/ Check \/ StartStage
Handler(s) ==
    \/ LookFirst(s) \/ SeeClosed(s) \/ TakeOld(s)
    \/ FindNothing(s) \/ TakeInput(s) \/ Place(s)

Next == Launch \/ EndStage \/ \E s \in Stages : Handler(s)

\* The goroutines go on; no stage is made to end.
Spec == Init /\ [][Next]_vars /\ WF_vars(Launch) /\ \A s \in Stages : WF_vars(Handler(s))
-----------------------------------------------------------------------------
TypeOK ==
    /\ input \subseteq Message
    /\ stage \in Stages /\ pc \in {"run", "next", "drain"} /\ left \in Nat
    /\ buf \in [-1 .. MaxStage + 1 -> Seq(Message)]
    /\ handler \in [Stages -> [at : {"none", "first", "second", "third", "hold", "gone"},
                               msg : Message \union {None}]]
    /\ got \in [Stages -> SUBSET Message]

Held(m) == {s \in Stages : handler[s].msg = m}
In(m) == {s \in DOMAIN buf : m \in Range(buf[s])}

Places(m) ==
    {<<"input", 0>> : x \in {m} \intersect input} \union {<<"held", s>> : s \in Held(m)}
        \union {<<"buf", s>> : s \in In(m)} \union {<<"got", s>> : s \in {r \in Stages : m \in got[r]}}

\* A message is in one place only, whatever handler and checkbuf take from the
\* same channel (sfmvba.go:190-198, handlemsg.go:24-58, ba.go:418-426).
OnePlace == TypeOK /\ \A m \in Message : Cardinality(Places(m)) <= 1

\* A handler takes one message at most after its stage is closed, so checkbuf
\* waits for one that is not there at most (sfmvba.go:192, handlemsg.go:26-53).
OneStolen == pc = "drain" => left <= Len(buf[stage - 1]) + 1

FirstOf(q, k) == SubSeq(q, 1, IF k < Len(q) THEN k ELSE Len(q))

\* The stage the node is in, or one it will come to, still has a way to m.
InSight(m) ==
    \/ m \in input
    \/ \E s \in Held(m) : s >= stage - 1
    \/ \E s \in In(m) : s >= stage
    \/ pc = "next" /\ stage - 1 \in In(m)
    \/ pc = "drain" /\ m \in Range(FirstOf(buf[stage - 1], left))
    \/ m \in got[Stage[m]]

\* No message of the present or a later stage gets out of sight but in the hands
\* of a handler that has kept it for a whole stage (handlemsg.go:54, ba.go:84-86).
LostOnlyByLaggard ==
    [][\A m \in Message :
        Stage[m] >= stage' /\ InSight(m) /\ ~ InSight(m)' => Held(m)' # {}]_vars

\* In its stage a message is taken in, if the stage lasts (handlemsg.go:24-58).
IsTakenIn ==
    \A m \in Message :
        (pc = "run" /\ stage = Stage[m] /\ InSight(m))
            ~> (m \in got[Stage[m]] \/ stage > Stage[m] \/ ~ InSight(m))

\* The next stage begins, unless the old handler was in a select as its stage was
\* closed, where it may take what checkbuf counts on (sfmvba.go:143, 192).
CannotSteal == \A s \in Stages : s = stage - 1 => handler[s].at \notin {"second", "third"}

StageBegins == (pc = "next" /\ CannotSteal) ~> pc = "run"
=============================================================================
