---------------------------- MODULE RoundChannels ----------------------------
(***************************************************************************)
(* The side of the rounds in receiving: the driver (fin_test/main.go) gives *)
(* each round a channel, registers it with the receive buffer of every peer *)
(* (Receive, in a goroutine of its own) and closes the round; the round's   *)
(* MsgRouter reads the channel while the round is open.  One peer's buffer  *)
(* is modelled; Receive says what buffer it is.                            *)
(***************************************************************************)
EXTENDS Integers, Sequences, FiniteSets, Functions

CONSTANTS
    Message,        \* the messages one peer sends
    Priority,       \* the round of each
    Size,           \* what each adds to MemUse: its length + 56
    Round,          \* the rounds of the messages and of the driver
    ChannelSize,    \* capacity of a round's channel: 2 * MaxRcvBufferSize
    Capacity,       \* of the buffer: MaxRcvBufferSize / N
    Volume          \* of the buffer: MaxRcvBufferQuantity / N

None == 0           \* no round, no message: RegisterCH before the first round
Handler == -1       \* HandleProtoMsg, as a holder of the lock

ASSUME MessageAssumption ==
    /\ Round \subseteq Nat \ {None}
    /\ IsFiniteSet(Message) /\ None \notin Message
    /\ Priority \in [Message -> Round] /\ Size \in [Message -> Nat \ {0}]
ASSUME BoundAssumption ==
    /\ ChannelSize \in Nat \ {0}
    /\ Capacity \in Nat \ {0} /\ Volume \in Nat

VARIABLES
    network,    \* NetWorkType: 1 normal, 2 with limited memory, 3 priority
    coming,     \* messages HandleProtoMsg has not seen yet
    round,      \* the round the driver is in
    open,       \* not yet closed
    channel,    \* msgInCH of each round
    delivered,  \* what the MsgRouter of each round has handed on
    register,   \* RegisterCH: priority and channel, the latter named by its round
    goroutine,  \* of each round's registration: "none", "waits" for the lock, or
                \* in it: "writes", "scans"; "done".  [at, left, next, cut]:
                \* fields of RegisterCH to write, index in the buffer, cutIndex
    lock,       \* BufLock: None, a round (its registration), or Handler
    hand,       \* HandleProtoMsg: [at, msg, to], at is "idle", a step of Push, or
                \* "help" for a call for help or an answer to one
    buf, memUse, maxPriority,
    crashed     \* an index out of range in Push

vars == <<network, coming, round, open, channel, delivered, register, goroutine, lock, hand, buf,
          memUse, maxPriority, crashed>>

Idle == [at |-> "idle", msg |-> None, to |-> None]
NotStarted == [at |-> "none", left |-> {}, next |-> 1, cut |-> 0]

Init ==
    /\ network \in 1 .. 3 /\ coming = Message
    /\ round = None /\ open = FALSE
    /\ channel = [r \in Round |-> <<>>]
    /\ delivered = [r \in Round |-> {}]
    /\ register = [priority |-> None, channel |-> None]
    /\ goroutine = [r \in Round |-> NotStarted]
    /\ lock = None /\ hand = Idle
    /\ buf = <<>> /\ memUse = 0 /\ maxPriority = None /\ crashed = FALSE
-----------------------------------------------------------------------------
\* The next round, or a later one after a jump, starts and calls Receive.
StartRound(r) ==
    /\ ~ open /\ r > round
    /\ round' = r /\ open' = TRUE
    /\ goroutine' = [goroutine EXCEPT ![r].at = "waits"]
    /\ UNCHANGED <<network, coming, channel, delivered, register, lock, hand, buf, memUse,
                   maxPriority, crashed>>

\* close(roundClose)
CloseRound ==
    /\ open
    /\ open' = FALSE
    /\ UNCHANGED <<network, coming, round, channel, delivered, register, goroutine, lock, hand, buf,
                   memUse, maxPriority, crashed>>

\* Mutant: a message of another round is left where it is.
RouteOwn ==
    /\ open /\ channel[round] # <<>> /\ Priority[Head(channel[round])] = round
    /\ channel' = [channel EXCEPT ![round] = Tail(@)]
    /\ delivered' = [delivered EXCEPT ![round] = @ \union {Head(channel[round])}]
    /\ UNCHANGED <<network, coming, round, open, register, goroutine, lock, hand, buf, memUse,
                   maxPriority, crashed>>

\* MsgRouter takes a message and drops it if it is of another round.
Route ==
    /\ open /\ channel[round] # <<>>
    /\ LET m == Head(channel[round]) IN
       /\ channel' = [channel EXCEPT ![round] = Tail(@)]
       /\ delivered' = IF Priority[m] = round
                       THEN [delivered EXCEPT ![round] = @ \union {m}]
                       ELSE delivered
    /\ UNCHANGED <<network, coming, round, open, register, goroutine, lock, hand, buf, memUse, maxPriority,
                   crashed>>
-----------------------------------------------------------------------------
\* HandleProtoMsg takes a call for help that is newer than those before, or an
\* answer that is waited for.
TakeHelp ==
    /\ hand = Idle
    /\ hand' = [Idle EXCEPT !.at = "help"]
    /\ UNCHANGED <<network, coming, round, open, channel, delivered, register, goroutine, lock, buf,
                   memUse, maxPriority, crashed>>

\* rb.CallHelpMsgCH <- ..., while there is room: HandleOthersCallhelp, which would
\* read it, is not started; or rb.AssistMsgCH <- ..., which HandleOwnCallHelp reads.
\* All peers' buffers send into these two.
PassHelp ==
    /\ hand.at = "help"
    /\ hand' = Idle
    /\ UNCHANGED <<network, coming, round, open, channel, delivered, register, goroutine, lock, buf,
                   memUse, maxPriority, crashed>>
-----------------------------------------------------------------------------
HasRoom(r) == Len(channel[r]) < ChannelSize

\* The registration's loop over the buffer is at its end or at a newer round.
PastRound(r) == \A i \in DOMAIN buf : i = goroutine[r].next => Priority[buf[i]] > r

SizeOf(s) ==
    LET upTo[i \in 0 .. Len(s)] == IF i = 0 THEN 0 ELSE upTo[i - 1] + Size[s[i]]
    IN  upTo[Len(s)]
=============================================================================
