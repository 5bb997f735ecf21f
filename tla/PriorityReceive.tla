--------------------------- MODULE PriorityReceive ---------------------------
(***************************************************************************)
(* The receive buffer of the priority network for one peer                  *)
(* (network/priority/priorityqueue.go).  Push reads RegisterCH before it     *)
(* takes the lock, RegisterMsgCHByPriority writes it, field by field, with   *)
(* the lock: each read and write is a step.                                 *)
(***************************************************************************)
EXTENDS RoundChannels

Window == 3         \* rounds behind the newest whose messages Push still takes

\* HandleProtoMsg takes a message of the consensus and calls Push: a newer round
\* is announced, one too old is dropped.
Push(m) ==
    /\ hand = Idle /\ m \in coming
    /\ coming' = coming \ {m}
    /\ IF Priority[m] > maxPriority
       THEN maxPriority' = Priority[m] /\ hand' = [hand EXCEPT !.at = "announce", !.msg = m]
       ELSE /\ hand' = IF Priority[m] < maxPriority - Window
                       THEN Idle
                       ELSE [hand EXCEPT !.at = "compare", !.msg = m]
            /\ UNCHANGED maxPriority
    /\ UNCHANGED <<network, round, open, channel, delivered, register, goroutine, lock, buf,
                   memUse, crashed>>

handMoves == UNCHANGED <<network, coming, round, open, channel, delivered, register,
                         goroutine, lock, buf, memUse, maxPriority, crashed>>

\* rb.MaxPriorityOutCH <- ..., when HandlePriorities leaves room; the newest round
\* is in the window
Announce ==
    /\ hand.at = "announce"
    /\ hand' = [hand EXCEPT !.at = "compare"]
    /\ handMoves

\* rb.RegisterCH.Priority == msg.Priority
Compare ==
    /\ hand.at = "compare"
    /\ hand' = [hand EXCEPT !.at = IF register.priority = Priority[hand.msg]
                                   THEN "channel" ELSE "again"]
    /\ handMoves

\* msg.Priority > rb.RegisterCH.Priority, another read
CompareAgain ==
    /\ hand.at = "again"
    /\ hand' = IF Priority[hand.msg] > register.priority
               THEN [hand EXCEPT !.at = "store"] ELSE Idle
    /\ handMoves

\* rb.RegisterCH.MshCH
ReadChannel ==
    /\ hand.at = "channel"
    /\ hand' = [hand EXCEPT !.at = "send", !.to = register.channel]
    /\ handMoves

\* Mutant: Push goes on to its second half when it has sent the message.
SendAndStore ==
    /\ hand.at = "send" /\ hand.to # None /\ HasRoom(hand.to)
    /\ channel' = [channel EXCEPT ![hand.to] = Append(@, hand.msg)]
    /\ hand' = [hand EXCEPT !.at = "store", !.to = None]
    /\ UNCHANGED <<network, coming, round, open, delivered, register, goroutine, lock, buf,
                   memUse, maxPriority, crashed>>

\* rb.RegisterCH.MshCH <- msg; a nil channel takes nothing
Send ==
    /\ hand.at = "send" /\ hand.to # None /\ HasRoom(hand.to)
    /\ channel' = [channel EXCEPT ![hand.to] = Append(@, hand.msg)]
    /\ hand' = Idle
    /\ UNCHANGED <<network, coming, round, open, delivered, register, goroutine, lock, buf,
                   memUse, maxPriority, crashed>>

\* Mutant: in order of arrival, as in the other networks.
InArrivalOrder(s, m) == Append(s, m)

\* append and sort.Slice, which keeps the order of equals up to twelve elements:
\* the message goes behind those of its round and of older ones.
Sorted(s, m) ==
    LET k == Cardinality({i \in DOMAIN s : Priority[s[i]] <= Priority[m]})
    IN  SubSeq(s, 1, k) \o <<m>> \o SubSeq(s, k + 1, Len(s))

\* rb.Buf[size-rb.Capacity:]; MemUse is not told
CutToCapacity(s) == IF Len(s) > Capacity THEN SubSeq(s, Len(s) - Capacity + 1, Len(s)) ELSE s

\* Mutant: only the content is counted when a message comes.
ContentOnly(m) == Size[m] - 1

Counted(m) == Size[m]

\* The second half of Push, under the lock.
Store ==
    /\ hand.at = "store" /\ lock = None
    /\ LET s == CutToCapacity(Sorted(buf, hand.msg))
           use == memUse + Counted(hand.msg)
           Enough == {k \in 0 .. Len(s) : use - SizeOf(SubSeq(s, 1, k)) <= Volume}
       IN IF Enough = {}
          THEN crashed' = TRUE /\ UNCHANGED <<buf, memUse>>
          ELSE LET k == CHOOSE k \in Enough : \A i \in Enough : k <= i IN
               /\ buf' = SubSeq(s, k + 1, Len(s))
               /\ memUse' = use - SizeOf(SubSeq(s, 1, k))
               /\ UNCHANGED crashed
    /\ hand' = Idle
    /\ UNCHANGED <<network, coming, round, open, channel, delivered, register, goroutine,
                   lock, maxPriority>>
-----------------------------------------------------------------------------
\* The registration of round r gets the lock; r's turn may come after a later
\* round's, each runs in its own goroutine.
Lock(r) ==
    /\ goroutine[r].at = "waits" /\ lock = None
    /\ lock' = r
    /\ goroutine' = [goroutine EXCEPT ![r].at = "writes", ![r].left = {"priority", "channel"}]
    /\ UNCHANGED <<network, coming, round, open, channel, delivered, register, hand, buf,
                   memUse, maxPriority, crashed>>

\* One of the two fields of RegisterCH is written.
WriteField(r) ==
    /\ goroutine[r].at = "writes"
    /\ \E field \in goroutine[r].left :
        /\ register' = [register EXCEPT ![field] = r]
        /\ goroutine' = [goroutine EXCEPT ![r].left = @ \ {field},
                            ![r].at = IF goroutine[r].left = {field} THEN "scans" ELSE @]
    /\ UNCHANGED <<network, coming, round, open, channel, delivered, lock, hand, buf, memUse,
                   maxPriority, crashed>>

\* The loop goes over messages of older rounds and sends those of the round.
Scan(r) ==
    /\ goroutine[r].at = "scans" /\ ~ PastRound(r)
    /\ LET i == goroutine[r].next IN
          IF Priority[buf[i]] = r
          THEN /\ HasRoom(r)
               /\ channel' = [channel EXCEPT ![r] = Append(@, buf[i])]
               /\ memUse' = memUse - Size[buf[i]]
               /\ goroutine' = [goroutine EXCEPT ![r].next = i + 1, ![r].cut = i]
          ELSE /\ goroutine' = [goroutine EXCEPT ![r].next = i + 1]
               /\ UNCHANGED <<channel, memUse>>
    /\ UNCHANGED <<network, coming, round, open, delivered, register, lock, hand, buf,
                   maxPriority, crashed>>

\* ... until a message of a newer round, or the end.
Registered(r) ==
    /\ goroutine[r].at = "scans"
    /\ PastRound(r)
    /\ buf' = SubSeq(buf, goroutine[r].cut + 1, Len(buf))
    /\ goroutine' = [goroutine EXCEPT ![r] = [NotStarted EXCEPT !.at = "done"]]
    /\ lock' = None
    /\ UNCHANGED <<network, coming, round, open, channel, delivered, register, hand, memUse,
                   maxPriority, crashed>>
-----------------------------------------------------------------------------
PriorityHandler ==
    (\E m \in Message : Push(m)) \/ Compare \/ CompareAgain \/ ReadChannel \/ Send \/ Store

PriorityRegistration(r) == Lock(r) \/ WriteField(r) \/ Scan(r) \/ Registered(r)
=============================================================================
