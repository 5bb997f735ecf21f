---------------------------- MODULE NormalReceive ----------------------------
(***************************************************************************)
(* The receive buffer of the normal network and of the one with limited     *)
(* memory (network/normal/normalqueue.go and                               *)
(* network/normallimitmemory/priorityqueue.go, which differ in the cut).     *)
(* All of Push is under the lock; messages stay in the order of arrival.     *)
(***************************************************************************)
EXTENDS RoundChannels

\* Only the second of the two networks cuts, the oldest arrivals.
CutOldest(s) ==
    IF network = 2 /\ Len(s) > Capacity THEN SubSeq(s, Len(s) - Capacity + 1, Len(s)) ELSE s

\* The rest of Push, from the comparison on.
SendOrStore(m) ==
    IF register.priority = Priority[m]
    THEN /\ lock' = Handler
         /\ hand' = [at |-> "send", msg |-> m, to |-> register.channel]
         /\ UNCHANGED buf
    ELSE /\ buf' = IF Priority[m] > register.priority THEN CutOldest(Append(buf, m)) ELSE buf
         /\ lock' = None /\ hand' = Idle

NormalPush(m) ==
    /\ hand = Idle /\ m \in coming /\ lock = None
    /\ coming' = coming \ {m}
    /\ IF Priority[m] > maxPriority
       THEN /\ maxPriority' = Priority[m]
            /\ lock' = Handler /\ hand' = [at |-> "announce", msg |-> m, to |-> None]
            /\ UNCHANGED buf
       ELSE SendOrStore(m) /\ UNCHANGED maxPriority
    /\ UNCHANGED <<network, round, open, channel, delivered, register, goroutine, memUse, crashed>>

\* rb.MaxPriorityOutCH <- ..., with the lock, when HandlePriorities leaves room
NormalAnnounce ==
    /\ hand.at = "announce"
    /\ SendOrStore(hand.msg)
    /\ UNCHANGED <<network, coming, round, open, channel, delivered, register, goroutine, memUse,
                   maxPriority, crashed>>

\* rb.RegisterCH.MshCH <- msg, with the lock
NormalSend ==
    /\ hand.at = "send" /\ HasRoom(hand.to)
    /\ channel' = [channel EXCEPT ![hand.to] = Append(@, hand.msg)]
    /\ hand' = Idle /\ lock' = None
    /\ UNCHANGED <<network, coming, round, open, delivered, register, goroutine, buf, memUse,
                   maxPriority, crashed>>
-----------------------------------------------------------------------------
NormalLock(r) ==
    /\ goroutine[r].at = "waits" /\ lock = None
    /\ lock' = r
    /\ register' = [priority |-> r, channel |-> r]
    /\ goroutine' = [goroutine EXCEPT ![r].at = "scans"]
    /\ UNCHANGED <<network, coming, round, open, channel, delivered, hand, buf, memUse,
                   maxPriority, crashed>>

\* The loop breaks at the first message of a newer round, in order of arrival.
NormalScan(r) ==
    /\ goroutine[r].at = "scans" /\ ~ PastRound(r)
    /\ LET i == goroutine[r].next IN
          IF Priority[buf[i]] = r
          THEN /\ HasRoom(r)
               /\ channel' = [channel EXCEPT ![r] = Append(@, buf[i])]
               /\ goroutine' = [goroutine EXCEPT ![r].next = i + 1, ![r].cut = i - 1]
          ELSE /\ goroutine' = [goroutine EXCEPT ![r].next = i + 1]
               /\ UNCHANGED channel
    /\ UNCHANGED <<network, coming, round, open, delivered, register, lock, hand, buf, memUse,
                   maxPriority, crashed>>

\* rb.Buf[cutIndex:] with the index of the last message sent, which stays
NormalRegistered(r) ==
    /\ goroutine[r].at = "scans"
    /\ PastRound(r)
    /\ buf' = SubSeq(buf, goroutine[r].cut + 1, Len(buf))
    /\ goroutine' = [goroutine EXCEPT ![r] = [NotStarted EXCEPT !.at = "done"]]
    /\ lock' = None
    /\ UNCHANGED <<network, coming, round, open, channel, delivered, register, hand, memUse,
                   maxPriority, crashed>>
-----------------------------------------------------------------------------
NormalHandler == (\E m \in Message : NormalPush(m)) \/ NormalSend

NormalRegistration(r) == NormalLock(r) \/ NormalScan(r) \/ NormalRegistered(r)
=============================================================================
