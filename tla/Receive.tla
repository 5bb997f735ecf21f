------------------------------- MODULE Receive -------------------------------
(***************************************************************************)
(* What a node does with the messages of one peer, from HandleProtoMsg to    *)
(* the round they are for, over the network that NetWorkType chooses        *)
(* (fin_test/main.go:123-130).                                              *)
(***************************************************************************)
EXTENDS PriorityReceive, NormalReceive

Handle ==
    \/ network = 3 /\ PriorityHandler
    \/ network # 3 /\ NormalHandler
    \/ TakeHelp

\* A channel that other goroutines read, or do not read, has room.
Accept ==
    \/ network = 3 /\ Announce
    \/ network # 3 /\ NormalAnnounce
    \/ PassHelp

Registration(r) ==
    \/ network = 3 /\ PriorityRegistration(r)
    \/ network # 3 /\ NormalRegistration(r)

Next ==
    \/ Handle
    \/ Accept
    \/ CloseRound
    \/ Route
    \/ \E r \in Round : StartRound(r) \/ Registration(r)

\* Goroutines that can go on do; the messages of the peer and the rounds are not
\* made to come, and other goroutines need not leave room in their channels.
Fairness ==
    /\ WF_vars(hand # Idle /\ Handle)
    /\ WF_vars(Route)
    /\ \A r \in Round : WF_vars(Registration(r))

Spec == Init /\ [][~ crashed /\ Next]_vars /\ Fairness
-----------------------------------------------------------------------------
Buffered == Range(buf)

TypeOK ==
    /\ network \in 1 .. 3 /\ coming \subseteq Message
    /\ round \in Round \union {None} /\ open \in BOOLEAN
    /\ channel \in [Round -> Seq(Message)] /\ \A r \in Round : Len(channel[r]) <= ChannelSize
    /\ delivered \in [Round -> SUBSET Message]
    /\ register \in [priority : Round \union {None}, channel : Round \union {None}]
    /\ goroutine \in [Round -> [at : {"none", "waits", "writes", "scans", "done"},
                                left : SUBSET {"priority", "channel"}, next : Nat, cut : Nat]]
    /\ lock \in Round \union {None, Handler}
    /\ hand \in [at : {"idle", "announce", "compare", "again", "channel", "send", "store",
                       "help"},
                 msg : Message \union {None}, to : Round \union {None}]
    /\ buf \in Seq(Message) /\ memUse \in Nat /\ maxPriority \in Round \union {None}
    /\ crashed \in BOOLEAN

InChannel(m) == {r \in Round : m \in Range(channel[r])}
HandedOn(m) == {r \in Round : m \in delivered[r]}
Scanning == \E r \in Round : goroutine[r].at = "scans"

\* A message comes to one round, once; and the priority network does not keep
\* it in the buffer, where a later registration would find it again (main.go:157,
\* priorityqueue.go:433-442).
NothingTwice ==
    /\ TypeOK
    /\ \A m \in Message :
        /\ \A r \in InChannel(m) : Cardinality({i \in DOMAIN channel[r] : channel[r][i] = m}) = 1
        /\ Cardinality(InChannel(m) \union HandedOn(m)) <= 1 /\ InChannel(m) \intersect HandedOn(m) = {}
        /\ network = 3 /\ ~ Scanning /\ m \in Buffered => InChannel(m) \union HandedOn(m) = {}

\* What may still come to a round.
Pending ==
    {m \in Message : /\ m \in coming \/ m = hand.msg \/ m \in Buffered
                     /\ InChannel(m) \union HandedOn(m) = {}}

\* Whatever Push and the registrations do at the same time, the rounds see mailboxes:
\* no message comes twice, or again after it was dropped, none is lost from a
\* channel, and nothing is put into a full one (priorityqueue.go:404-444,
\* normalqueue.go:379-416).
Mail == INSTANCE Mailboxes WITH pending <- Pending
Refinement == Mail!Spec

\* MemUse never falls behind what the buffer holds, so that the volume bounds
\* it (priorityqueue.go:409-422, 435).
MemUseCovers == network = 3 /\ ~ Scanning => memUse >= SizeOf(buf)

\* When a registration is over the priority network has no message of its round
\* in the buffer: one that is found there later was put there by a Push that had
\* looked at RegisterCH before (priorityqueue.go:406, 437).
RegistrationTakesAll ==
    [][\A r \in Round :
        network = 3 /\ goroutine[r].at # "done" /\ goroutine'[r].at = "done"
            => \A m \in Range(buf') : Priority[m] # r]_vars

Over(r) == round # r \/ ~ open
Blocked(r) == ~ HasRoom(r) /\ Over(r)

\* What stops the receive loop: a send into MaxPriorityOutCH, CallHelpMsgCH or
\* AssistMsgCH for which there is no room, into the channel of a round that is
\* over, or into the nil channel of RegisterCH's initial value.
HandStuck ==
    \/ hand.at \in {"announce", "help"}
    \/ hand.at = "send" /\ (hand.to = None \/ Blocked(hand.to))

\* What keeps the lock: a registration that sends into the channel of a round that
\* is over, or, in the normal networks, the receive loop.
LockKept ==
    \/ \E r \in Round : goroutine[r].at = "scans" /\ Blocked(r)
    \/ lock = Handler /\ HandStuck

\* The receive loop and the registrations go on, whatever rounds do, but for these
\* reasons: no other wait of Push and RegisterMsgCHByPriority for each other's lock
\* and channels is for ever (priorityqueue.go:371-445, normalqueue.go:379-416).
ReceivingGoesOn ==
    /\ []<>(hand = Idle) \/ <>[](crashed \/ HandStuck \/ (hand.at = "store" /\ LockKept))
    /\ \A r \in Round :
        []<>(goroutine[r].at \in {"none", "done"}) \/ <>[](crashed \/ LockKept)

\* network.go:280: "given a priority and a msg channel, pn will put all received
\* msgs with this priority in thie channel".
ReceivesAll ==
    open /\ goroutine[round].at = "done" /\ hand = Idle =>
        \A m \in Buffered : Priority[m] = round => InChannel(m) \union HandedOn(m) # {}
=============================================================================
