------------------------------ MODULE Mailboxes ------------------------------
(***************************************************************************)
(* What a network promises to the rounds of a node, of the messages of one   *)
(* peer: each round has a channel of bounded size, a message comes into one  *)
(* channel at most, once, is taken from it in order, and handed on to the    *)
(* round it is for, while that round is open.  Messages may be lost, but     *)
(* not from a channel.                                                      *)
(***************************************************************************)
EXTENDS Integers, Sequences

CONSTANTS
    Message,        \* the messages of the peer
    Priority,       \* the round of each
    Round,          \* the rounds
    ChannelSize     \* capacity of a channel

VARIABLES
    pending,    \* messages that may still come into a channel
    round,      \* the round the node is in
    open,       \* not yet closed
    channel,    \* of each round: what waits for it
    delivered   \* what each round has got

vars == <<pending, round, open, channel, delivered>>

Init ==
    /\ pending = Message /\ round = 0 /\ open = FALSE
    /\ channel = [r \in Round |-> <<>>] /\ delivered = [r \in Round |-> {}]

Begin(r) ==
    /\ ~ open /\ r > round
    /\ round' = r /\ open' = TRUE
    /\ UNCHANGED <<pending, channel, delivered>>

Close ==
    /\ open' = FALSE
    /\ UNCHANGED <<pending, round, channel, delivered>>

Lose ==
    /\ pending' \in SUBSET pending
    /\ UNCHANGED <<round, open, channel, delivered>>

PutInto(r, m) ==
    /\ m \in pending /\ Len(channel[r]) < ChannelSize
    /\ pending' = pending \ {m}
    /\ channel' = [channel EXCEPT ![r] = Append(@, m)]
    /\ UNCHANGED <<round, open, delivered>>

\* A message of another round is dropped.
HandOn ==
    /\ open /\ channel[round] # <<>>
    /\ LET m == Head(channel[round]) IN
       delivered' = IF Priority[m] = round
                    THEN [delivered EXCEPT ![round] = @ \union {m}] ELSE delivered
    /\ channel' = [channel EXCEPT ![round] = Tail(@)]
    /\ UNCHANGED <<pending, round, open>>

Next ==
    \/ Close \/ Lose \/ HandOn
    \/ \E r \in Round : Begin(r) \/ \E m \in Message : PutInto(r, m)

Spec == Init /\ [][Next]_vars
=============================================================================
