------------------------------ MODULE RBCFinish ------------------------------
(***************************************************************************)
(* One instance of the reliable broadcast with a finish round               *)
(* (consensus/fin/MVBA/rbcwithfinish): Leader broadcasts its proposal, every *)
(* node echoes, readies and finishes, gives output1 when enough nodes are    *)
(* ready and output2 when enough have finished.                              *)
(*                                                                          *)
(* Faults are crashes: a node outside Correct may stop at any point, which   *)
(* is the absence of fairness for it, and its last broadcast may reach only  *)
(* some nodes.  There is one proposal, so the maps from value to count of    *)
(* the handlers are counters; a counter stands at most at the number of      *)
(* nodes that sent the message, and the step that matters, the one in which  *)
(* it reaches its threshold, can be taken from then on.                      *)
(***************************************************************************)
EXTENDS Integers, FiniteSets

CONSTANTS
    Node,       \* the participants
    Leader,     \* lid: the node whose proposal is broadcast
    Correct,    \* the nodes that never crash
    Elected     \* whether this is the proposal the agreement above settles on

N == Cardinality(Node)
T == (N - 1) \div 3         \* threshold: the number of crashes tolerated

ASSUME NodeAssumption    == IsFiniteSet(Node) /\ Leader \in Node
ASSUME CorrectAssumption == Correct \subseteq Node /\ Cardinality(Correct) >= N - T

VARIABLES
    val,        \* handle_val: "idle", "checking" the proposal, "echoed"
    closeval,   \* nodes whose closeval channel is closed
    closed,     \* nodes whose close channel is closed
    ready,      \* "idle", "signalled" to send_ready, "sent"
    finish,     \* "idle", "pending" in a send_finish of its own, "sent"
    output1,    \* nodes that gave the first output
    output2     \* nodes that gave the second output

vars == <<val, closeval, closed, ready, finish, output1, output2>>

Echoed   == {n \in Node : val[n] = "echoed"}
Readied  == {n \in Node : ready[n] = "sent"}
Finished == {n \in Node : finish[n] = "sent"}

Init ==
    /\ val = [n \in Node |-> "idle"]
    /\ closeval = {}
    /\ closed = {}
    /\ ready = [n \in Node |-> "idle"]
    /\ finish = [n \in Node |-> "idle"]
    /\ output1 = {}
    /\ output2 = {}
-----------------------------------------------------------------------------
(* The thresholds.  A handler acts when its counter, which starts at zero and *)
(* grows by one, equals k: never for k = 0.                                  *)

Reached(senders, k) == k > 0 /\ Cardinality(senders) >= k

\* Mutants: thresholds a slip of the pen would give.
EchoQuorumAll       == N
ReadyAmplifyLate    == 2 * T + 1
ReadyQuorumShort(n) == 2 * T
FinishQuorumShort(n) == 2 * T
FinishQuorumHalf(n) == T

EchoQuorum      == 2 * T + 1
ReadyAmplify    == T + 1
ReadyQuorum(n)  == IF n = Leader THEN 2 * T ELSE 2 * T + 1
FinishQuorum(n) == IF n = Leader THEN 2 * T ELSE 2 * T + 1
-----------------------------------------------------------------------------
(* A handler runs until close is closed.  `from' restricts the senders whose  *)
(* messages are counted: Node in Next, Correct in the fairness conditions.    *)

\* The leader holds its own proposal: it echoes at once, and no check of close
\* stands before the broadcast.
LeaderEcho ==
    /\ val[Leader] = "idle"
    /\ val' = [val EXCEPT ![Leader] = "echoed"]
    /\ UNCHANGED <<closeval, closed, ready, finish, output1, output2>>

\* handle_val takes the proposal off its channel and waits in check_input_rbc.
HandleVal(n) ==
    /\ n # Leader /\ val[n] = "idle"
    /\ n \notin closed /\ n \notin closeval
    /\ val' = [val EXCEPT ![n] = "checking"]
    /\ UNCHANGED <<closeval, closed, ready, finish, output1, output2>>

\* check_input_rbc returned true: closeval is not looked at again.
SendEcho(n) ==
    /\ val[n] = "checking" /\ n \notin closed
    /\ val' = [val EXCEPT ![n] = "echoed"]
    /\ UNCHANGED <<closeval, closed, ready, finish, output1, output2>>

Signal(n) == ready' = [ready EXCEPT ![n] = IF @ = "idle" THEN "signalled" ELSE @]

HandleEcho(n, from) ==
    /\ n \notin closed /\ ready[n] = "idle"
    /\ Reached(Echoed \intersect from, EchoQuorum)
    /\ Signal(n)
    /\ UNCHANGED <<val, closeval, closed, finish, output1, output2>>

AmplifyReady(n, from) ==
    /\ n \notin closed /\ ready[n] = "idle"
    /\ Reached(Readied \intersect from, ReadyAmplify)
    /\ Signal(n)
    /\ UNCHANGED <<val, closeval, closed, finish, output1, output2>>

SendReady(n) ==
    /\ n \notin closed /\ ready[n] = "signalled"
    /\ ready' = [ready EXCEPT ![n] = "sent"]
    /\ UNCHANGED <<val, closeval, closed, finish, output1, output2>>

\* The handler that counts to the quorum has counted to T + 1, and signalled,
\* on the way.  A follower broadcasts finish before it outputs; the leader
\* leaves the broadcast to a goroutine.
Deliver(n, from) ==
    /\ n \notin closed /\ n \notin output1 /\ ready[n] # "idle"
    /\ Reached(Readied \intersect from, ReadyQuorum(n))
    /\ finish' = [finish EXCEPT ![n] = IF n = Leader THEN "pending" ELSE "sent"]
    /\ output1' = output1 \union {n}
    /\ UNCHANGED <<val, closeval, closed, ready, output2>>

LeaderSendFinish ==
    /\ finish[Leader] = "pending"
    /\ finish' = [finish EXCEPT ![Leader] = "sent"]
    /\ UNCHANGED <<val, closeval, closed, ready, output1, output2>>

HandleFinish(n, from) ==
    /\ n \notin closed /\ n \notin output2
    /\ Reached(Finished \intersect from, FinishQuorum(n))
    /\ output2' = output2 \union {n}
    /\ UNCHANGED <<val, closeval, closed, ready, finish, output1>>

\* The agreement above closes closeval once it has enough finished broadcasts,
\* and close when it is done.  That takes an output of the elected broadcast,
\* and an agreement on it, for which T + 1 nodes held it.
CloseVal(n) ==
    /\ n \notin closeval
    /\ closeval' = closeval \union {n}
    /\ UNCHANGED <<val, closed, ready, finish, output1, output2>>

Close(n) ==
    /\ n \in closeval \ closed
    /\ Elected => /\ n \in output1 \union output2
                  /\ Cardinality(output1 \union output2) >= T + 1
    /\ closed' = closed \union {n}
    /\ UNCHANGED <<val, closeval, ready, finish, output1, output2>>
-----------------------------------------------------------------------------
Step(n) ==
    \/ HandleVal(n)
    \/ SendEcho(n)
    \/ HandleEcho(n, Node)
    \/ AmplifyReady(n, Node)
    \/ SendReady(n)
    \/ Deliver(n, Node)
    \/ HandleFinish(n, Node)

Next ==
    \/ LeaderEcho
    \/ LeaderSendFinish
    \/ \E n \in Node : Step(n)
    \/ \E n \in Node : CloseVal(n)
    \/ \E n \in Node : Close(n)

Spec == Init /\ [][Next]_vars

\* Goroutines of a correct node are scheduled, and what one correct node sends
\* reaches another.  A step that a handler takes on the messages of correct
\* nodes alone is therefore taken.  The proposal of a crashed leader may never
\* arrive, and nothing obliges a node to close a channel.
Fairness ==
    /\ Leader \in Correct => WF_vars(LeaderEcho) /\ WF_vars(LeaderSendFinish)
    /\ \A n \in Correct :
        /\ Leader \in Correct => WF_vars(HandleVal(n))
        /\ WF_vars(SendEcho(n))
        /\ WF_vars(HandleEcho(n, Correct))
        /\ WF_vars(AmplifyReady(n, Correct))
        /\ WF_vars(SendReady(n))
        /\ WF_vars(Deliver(n, Correct))
        /\ WF_vars(HandleFinish(n, Correct))

FairSpec == Spec /\ Fairness
-----------------------------------------------------------------------------
TypeOK ==
    /\ val \in [Node -> {"idle", "checking", "echoed"}]
    /\ closeval \subseteq Node
    /\ closed \subseteq Node
    /\ ready \in [Node -> {"idle", "signalled", "sent"}]
    /\ finish \in [Node -> {"idle", "pending", "sent"}]
    /\ output1 \subseteq Node
    /\ output2 \subseteq Node

\* Readies breed readies (T + 1 of them make a node send its own), but the
\* first one never comes from readies: wherever a node is ready, a full quorum
\* has validated and echoed the proposal.
ReadyNeedsEchoes ==
    (\E n \in Node : ready[n] # "idle") => Cardinality(Echoed) >= 2 * T + 1

\* One delivery at a follower, or one confirmation anywhere, is enough for
\* everyone: T + 1 nodes that do not crash have sent ready by then, so every
\* correct node that is not closed will be made to send ready too.  The
\* leader's own delivery does not count: it stops one message short.
DeliveryIsCarried ==
    T >= 1 /\ (output1 \ {Leader}) \union output2 # {}
        => Cardinality(Readied \intersect Correct) >= T + 1

\* What makes the two above inductive: every output rests on a counted quorum
\* of broadcasts, and every finish broadcast on an output.
Backed ==
    /\ output1 \ {Leader} # {} => Cardinality(Readied) >= 2 * T + 1
    /\ \A n \in Node : finish[n] # "idle" => n \in output1
    /\ \A n \in output1 : ready[n] # "idle"
    /\ output2 # {} => Cardinality(Finished) >= 2 * T
InductiveInv == ReadyNeedsEchoes /\ Backed

\* Who confirms knows that a correct node has delivered and that T + 1 correct
\* nodes hold a validated proposal, whoever crashes later.
ConfirmedIsHeld ==
    T >= 1 /\ output2 # {}
        => /\ output1 \intersect Correct # {}
           /\ Cardinality(Echoed \intersect Correct) >= T + 1

\* With no node closed by the agreement above, a delivery at one follower or a
\* confirmation at any node leads every correct node to both outputs.
Totality ==
    (output1 \ {Leader}) \union output2 # {}
        ~> (Correct \subseteq output1 \intersect output2 \/ closed # {})

\* A correct leader's broadcast completes at every correct node unless some
\* node gave up on proposals first.
LeaderIsHeard ==
    Leader \in Correct
        => <>(Correct \subseteq output1 \intersect output2 \/ closeval # {})

\* "If finish corresponding RBC (with the output), multicast corresponding
\* value": once a correct node is done with the elected proposal, every correct
\* node gets it.
ElectedReachesAll ==
    Elected => (closed \intersect Correct # {} ~> Correct \subseteq output1 \union output2)

\* Every step is one the abstract broadcast allows, or changes nothing it sees.
Abstract == INSTANCE FinishBroadcast
    WITH validated <- Echoed, delivered <- output1, confirmed <- output2
Refinement == Abstract!Spec
=============================================================================
