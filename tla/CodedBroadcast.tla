--------------------------- MODULE CodedBroadcast ---------------------------
(***************************************************************************)
(* One instance of the reliable broadcast of a batch of transactions         *)
(* (consensus/fin/RBC).  Leader cuts its batch into N fragments, any T + 1 of *)
(* which give it back, and sends one to each node; a node echoes its         *)
(* fragment to all, and delivers when 2T + 1 nodes are ready and it has the  *)
(* fragments to rebuild the batch.                                          *)
(*                                                                          *)
(* Faults are crashes, as in RBCFinish: a node outside Correct may stop at   *)
(* any point, its last message having reached only some.  There is one       *)
(* batch, so that all roots agree and what the handlers count by root are    *)
(* the senders of a message.  Reed-Solomon code and Merkle tree are taken at *)
(* their word.                                                              *)
(***************************************************************************)
EXTENDS Integers, FiniteSets

CONSTANTS
    Node,       \* the participants
    Leader,     \* lid: the node whose batch is broadcast
    Correct     \* the nodes that never crash

N == Cardinality(Node)
T == (N - 1) \div 3         \* threshold: the number of crashes tolerated

ASSUME NodeAssumption    == IsFiniteSet(Node) /\ Leader \in Node
ASSUME CorrectAssumption == Correct \subseteq Node /\ Cardinality(Correct) >= N - T

VARIABLES
    echoed,     \* nodes that have sent their fragment to all
    candidate,  \* followers that have rebuilt the batch
    ready,      \* "idle", "signalled" to Start, "sent"
    delivered,  \* nodes that gave the output, and with it stopped their handlers
    done,       \* nodes whose round is over
    elected     \* whether the round's agreement will name this broadcast

vars == <<echoed, candidate, ready, delivered, done, elected>>

Readied == {n \in Node : ready[n] = "sent"}

Init ==
    /\ echoed = {}
    /\ candidate = {}
    /\ ready = [n \in Node |-> "idle"]
    /\ delivered = {}
    /\ done = {}
    /\ elected \in BOOLEAN
-----------------------------------------------------------------------------
\* A handler acts when its counter equals k, having counted a message: never
\* for k = 0.
Reached(senders, k) == k > 0 /\ Cardinality(senders) >= k

\* Mutants: thresholds a slip of the pen would give.
EchoQuorumShort(n)   == 2 * T
ReadyQuorumShort(n)  == 2 * T
ReadyAmplifyLate     == 2 * T + 1
FragmentsAll         == N

\* The leader counts its own echo like any other, and settles for one less.
Fragments       == T + 1
EchoQuorum(n)   == IF n = Leader THEN 2 * T ELSE 2 * T + 1
ReadyAmplify    == T + 1
ReadyQuorum(n)  == IF n = Leader THEN 2 * T ELSE 2 * T + 1

\* Handlers run until the node delivers or its round is over.
Open(n) == n \notin delivered \union done
-----------------------------------------------------------------------------
(* `from' restricts the senders whose messages are counted: Node in Next,     *)
(* Correct in the fairness conditions.                                       *)

\* A goroutine of its own, which nothing stops.
LeaderEcho ==
    /\ Leader \notin echoed
    /\ echoed' = echoed \union {Leader}
    /\ UNCHANGED <<candidate, ready, delivered, done, elected>>

HandleVal(n) ==
    /\ n # Leader /\ n \notin echoed /\ Open(n)
    /\ echoed' = echoed \union {n}
    /\ UNCHANGED <<candidate, ready, delivered, done, elected>>

\* handle_echo at T + 1 fragments.
Rebuild(n, from) ==
    /\ n # Leader /\ n \notin candidate /\ Open(n)
    /\ Reached(echoed \intersect from, Fragments)
    /\ candidate' = candidate \union {n}
    /\ UNCHANGED <<echoed, ready, delivered, done, elected>>

Signal(n) == ready' = [ready EXCEPT ![n] = IF @ = "idle" THEN "signalled" ELSE @]

\* handle_echo at its quorum, on the way to which it has rebuilt the batch.
HandleEcho(n, from) ==
    /\ Open(n) /\ ready[n] = "idle"
    /\ n = Leader \/ n \in candidate
    /\ Reached(echoed \intersect from, EchoQuorum(n))
    /\ Signal(n)
    /\ UNCHANGED <<echoed, candidate, delivered, done, elected>>

AmplifyReady(n, from) ==
    /\ Open(n) /\ ready[n] = "idle"
    /\ Reached(Readied \intersect from, ReadyAmplify)
    /\ Signal(n)
    /\ UNCHANGED <<echoed, candidate, delivered, done, elected>>

\* Start takes the signal and leaves the sending to a goroutine that nothing
\* stops; a follower may instead see that the round is over.
SendReady(n) ==
    /\ ready[n] = "signalled"
    /\ n = Leader \/ n \notin done
    /\ ready' = [ready EXCEPT ![n] = "sent"]
    /\ UNCHANGED <<echoed, candidate, delivered, done, elected>>

\* Mutant: Start does not wait for the signal to be ready.
DeliverUnready(n, from) ==
    /\ Open(n)
    /\ n = Leader \/ n \in candidate
    /\ Reached(Readied \intersect from, ReadyQuorum(n))
    /\ delivered' = delivered \union {n}
    /\ ready' = [ready EXCEPT ![n] = IF @ = "signalled" THEN "idle" ELSE @]
    /\ UNCHANGED <<echoed, candidate, done, elected>>

\* Start waits for three things in turn: to be ready, for the readies of others
\* and for the batch.
Deliver(n, from) ==
    /\ Open(n) /\ ready[n] = "sent"
    /\ Reached(Readied \intersect from, ReadyQuorum(n))
    /\ n = Leader \/ n \in candidate
    /\ delivered' = delivered \union {n}
    /\ UNCHANGED <<echoed, candidate, ready, done, elected>>

\* Mutant: Run closes done without waiting for the broadcasts agreed on.
CloseDoneAtOnce(n) ==
    /\ n \notin done
    /\ elected => Cardinality(delivered) >= 2 * T + 1
    /\ done' = done \union {n}
    /\ UNCHANGED <<echoed, candidate, ready, delivered, elected>>

\* Run closes done when it has the outcome of the agreement, which 2T + 1 nodes
\* checked against their own outputs, and every broadcast named in it.
CloseDone(n) ==
    /\ n \notin done
    /\ elected => n \in delivered /\ Cardinality(delivered) >= 2 * T + 1
    /\ done' = done \union {n}
    /\ UNCHANGED <<echoed, candidate, ready, delivered, elected>>
-----------------------------------------------------------------------------
Step(n) ==
    \/ HandleVal(n)
    \/ Rebuild(n, Node)
    \/ HandleEcho(n, Node)
    \/ AmplifyReady(n, Node)
    \/ SendReady(n)
    \/ Deliver(n, Node)

Next ==
    \/ LeaderEcho
    \/ \E n \in Node : Step(n)
    \/ \E n \in Node : CloseDone(n)

Spec == Init /\ [][Next]_vars

\* Goroutines of a correct node are scheduled, and what one correct node sends
\* reaches another.  The fragments of a crashed leader may never arrive, and
\* nothing obliges a round to be over.
Fairness ==
    /\ Leader \in Correct => WF_vars(LeaderEcho)
    /\ \A n \in Correct :
        /\ Leader \in Correct => WF_vars(HandleVal(n))
        /\ WF_vars(Rebuild(n, Correct))
        /\ WF_vars(HandleEcho(n, Correct))
        /\ WF_vars(AmplifyReady(n, Correct))
        /\ WF_vars(SendReady(n))
        /\ WF_vars(Deliver(n, Correct))

FairSpec == Spec /\ Fairness
-----------------------------------------------------------------------------
TypeOK ==
    /\ echoed \subseteq Node
    /\ candidate \subseteq Node \ {Leader}
    /\ ready \in [Node -> {"idle", "signalled", "sent"}]
    /\ delivered \subseteq Node
    /\ done \subseteq Node
    /\ elected \in BOOLEAN

\* The leader may be ready on the word of one follower too few, but no follower
\* is ready, and nobody delivers, before a full quorum has echoed its
\* fragments: the leader's early ready never starts a chain of readies.
ReadyNeedsEchoes ==
    delivered # {} \/ (\E n \in Node \ {Leader} : ready[n] # "idle")
        => Cardinality(echoed) >= 2 * T + 1

\* A delivery by a follower is one that everybody can repeat, whoever crashes:
\* T + 1 readies make the others ready, and T + 1 fragments give back the batch.
DeliveryIsCarried ==
    delivered \ {Leader} # {}
        => /\ Cardinality(Readied \intersect Correct) >= T + 1
           /\ Cardinality(echoed \intersect Correct) >= T + 1

\* What makes the two above inductive.
Backed ==
    /\ \A n \in delivered : ready[n] = "sent"
    /\ delivered \ {Leader} # {} => Cardinality(Readied) >= 2 * T + 1
    /\ T = 0 /\ ready[Leader] # "idle" => Cardinality(echoed) >= 1
InductiveInv == ReadyNeedsEchoes /\ Backed

\* With no round over, a delivery at one follower leads every correct node to
\* deliver, although a node that delivers echoes no more and counts no more.
Totality == delivered \ {Leader} # {} ~> (Correct \subseteq delivered \/ done # {})

\* wait_rbc_done comes to an end: once one node has every broadcast the agreement
\* named and leaves, be it to crash, all correct nodes still get them.
ElectedReachesAll == elected => (done # {} ~> Correct \subseteq delivered)

\* It is the broadcast of FinishBroadcast without the finish round.
Abstract == INSTANCE FinishBroadcast
    WITH validated <- echoed, delivered <- delivered, confirmed <- {}
Refinement == Abstract!Spec
=============================================================================
