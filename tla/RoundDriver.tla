----------------------------- MODULE RoundDriver -----------------------------
(***************************************************************************)
(* The driver of one node over the priority network (fin_test/main.go): it   *)
(* runs rounds one after the other, stores their blocks, and after a round   *)
(* looks for a safe priority, a round that f + 1 nodes have come to, to jump *)
(* to.  CallHelp asks the peers for blocks through HandleOwnCallHelp         *)
(* (network/priority/network.go).                                           *)
(*                                                                          *)
(* A liar announces and answers what it likes.  main.go defines             *)
(* HandleOthersCallhelp and does not start it: Helper, the peers that do run *)
(* it, is empty as the code stands.                                         *)
(***************************************************************************)
EXTENDS Integers, Sequences, FiniteSets

CONSTANTS
    Me,         \* the node
    Peer,       \* the others
    Liar,       \* peers that are not correct
    Helper,     \* correct peers that answer calls for help
    MaxRound,   \* bound on the rounds
    Seen,       \* of these, the rounds that peers are seen in
    SafeSize,   \* capacity of SafePriorityCH
    CallSize,   \* of MyCallHelpCH
    BlockSize   \* of AssitBlockFromOthersCH

Node == Peer \union {Me}
Fault == Cardinality(Peer) \div 3
Round == 0 .. MaxRound

ASSUME PeerAssumption ==
    IsFiniteSet(Peer) /\ Peer \subseteq Nat /\ Me \notin Peer /\ Liar \subseteq Peer /\ Helper \subseteq Peer \ Liar
ASSUME LiarAssumption == Cardinality(Liar) <= Fault
ASSUME BoundAssumption ==
    /\ 0 \in Seen /\ Seen \subseteq Round
    /\ MaxRound \in Nat /\ SafeSize \in Nat \ {0} /\ CallSize \in Nat \ {0} /\ BlockSize \in Nat \ {0}

VARIABLES
    peerRound,      \* the round each peer is in
    pc,             \* of main: "run", "select", or in CallHelp "call", "wait"
    round,          \* hbTest.Priority
    start, end,     \* of CallHelp
    next,           \* i of its loop over the calls
    db,             \* the blocks handed to the database: {<<round, content>>}
    maxPriorities, safePriority, safeCH,
    myCallHelp,     \* MyCallHelpCH
    helper,         \* HandleOwnCallHelp: [pr, left, from, content, block], pr = -1 when
                    \* idle; peers to call, answers, the block to hand over
    awaited,        \* WaitingAssistPriority of each peer's buffer, -1 if not waiting
    assistCH,       \* AssistMsgFromOthersCH
    blockCH         \* AssisBlockFromOthersOutCH

mainVars == <<pc, round, start, end, next, db>>
safeVars == <<maxPriorities, safePriority, safeCH>>
helpVars == <<myCallHelp, helper, awaited, assistCH, blockCH>>
vars == <<peerRound, mainVars, safeVars, helpVars>>

NoBlock == <<-1, "none">>
IdleHelper == [pr |-> -1, left |-> {}, from |-> {}, content |-> {}, block |-> NoBlock]

Init ==
    /\ peerRound = [i \in Peer |-> 0]
    /\ pc = "run" /\ round = 0 /\ start = 0 /\ end = 0 /\ next = 0 /\ db = {}
    /\ maxPriorities = [i \in Node |-> 0] /\ safePriority = -1 /\ safeCH = <<>>
    /\ myCallHelp = <<>> /\ helper = IdleHelper
    /\ awaited = [i \in Peer |-> -1] /\ assistCH = <<>> /\ blockCH = <<>>
-----------------------------------------------------------------------------
\* The environment: a correct peer goes on, or jumps, to a later round.
PeerAdvances(i) ==
    /\ i \notin Liar
    /\ \E r \in Seen :
        /\ r > peerRound[i]
        /\ peerRound' = [peerRound EXCEPT ![i] = r]
    /\ UNCHANGED <<mainVars, safeVars, helpVars>>

\* Mutant: the largest.
NewestOf(p) == CHOOSE v \in Round : (\E i \in Node : p[i] = v) /\ \A i \in Node : p[i] <= v

\* findFthLargest with f + 1
SafeOf(p) ==
    CHOOSE v \in Round :
        /\ Cardinality({i \in Node : p[i] >= v}) > Fault
        /\ Cardinality({i \in Node : p[i] > v}) <= Fault

\* What node i may announce as its newest round.
Announced(i) == IF i = Me THEN {round} ELSE IF i \in Liar THEN Seen ELSE {peerRound[i]}

\* A round of node i that its buffer's Push announces: MaxPriority starts at -1,
\* MaxPriorities at 0, so that round 0 comes too; its effect is that of the first.
Newer(i, p) == p > maxPriorities[i] \/ (p = 0 /\ maxPriorities[i] = 0 /\ safePriority = -1)

\* HandlePriorities takes a newer round of node i; the safe priority it finds waits
\* for room in the channel.
HandlePriorities(i) ==
    \E p \in Announced(i) :
        /\ Newer(i, p)
        /\ maxPriorities' = [maxPriorities EXCEPT ![i] = p]
        /\ LET safe == SafeOf(maxPriorities') IN
           IF p > safePriority /\ safe > safePriority
           THEN /\ Len(safeCH) < SafeSize
                /\ safePriority' = safe
                /\ safeCH' = Append(safeCH, safe)
           ELSE UNCHANGED <<safePriority, safeCH>>
        /\ UNCHANGED <<peerRound, mainVars, helpVars>>
-----------------------------------------------------------------------------
\* fin.Run returns, with the block in resultCH.
RunReturns ==
    /\ pc = "run" /\ round < MaxRound
    /\ pc' = "select"
    /\ UNCHANGED <<peerRound, round, start, end, next, db, safeVars, helpVars>>

\* case result := <-resultCH
TakeResult ==
    /\ pc = "select"
    /\ db' = db \union {<<round, "agreed">>}
    /\ round' = round + 1
    /\ pc' = "run"
    /\ UNCHANGED <<peerRound, start, end, next, safeVars, helpVars>>

\* Mutant: any safe priority is followed.
FollowAny(safe) == TRUE

Follow(safe) == safe > round + 1

\* case safePriority := <-hbTest.SafePriorityCH; the result is not looked at again
TakeSafe ==
    /\ pc = "select" /\ safeCH # <<>>
    /\ safeCH' = Tail(safeCH)
    /\ IF Follow(Head(safeCH))
       THEN pc' = "call" /\ start' = round /\ end' = Head(safeCH)
       ELSE UNCHANGED <<pc, start, end>>
    /\ UNCHANGED <<peerRound, round, next, db, maxPriorities, safePriority, helpVars>>

\* CallHelp: case newend := <-hbtest.SafePriorityCH
CallNewer ==
    /\ pc = "call" /\ safeCH # <<>>
    /\ safeCH' = Tail(safeCH)
    /\ start' = end /\ end' = Head(safeCH) /\ next' = end
    /\ pc' = "wait"
    /\ UNCHANGED <<peerRound, round, db, maxPriorities, safePriority, helpVars>>

\* Mutant: calls are for the blocks up to the one waited for.
CallsBefore == end - 2

CallsTo == end

\* One call after the other, each into a channel that may be full.
MakeCall ==
    /\ pc = "wait" /\ next < CallsTo /\ Len(myCallHelp) < CallSize
    /\ myCallHelp' = Append(myCallHelp, next)
    /\ next' = next + 1
    /\ UNCHANGED <<peerRound, pc, round, start, end, db, safeVars, helper, awaited, assistCH, blockCH>>

LastBlock == end - 2

\* default: CallHelp returns and the driver goes to the round after
CallReturns ==
    /\ pc = "call" /\ safeCH = <<>>
    /\ round' = LastBlock + 1
    /\ pc' = "run"
    /\ UNCHANGED <<peerRound, start, end, next, db, safeVars, helpVars>>

\* When all calls are made a block comes, whichever it is, until that of end - 2.
TakeBlock ==
    /\ pc = "wait" /\ next >= CallsTo /\ blockCH # <<>>
    /\ blockCH' = Tail(blockCH)
    /\ db' = db \union {Head(blockCH)}
    /\ pc' = IF Head(blockCH)[1] = LastBlock THEN "call" ELSE "wait"
    /\ UNCHANGED <<peerRound, round, start, end, next, safeVars, myCallHelp, helper, awaited, assistCH>>
-----------------------------------------------------------------------------
\* HandleOwnCallHelp takes a call.
TakeCall ==
    /\ helper = IdleHelper /\ myCallHelp # <<>>
    /\ myCallHelp' = Tail(myCallHelp)
    /\ helper' = [helper EXCEPT !.pr = Head(myCallHelp), !.left = Peer]
    /\ UNCHANGED <<peerRound, mainVars, safeVars, awaited, assistCH, blockCH>>

\* UpdateWaitingPriority and the call to peer i, the next one.
SendCall(i) ==
    /\ i \in helper.left /\ \A j \in helper.left : i <= j
    /\ helper' = [helper EXCEPT !.left = @ \ {i}]
    /\ awaited' = [awaited EXCEPT ![i] = helper.pr]
    /\ UNCHANGED <<peerRound, mainVars, safeVars, myCallHelp, assistCH, blockCH>>

AnswerSize == 3 * Cardinality(Node)

\* HandleProtoMsg lets one answer to the present call through.
Heard(i, content) ==
    /\ awaited[i] # -1 /\ Len(assistCH) < AnswerSize
    /\ awaited' = [awaited EXCEPT ![i] = -1]
    /\ assistCH' = Append(assistCH, [from |-> i, block |-> <<awaited[i], content>>])
    /\ UNCHANGED <<peerRound, mainVars, safeVars, myCallHelp, helper, blockCH>>

\* HandleOthersCallhelp of a correct peer that has the block: it must have come
\* past the round, and may still not have the block, or hear the call too late.
Answer(i) == i \in Helper /\ awaited[i] < peerRound[i] /\ Heard(i, "agreed")

\* A liar answers.
AnswerFalsely(i) == i \in Liar /\ Heard(i, "forged")

\* Mutant: f equal answers are enough.
EnoughWithLiars == Fault

EnoughEqual == Fault + 1

\* All peers are called; an answer to the present call by a peer that has not
\* answered it.
TakeAnswer ==
    /\ helper.pr # -1 /\ helper.left = {} /\ helper.block = NoBlock /\ assistCH # <<>>
    /\ assistCH' = Tail(assistCH)
    /\ LET a == Head(assistCH)
           answers == helper.content \union {<<a.from, a.block>>}
       IN helper' =
            IF a.block[1] # helper.pr \/ a.from \in helper.from
            THEN helper
            ELSE IF Cardinality({x \in answers : x[2] = a.block}) = EnoughEqual
            THEN [IdleHelper EXCEPT !.pr = helper.pr, !.block = a.block]
            ELSE [helper EXCEPT !.from = @ \union {a.from}, !.content = answers]
    /\ UNCHANGED <<peerRound, mainVars, safeVars, myCallHelp, awaited, blockCH>>

\* pn.AssisBlockFromOthersOutCH <- block
HandOver ==
    /\ helper.block # NoBlock /\ Len(blockCH) < BlockSize
    /\ blockCH' = Append(blockCH, helper.block)
    /\ helper' = IdleHelper
    /\ UNCHANGED <<peerRound, mainVars, safeVars, myCallHelp, awaited, assistCH>>
-----------------------------------------------------------------------------
Driver == TakeResult \/ TakeSafe \/ CallNewer \/ MakeCall \/ CallReturns \/ TakeBlock
Help == TakeCall \/ (\E i \in Peer : SendCall(i)) \/ TakeAnswer \/ HandOver

Next ==
    \/ RunReturns
    \/ Driver
    \/ Help
    \/ \E i \in Peer : PeerAdvances(i) \/ Answer(i) \/ AnswerFalsely(i)
    \/ \E i \in Node : HandlePriorities(i)

\* The goroutines of the node go on; rounds need not end, and nobody need answer.
Fairness == WF_vars(Driver) /\ WF_vars(Help)

Spec == Init /\ [][Next]_vars /\ Fairness
-----------------------------------------------------------------------------
Block == Round \X {"agreed", "forged"}

TypeOK ==
    /\ peerRound \in [Peer -> Round] /\ round \in Round
    /\ pc \in {"run", "select", "call", "wait"}
    /\ start \in Round /\ end \in Round /\ next \in Round
    /\ db \subseteq Block
    /\ maxPriorities \in [Node -> Round] /\ safePriority \in Round \union {-1}
    /\ safeCH \in Seq(Round) /\ myCallHelp \in Seq(Round)
    /\ helper \in [pr : Round \union {-1}, left : SUBSET Peer, from : SUBSET Peer,
                   content : SUBSET (Peer \X Block), block : Block \union {NoBlock}]
    /\ awaited \in [Peer -> Round \union {-1}]
    /\ assistCH \in Seq([from : Peer, block : Block]) /\ blockCH \in Seq(Block)

\* A block stored is the one agreed on, liars or not, the present call's answers
\* apart from those of earlier ones (network.go:316-337).
StoredIsAgreed == TypeOK /\ \A b \in db : b[2] = "agreed"

Stored == {b[1] : b \in db}

\* The node leaves a round without its block only if a correct peer has come past
\* it, so that the block exists (network.go:148-153, main.go:170, 276).
MissingIsHeld ==
    \A r \in Round : r < round /\ r \notin Stored =>
        \E i \in Peer \ Liar : peerRound[i] > r

\* Whatever the order of safe priorities and results, no round is run again: its
\* channel would replace a later one's (main.go:170-180, priorityqueue.go:431).
NoRoundTwice == [][round' # round => round' > round]_round

\* What the driver makes of its database.
Passed == {r \in Round : \E i \in Peer \ Liar : peerRound[i] > r}
Chain == INSTANCE BlockChain WITH passed <- Passed

\* The driver does with its rounds and blocks what a chain of blocks allows: rounds
\* in order, agreed blocks alone, nothing left out but what a correct peer went past.
Refinement == Chain!Spec

\* Why CallHelp may wait for ever.  HandleOwnCallHelp waits for f + 1 equal
\* answers, which nobody need give;
Unanswered == helper.pr # -1 /\ helper.block = NoBlock /\ assistCH = <<>>

\* the block waited for was not among those called for;
NotAsked == LastBlock < start /\ helper = IdleHelper /\ blockCH = <<>>

\* main has another call to make before it takes a block, and HandleOwnCallHelp a
\* block to hand over before it takes a call.
Deadlocked ==
    /\ next < end /\ Len(myCallHelp) = CallSize
    /\ helper.block # NoBlock /\ Len(blockCH) = BlockSize

\* There is no other reason: calls and blocks go through channels that may be full,
\* behind each other and behind those of the wait before, and none of the
\* blocks called for is lost on the way (main.go:268-288, network.go:305-337).
WaitGoesOn == pc = "wait" ~> pc # "wait" \/ [](Unanswered \/ NotAsked \/ Deadlocked)

\* main.go:261: CallHelp is to "call for all miss blocks below than safePriority".
CallsForAll ==
    [][pc = "call" /\ pc' = "run" => \A r \in round .. round' - 1 : r \in Stored]_vars
=============================================================================
