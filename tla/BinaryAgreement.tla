--------------------------- MODULE BinaryAgreement ---------------------------
(***************************************************************************)
(* The biased binary agreement (consensus/fin/MVBA/binaryagreement).  Nodes *)
(* go through numbered loops; in each they broadcast VAL, AUX and CONF      *)
(* messages, look at a coin all nodes share and either decide or carry a    *)
(* value into the next loop.  Loop 0 is biased to TRUE: its coin is TRUE,   *)
(* and a node that began with FALSE may get TRUE as a second input.         *)
(* FINISH messages spread decisions; 2T + 1 of them make a node output.     *)
(*                                                                          *)
(* Faults are crashes.  A message counts from the moment it is sent, and a  *)
(* handler may notice that its counter has reached a threshold at any later *)
(* time; a goroutine parked on a channel acts in the step that hands it a   *)
(* value.  What a node would still broadcast about a loop it has left, on   *)
(* messages it had received by then, it may as well broadcast before it     *)
(* leaves, the messages being slow to arrive.                               *)
(***************************************************************************)
EXTENDS Integers, Sequences, FiniteSets

CONSTANTS
    Node,       \* the participants
    Running,    \* those that start this agreement; the others stay silent
    Correct,    \* those that run for ever
    Inputs,     \* the assignments of inputs the nodes may begin with
    Late,       \* those that may be handed the second input
    Slow,       \* those whose goroutines may be preempted between a signal and
                \* the write to the shared array that follows it
    Coin,       \* handle_coin: the coin of each loop
    MaxLoop     \* bound: no node goes beyond this loop

N == Cardinality(Node)
T == (N - 1) \div 3         \* faults
Loop == 0 .. MaxLoop
Undecided == "undecided"

ASSUME NodeAssumption == IsFiniteSet(Node) /\ Correct \subseteq Running /\ Running \subseteq Node
ASSUME RoleAssumption == Late \subseteq Node /\ Slow \subseteq Node
ASSUME InputAssumption == Inputs \subseteq [Node -> BOOLEAN]
ASSUME LoopAssumption == MaxLoop \in Nat /\ Coin \in [Loop -> BOOLEAN] /\ Coin[0] = TRUE

VARIABLES
    input,      \* ba.input
    second,     \* nodes that were handed the second input
    loop,       \* ba.loop
    pc,         \* Launch waits for "aux" or "conf" messages, or has "decided"
    val,        \* VAL messages broadcast, by node and loop
    bin,        \* values counted to 2T + 1 and signalled to Launch
    values,     \* loopinfo.values, as the set of indices that are true
    aux,        \* AUX messages broadcast
    conf,       \* {} or {loopinfo.values when CONF was broadcast}
    tokens,     \* values put on sendfinishsignal, in order
    amplified,  \* values whose T + 1st FINISH has been counted
    output      \* {} or {what the agreement returned}

inputs == <<input, second>>
place == <<loop, pc>>
votes == <<val, bin, values, aux, conf>>
finishing == <<tokens, amplified, output>>
vars == <<inputs, place, votes, finishing>>

Init ==
    /\ input \in Inputs
    /\ second = {}
    /\ loop = [n \in Node |-> 0]
    /\ pc = [n \in Node |-> "aux"]
    /\ val = [n \in Node |-> [l \in Loop |-> IF l = 0 /\ n \in Running THEN {input[n]} ELSE {}]]
    /\ bin = [n \in Node |-> [l \in Loop |-> {}]]
    /\ values = [n \in Node |-> [l \in Loop |->
                    IF l = 0 /\ n \in Running \ Slow THEN {input[n]} \ {FALSE} ELSE {}]]
    /\ aux = values
    /\ conf = [n \in Node |-> [l \in Loop |-> {}]]
    /\ tokens = [n \in Node |-> << >>]
    /\ amplified = [n \in Node |-> {}]
    /\ output = [n \in Node |-> {}]
-----------------------------------------------------------------------------
(* What has been sent, and what can be counted of it.                        *)

\* Mutants: thresholds one step early, or late.
AmplifyEarly == T
AmplifyLate  == 2 * T + 1
QuorumEarly  == T + 1

Amplify == T + 1
Quorum  == 2 * T + 1

\* The handlers of VAL and FINISH test T + 1 first and 2T + 1 in its else
\* branch: with T = 0 the second test is never made.
SecondTest == T > 0

Senders(msg, l, v) == {n \in Node : v \in msg[n][l]}

\* AUX messages are counted, not their senders: in loop 0 a node may send both.
AuxMessages(l, from) ==
    Cardinality(Senders(aux, l, FALSE) \intersect from)
        + Cardinality(Senders(aux, l, TRUE) \intersect from)

\* A CONF message carries the array itself: a receiver sees it as it was when
\* the broadcast began or as it is later, and ignores an empty one.
ConfSeenAs(n, l, R) == \E S \in conf[n][l] : S \subseteq R /\ R \subseteq values[n][l]
ConfSenders(l, v) == {n \in Node : ConfSeenAs(n, l, {v})}
ConfVoters(l) == {n \in Node : \E R \in (SUBSET BOOLEAN) \ {{}} : ConfSeenAs(n, l, R)}

\* One sendfinish goroutine is started in each loop and sends one message: a
\* message is known by its sender and the place of its value in the queue.
HasSent(n, i) == i <= Len(tokens[n]) /\ i <= loop[n] + 1
Finishes(v, from) ==
    {m \in from \X (1 .. 3) : HasSent(m[1], m[2]) /\ tokens[m[1]][m[2]] = v}
-----------------------------------------------------------------------------
\* Handlers run until the node has an output and closes ba.close.
Open(n) == n \in Running /\ output[n] = {}

With(f, n, l, v) == [f EXCEPT ![n][l] = @ \union {v}]

\* sendval: in loop 0, TRUE is also sent as AUX and written to the array once
\* the broadcast is done.
SendVal(n, l, v) ==
    /\ val' = With(val, n, l, v)
    /\ IF l = 0 /\ v /\ n \notin Slow
       THEN aux' = With(aux, n, 0, TRUE) /\ values' = With(values, n, 0, TRUE)
       ELSE UNCHANGED <<aux, values>>

SlowBias(n) ==
    /\ Open(n) /\ n \in Slow
    /\ TRUE \in val[n][0] /\ TRUE \notin aux[n][0] \intersect values[n][0]
    /\ aux' = With(aux, n, 0, TRUE)
    /\ values' = With(values, n, 0, TRUE)
    /\ UNCHANGED <<inputs, place, val, bin, conf, finishing>>

\* sendsencondval waits for the second input from the broadcast of FALSE on,
\* whatever loop the node has gone to.
SecondInput(n) ==
    /\ Open(n) /\ n \in Late \ second
    /\ FALSE \in val[n][0]
    /\ second' = second \union {n}
    /\ SendVal(n, 0, TRUE)
    /\ UNCHANGED <<input, place, bin, conf, finishing>>

AmplifyVal(n, v, from) ==
    /\ Open(n) /\ v \notin val[n][loop[n]]
    /\ Cardinality(Senders(val, loop[n], v) \intersect from) >= Amplify
    /\ SendVal(n, loop[n], v)
    /\ UNCHANGED <<inputs, place, bin, conf, finishing>>

\* handle_val signals, writes the array, and sends AUX for the first value.
WriteValue(n, l, v, counted) ==
    /\ values' = With(values, n, l, v)
    /\ aux' = IF counted = {v} THEN With(aux, n, l, v) ELSE aux

CountVal(n, v, from) ==
    LET l == loop[n] IN
    /\ Open(n) /\ SecondTest
    /\ v \in val[n][l] \ bin[n][l] /\ bin[n][l] \subseteq values[n][l]
    /\ Cardinality(Senders(val, l, v) \intersect from) >= Quorum
    /\ bin' = With(bin, n, l, v)
    /\ IF n \in Slow
       THEN UNCHANGED <<values, aux>>
       ELSE WriteValue(n, l, v, bin[n][l] \union {v})
    /\ UNCHANGED <<inputs, place, val, conf, finishing>>

SlowWrite(n, l, v) ==
    /\ Open(n) /\ v \in bin[n][l] \ values[n][l]
    /\ WriteValue(n, l, v, bin[n][l])
    /\ UNCHANGED <<inputs, place, val, bin, conf, finishing>>

\* Launch: enough AUX messages for what the node has counted.
SendConf(n, from) ==
    LET l == loop[n] IN
    /\ Open(n) /\ pc[n] = "aux"
    /\ \/ \E v \in bin[n][l] : Cardinality(Senders(aux, l, v) \intersect from) >= Quorum
       \/ bin[n][l] = BOOLEAN /\ AuxMessages(l, from) >= Quorum
    /\ conf' = [conf EXCEPT ![n][l] = {values[n][l]}]
    /\ pc' = [pc EXCEPT ![n] = "conf"]
    /\ UNCHANGED <<inputs, loop, val, bin, values, aux, finishing>>

\* Enough CONF messages for what the node has counted: it may look at the coin.
CoinReady(n, from) ==
    LET l == loop[n] IN
    /\ Open(n) /\ pc[n] = "conf"
    /\ \/ \E v \in bin[n][l] : Cardinality(ConfSenders(l, v) \intersect from) >= Quorum
       \/ bin[n][l] = BOOLEAN /\ Cardinality(ConfVoters(l) \intersect from) >= Quorum

\* Mutant: the one value the array holds need not be the coin.
DecideAnyway(n, from) ==
    LET coin == Coin[loop[n]] IN
    /\ CoinReady(n, from)
    /\ values[n][loop[n]] # BOOLEAN
    /\ pc' = [pc EXCEPT ![n] = "decided"]
    /\ tokens' = [tokens EXCEPT ![n] = Append(@, coin)]
    /\ UNCHANGED <<inputs, loop, votes, amplified, output>>

\* The array holds the coin and nothing else: decide, and wait in this loop.
Decide(n, from) ==
    LET coin == Coin[loop[n]] IN
    /\ CoinReady(n, from)
    /\ values[n][loop[n]] = {coin}
    /\ pc' = [pc EXCEPT ![n] = "decided"]
    /\ tokens' = [tokens EXCEPT ![n] = Append(@, coin)]
    /\ UNCHANGED <<inputs, loop, votes, amplified, output>>

\* Mutant: the coin is forgotten when the array holds both values.
NextInputNoCoin(read, coin) == FALSE \notin read

\* The next loop's input: the coin when the array holds both values; else
\* FALSE if it holds FALSE, and TRUE in every other case.
NextInput(read, coin) == IF read = BOOLEAN THEN coin ELSE FALSE \notin read

NextLoop(n, from) ==
    LET l == loop[n] IN
    /\ CoinReady(n, from)
    /\ values[n][l] # {Coin[l]}
    /\ l < MaxLoop
    /\ loop' = [loop EXCEPT ![n] = l + 1]
    /\ pc' = [pc EXCEPT ![n] = "aux"]
    /\ val' = With(val, n, l + 1, NextInput(values[n][l], Coin[l]))
    /\ UNCHANGED <<inputs, bin, values, aux, conf, finishing>>

AmplifyFinish(n, v, from) ==
    /\ Open(n) /\ v \notin amplified[n]
    /\ Cardinality(Finishes(v, from)) >= Amplify
    /\ amplified' = [amplified EXCEPT ![n] = @ \union {v}]
    /\ tokens' = [tokens EXCEPT ![n] = Append(@, v)]
    /\ UNCHANGED <<inputs, place, votes, output>>

Output(n, v, from) ==
    /\ Open(n) /\ SecondTest /\ v \in amplified[n]
    /\ Cardinality(Finishes(v, from)) >= Quorum
    /\ output' = [output EXCEPT ![n] = {v}]
    /\ UNCHANGED <<inputs, place, votes, tokens, amplified>>
-----------------------------------------------------------------------------
Step(n) ==
    \/ SecondInput(n)
    \/ SlowBias(n)
    \/ \E l \in Loop, v \in BOOLEAN : SlowWrite(n, l, v)
    \/ \E v \in BOOLEAN : AmplifyVal(n, v, Node)
    \/ \E v \in BOOLEAN : CountVal(n, v, Node)
    \/ SendConf(n, Node)
    \/ Decide(n, Node)
    \/ NextLoop(n, Node)
    \/ \E v \in BOOLEAN : AmplifyFinish(n, v, Node)
    \/ \E v \in BOOLEAN : Output(n, v, Node)

Next == \E n \in Node : Step(n)

Spec == Init /\ [][Next]_vars

\* The goroutines of a correct node are scheduled and what correct nodes send
\* each other arrives, so what a handler does on the messages of correct nodes
\* alone is done.  The second input comes to every correct node it is meant for.
Fairness ==
    \A n \in Correct :
        /\ WF_vars(SecondInput(n))
        /\ WF_vars(SlowBias(n))
        /\ \A l \in Loop, v \in BOOLEAN : WF_vars(SlowWrite(n, l, v))
        /\ \A v \in BOOLEAN :
            /\ WF_vars(AmplifyVal(n, v, Correct))
            /\ WF_vars(CountVal(n, v, Correct))
            /\ WF_vars(AmplifyFinish(n, v, Correct))
            /\ WF_vars(Output(n, v, Correct))
        /\ WF_vars(SendConf(n, Correct))
        /\ WF_vars(Decide(n, Correct) \/ NextLoop(n, Correct))

FairSpec == Spec /\ Fairness
-----------------------------------------------------------------------------
TypeOK ==
    /\ input \in Inputs
    /\ second \subseteq Late
    /\ loop \in [Node -> Loop]
    /\ pc \in [Node -> {"aux", "conf", "decided"}]
    /\ val \in [Node -> [Loop -> SUBSET BOOLEAN]]
    /\ bin \in [Node -> [Loop -> SUBSET BOOLEAN]]
    /\ values \in [Node -> [Loop -> SUBSET BOOLEAN]]
    /\ aux \in [Node -> [Loop -> SUBSET BOOLEAN]]
    /\ conf \in [Node -> [Loop -> SUBSET SUBSET BOOLEAN]]
    /\ tokens \in [Node -> Seq(BOOLEAN)]
    /\ amplified \in [Node -> SUBSET BOOLEAN]
    /\ output \in [Node -> SUBSET BOOLEAN]

Deciders(v) == {n \in Node : pc[n] = "decided" /\ Coin[loop[n]] = v}

\* Two nodes never output differently.
Agreement == \A m, n \in Node : \A v \in output[m], w \in output[n] : v = w

\* An output has T + 1 deciders behind it, though the nodes that amplify a
\* FINISH send it again and messages are counted, not their senders.
OutputIsDecided ==
    \A n \in Node : \A v \in output[n] : Cardinality(Deciders(v)) >= T + 1

\* Nodes that decide in different loops decide the same.  A node that reads the
\* array before a value it has counted was written may decide differently, and
\* up to T of those lead nobody else astray.
DecideSame ==
    Cardinality(Slow) <= T => \E v \in BOOLEAN : Deciders(v) \subseteq Slow

\* TRUE is decided only when T + 1 nodes held it, from the start or as a second
\* input: the agreement above then finds the broadcast it stands for.
Holders == {n \in Running : input[n]} \union second
TrueIsHeld ==
    ~ Deciders(TRUE) \subseteq Slow => Cardinality(Holders \union Slow) >= T + 1

\* With the writes to the array in time, every step is one the abstract
\* agreement allows, or changes nothing it sees.
Abstract == INSTANCE BiasedAgreement
    WITH input <- [n \in Node |-> IF n \in Running THEN {input[n]} ELSE {}],
         outputs <- UNION {output[n] : n \in Node}
Refinement == Abstract!Spec

\* With every node correct, the agreement ends, or lasts beyond the bound.
Progress ==
    \/ <>(\E n \in Node : loop[n] = MaxLoop)
    \/ \A n \in Correct : <>(output[n] # {})

\* With just enough correct nodes to fill a quorum there is one more way: it
\* comes to rest with deciders too few to make the others finish, who wait in
\* their loop while the others need them in the next one.
FewDeciders ==
    Cardinality(Deciders(TRUE) \union Deciders(FALSE)) \in 1 .. T
ProgressOrFewDeciders == Progress \/ <>[]FewDeciders
=============================================================================
