# Dumbo-MS: TLA+ specifications

Dumbo-MS orders blocks of transactions among N nodes. Consensus runs in rounds
(`Priority` in the code): in each round every node broadcasts a batch, the nodes
agree on which of the batches make up the block, and a *round driver* stores the
block and starts the next round. A node that has fallen behind jumps to a later
round and asks its peers for the blocks it missed. The baseline it is measured
against, HoneyBadgerBFT, brings its own copy of `pbc-0.5.14`, the pairing library
its threshold cryptography stands on; it makes up most of the repository's code.

These specifications are about three layers: the protocol core
(`src/consensus/fin`), the networks and the driver around it (`src/network`,
`src/experiment`), and the algebra of pbc.

Contents: [inventory](#inventory), [fault model](#what-a-fault-is),
[modules](#modules), [runs](#runs), [bounds](#bounds), [fairness](#fairness),
[proofs](#proofs), [disagreements found](#where-code-and-comments-disagree),
[abstractions](#abstractions), [not modelled](#not-modelled), [plan](#plan).

## Inventory

| Part | Code | State it keeps | Operations |
|---|---|---|---|
| Reliable broadcast with finish | `consensus/fin/MVBA/rbcwithfinish` | counts of ECHO, READY and FINISH by value; signals between goroutines; `closeval`, `close` | leader: broadcast VAL; all: echo, ready, amplify, first output (`output1`), FINISH, second output (`output2`) |
| Biased binary agreement | `consensus/fin/MVBA/binaryagreement` | loop number; per loop the array `values`, counts of VAL, AUX, CONF; counts of FINISH | input, second input, the handlers of four messages, coin, decision, next loop, output |
| Multivalued agreement (MVBA) | `consensus/fin/MVBA/{sfmvba,handlemsg}.go` | `rbcouts`, `rbcready`, the round, `input` | collect outputs, close `closeval`, draw a leader, start an agreement, hand over the second input, wait for the proposal, output |
| Buffers of early messages | `sfmvba.go`, `handlemsg.go`, `ba.go` | an old and a new buffer, the handler of each round | put a message aside, hand what is left to the next round (`checkbuf`) |
| Coded reliable broadcast | `consensus/fin/RBC` | fragments, counts of READY, the rebuilt batch | send fragments, echo, rebuild, ready, amplify, deliver |
| Fragments | `consensus/fin/support` | none | encode, decode; build and check a Merkle tree |
| Fin round | `consensus/fin/conseneus.go` | `ctrbcoutputs`, their contents | start N coded broadcasts and the MVBA, check others' proposals, wait for the chosen broadcasts, build the block, route messages |
| Priority network | `network/priority` | per peer a send buffer and a receive buffer with `RegisterCH`, `MemUse`; priorities, safe priority, requests for help | push, drop, register a round's channel, send, resend, compute the safe priority, ask for and collect blocks |
| Normal and memory-limited network | `network/normal`, `network/normallimitmemory` | the same buffers in order of arrival, without a bound or cut to a capacity | as above |
| Round drivers | `experiment/fin_test`, `experiment/honeybadger_test` | the round, stored blocks | start a round, store its block, jump to the safe priority, call for help |
| pbc: fields | `pbc-0.5.14/arith` | elements, written in place | five representations of F_p; quadratic and polynomial extensions; powers, roots |
| pbc: curves | `pbc-0.5.14/ecc/curve.c` | points | the group law, multiples, conversion, generators |
| pbc: pairings | `pbc-0.5.14/ecc/*_param.c`, `pairing.c` | a pairing, its method, preprocessed points | parameters, initialisation, pairing by each method, products, powers in GT |
| HoneyBadger baseline | `consensus/honeybadger` | | a Go wrapper around an adapted Python HoneyBadgerBFT |
| Database, log, data types | `database`, `log`, `structure`, `config` | | storage, printing, declarations |

Interaction. A round driver starts one `Fin` per round. `Fin.Run` starts N coded
broadcasts and, when 2f+1 have been delivered, one MVBA whose input is the bit
vector of those delivered. The MVBA starts N broadcasts with finish and, after 2f+1
of them are confirmed, one binary agreement per round of its own, on the question
whether the broadcast of the leader drawn is the outcome. Components talk over Go
channels and stop each other by closing channels (`closeval`, `close`, `MVBA_done`,
`done`, `Close`). Messages of a peer come in through `HandleProtoMsg` and `Push`;
they wait in the buffer until the driver registers their round, whose `MsgRouter`
then reads them. Each message carries its sender's round, from which the network
computes the safe priority it offers the driver.

In pbc everything is a call through a table of functions: a pairing calls its
curves and fields, an extension its base field, all of them F_p. Every function writes
to an element given to it, which may be one of its arguments.

What is hard, and what makes each part right:

* *Broadcasts.* Nodes crash in the middle of a loop that sends to all; nodes stop
  taking part at moments of their own (`closeval`, `close`, the output itself). What
  one delivered, all must be able to deliver; nothing may be delivered that no quorum
  looked at.
* *Binary agreement.* Nodes decide in different loops, with different coins;
  goroutines signal each other before they write the array the other reads; a
  second input comes in at any time. Outputs must agree; TRUE needs holders, FALSE
  a quorum; the agreement must end.
* *MVBA.* Three goroutines of a node share `input`, `rbcouts` and tokens on
  `rbcready`. Outcomes must agree, be held where they are given out and be of a
  proposal others can get; the waits must end.
* *Early messages.* The handler of a closed round and `checkbuf` take from the same
  channel. No message may be lost or doubled; the hand-over must end.
* *Fin round.* The collector writes flag and content in two steps while others poll
  the flags. Blocks must be equal at all nodes.
* *Networks.* `Push` reads without the lock what the registration writes under it.
  Messages of a registered round must all reach it, once, and the receive loop go on.
* *Drivers.* A result and a jump may both be ready, answers come late, a peer lies.
  Only agreed blocks may be stored, and what is jumped over must be obtainable.
* *pbc.* Results are written over arguments; a zero leaves its limbs stale; carries
  are lost only for rare operands; an option exchanges functions while data prepared for
  the old ones is kept. Every result must be what the mathematics says.

`PROJECT.json` lists the hazards at their lines, with the properties that would
catch them or the reason none does.

## What a fault is

The code checks no signatures and panics on messages of the wrong shape; the
experiments stop nodes on purpose (`fin_test/main.go:94-98`). In the protocol core a fault is
therefore a *crash*: a node outside `Correct` may cease to take steps at any time. Nothing marks the
crash in a state: it is the absence of fairness. A broadcast is a loop of sends, so
a crash may leave it half done. This is why counting actions have an
argument `from`, the senders whose messages are counted: in `Next` it is `Node`,
meaning that a message of any node that has sent may have come; in the
fairness conditions it is `Correct`, meaning that only messages among correct nodes
must come. A node that never starts is outside `Running` (BinaryAgreement, MVBA, FinRound).

A message counts from the moment its broadcast begins, and a handler may notice a
threshold at any later moment. As messages are never taken back, this covers every order
and delay of the network.

The driver's rules (f+1 announcements, f+1 equal answers) only make sense against peers that
say what is not so. RoundDriver has a set `Liar` of at most `Fault` peers that announce any
round and answer any block.

## Modules

| Module | Models | Role |
|---|---|---|
| `FinishBroadcast` | what a broadcast promises | abstract specification |
| `RBCFinish` | `rbcwithfinish/{leader,follower}.go` | implements `FinishBroadcast` |
| `CodedBroadcast` | `RBC/{leader,follower}.go` | implements `FinishBroadcast` without its finish round |
| `BiasedAgreement` | what a binary agreement promises | abstract specification; instantiated once per round by `MVBA` |
| `BinaryAgreement` | `binaryagreement/{ba,handlemsg}.go` | implements `BiasedAgreement` |
| `EarlyMessages` | `handle_baloopmsg`, `handle_loopms`, both `checkbuf` | |
| `ValidatedAgreement` | what MVBA promises to a round | abstract specification; instantiated by `FinRound` |
| `MVBA` | `sfmvba.go` | implements `ValidatedAgreement`; composes broadcasts and agreements |
| `CommonBlock` | what a round promises to the driver | abstract specification |
| `FinRound` | `conseneus.go`, and the driver's close | implements `CommonBlock`; composes coded broadcasts and the validated agreement |
| `Mailboxes` | what a network promises to the rounds of a node | abstract specification |
| `RoundChannels` | the driver's and the router's side of receiving | extended by the next two |
| `PriorityReceive`, `NormalReceive` | `priorityqueue.go` of `network/priority`; those of `normal` and `normallimitmemory` | receive buffers |
| `Receive` | `HandleProtoMsg`, `NetWorkType` | composes them; implements `Mailboxes` |
| `BlockChain` | what the driver promises to readers of its database | abstract specification |
| `RoundDriver` | both `main.go`, `network/priority/network.go` | implements `BlockChain` |
| `MontFp`, `FpVariants` | `montfp.c`; `fasterfp.c`, `fastfp.c`, `tinyfp.c`, `naivefp.c` | one operator per function |
| `FpTables`, `FpRegisters` | the `field_init_*_fp`; `pbc_field.h` | elements of F_p in use |
| `Powers` | `arith/field.c` | powers, orders, integer helpers |
| `Fields`, `FieldRegisters` | `fieldquadratic.c`, `poly.c`, `field.c` | extensions; elements in use |
| `Curve`, `CurveRegisters` | `curve.c` | points; points in use |
| `PairingA`, `PairingD`, `PairingE`, `PairingF`, `PairingG` | `a_param.c` (A and A1), `d_param.c`, `e_param.c`, `f_param.c`, `g_param.c` | one operator per function |
| `Pairing`, `PairingRegisters` | `pairing.c`, `pbc_pairing.h` | the types behind one interface; pairings in use |
| `MC...` | | inputs, coins, draws, parameters and symmetry sets for TLC |
| `RBCFinishProof`, `CodedBroadcastProof`, `BinaryAgreementProof`, `MVBAProof`, `EarlyMessagesProof`, `FinRoundProof`, `ReceiveProof`, `RoundDriverProof` | | theorems |

```
          BlockChain                             Mailboxes
              ^ implements                           ^ implements
          RoundDriver                             Receive
              | runs                             /       \ extends
          CommonBlock              PriorityReceive   NormalReceive
              ^ implements                     \          /
           FinRound                            RoundChannels
        takes the promises of
       /                   \
      |            ValidatedAgreement
   CodedBroadcast           ^ implements
     implements           MVBA                     PairingRegisters
          \       uses  /      \ INSTANCE per round        |
        FinishBroadcast    BiasedAgreement              Pairing - G
              ^                 ^                     /   |   \
          implements        implements           PairingD PairingE PairingF
          RBCFinish       BinaryAgreement                 |
                                                       PairingA
        EarlyMessages: between the rounds             \   |   /
        of MVBA, the loops of the agreement             Curve - Fields - Powers
                                      MontFp - FpVariants - FpTables
```

**RBCFinish.** `val` is where `handle_val` stands: it has the proposal ("checking")
and waits in `check_input_rbc`, or has echoed. `ready` follows the signal from the
handlers to `send_ready`; `finish` the FINISH broadcast, which a follower sends
before it outputs and the leader leaves to a goroutine ("pending"). `closeval` and
`closed` are the nodes whose channels MVBA has closed. The leader's thresholds are one
lower than a follower's for READY and FINISH (`ReadyQuorum`, `FinishQuorum`).
`Close` stands for `MVBA_done`, whose precondition is the agreement's: with `Elected`,
this is the broadcast MVBA settled on.

**CodedBroadcast.** The same with fragments: `echoed` (a fragment is sent to all),
`candidate` (T+1 fragments have given back the batch), `ready`, and `delivered`,
which also stops the node's own handlers (`Open`). `done` is the round's end. Which
broadcasts the round's agreement names is the initial choice `elected`.

**BinaryAgreement.** One state component per kind of message and per array
(`val`, `values`, `aux`, `conf`), each by node and loop; `bin` is what `handle_val`
has signalled, `tokens` the queue `sendfinishsignal`, `amplified` and `output` the
FINISH side. `Launch` is `SendConf`, `Decide`, `NextLoop`. Nodes in `Slow` are those
whose goroutines may be preempted between a signal and the write that follows it
(`SlowBias`, `SlowWrite`); for the others signal and write are one step. A CONF
message carries the array itself, not a copy (`ba.go:372`), so a receiver sees it as it
was at the send or as it is later (`ConfSeenAs`).

**EarlyMessages.** A *stage* is a round of MVBA or a loop of the agreement. `buf[s]` is the
old buffer of stage s and the new one of stage s - 1, which are the same channel in the code;
`handler[s]` is which of its three selects the stage's goroutine is in, or the message it has
in hand; `pc` and `left` are `Launch` and its `checkbuf`. What runs in a stage is left out: it ends
when `Needed` messages of it have come.

**MVBA.** `delivered`, `got1`, `got2` are the broadcasts as MVBA sees them;
`taken` counts the tokens taken from each `rbcready`, of which each output puts two;
`fetching` holds the rounds whose second-input goroutine waits for a token; `pc`, `round`,
`outcome` are `Launch`. Round `r`'s agreement is `Binary(r)`, an instance of
`BiasedAgreement`: an answer may be given when `MayOutput` holds.

**FinRound.** `flag` and `content` are the two slices the collector writes, in this
order and, for a node in `Slow`, in two steps with anything in between. `proposal` is
what `Run` reads of the first of them, at a moment of its own (`StartAgreement`). `Accept(q)` are the
nodes whose `check_input_rbc` finds `q`'s proposal in order. `pc` says which of its three waits
`Run` is in, and "closed" that the driver has closed the round.

How these fit: `Deliver` of MVBA asks for nothing but an open node, so its
safety properties hold with any broadcast. What RBCFinish's `Totality` and
`LeaderIsHeard` promise enters only what is expected to happen (`Promised`), and only
while no node is done. `MayOutput` is what `BinaryAgreement`'s `Refinement` establishes. `CoinQuorum` and
`CollectConfirmation` count as RBCFinish's `HandleFinish` does. In FinRound, `Collect` asks for nothing either;
`Promised` is CodedBroadcast's `LeaderIsHeard`, `Totality` and, for the batches agreed on,
`ElectedReachesAll`, while no more nodes are gone than those were checked with. `Outcome` takes what
`ValidatedAgreement` gives, which MVBA implements with "valid" read as: a follower has delivered the proposal, so
2T+1 nodes have accepted it before they echoed. What the driver stores of a round is `CommonBlock`'s block; that these are
equal at all nodes is why RoundDriver needs no more of a block than its round and whether it is the agreed one. `passed` of
`BlockChain` are the rounds a correct peer has been through. `pending` of `Mailboxes` are the messages that have
not come to a round and are still on their way to one: not yet seen, in `Push`'s hands or in the buffer.

**Receive.** One peer's buffer, the rounds the driver starts, and which of the three
networks is in use, chosen at the start (`network`). `hand` is `HandleProtoMsg` inside `Push`, `goroutine[r]`
the registration of round r, `lock` the holder of `BufLock`. In the priority network the
reads of `RegisterCH` before the lock and the writes of its two fields under it are steps of
their own; in the other two all of `Push` is under the lock, and its steps are those between which it waits for room in a channel.
Each send of `HandleProtoMsg` into a bounded channel is a step that may not come: into the round's channel (`Send`); into
`MaxPriorityOutCH` when a message is of a newer round (`Announce`, with the lock in the normal networks); into `CallHelpMsgCH`
or `AssistMsgCH` for a call for help or an answer (`TakeHelp`, `PassHelp`). The last three are shared by the buffers of all peers and read by
goroutines outside of this module, or by none: whether they have room is left open (`Accept`). `memUse` is what the
code counts, `buf` what there is. `crashed` is an index out of range in `Push`, after which
the process is gone.

**RoundDriver.** `pc`, `round`, `start`, `end`, `db` are `main` and `CallHelp`; `maxPriorities`,
`safePriority`, `safeCH` are `HandlePriorities`; `helper`, `awaited`, `assistCH` are `HandleOwnCallHelp` and what
the receive buffers let through to it. Main's loop over the calls (`next`, `MakeCall`) and the hand-over of a block (`HandOver`) are
steps of their own, each of which waits for room in `MyCallHelpCH` and `AssitBlockFromOthersCH`. The block of a round is "agreed" or "forged".
A correct peer in round r has come past the rounds before r; it may have their blocks, or have jumped over them, or not have them in its database
yet (`main.go:178`). `Helper` are the correct peers that may answer calls, for rounds they have come past; nothing makes them.
The code defines the goroutine that answers and never starts it (`HandleOthersCallhelp`),
so that in the program as it stands `Helper` is empty, and whatever is called for stays `Unanswered`. The properties hold
for any `Helper`, so also for programs that start it.

**F_p** (MontFp, FpVariants, FpTables, FpRegisters). An element is a flag and limbs, the limbs
together a number below W^t. Each function is an operator that gives what it leaves in the
element it writes, from its arguments and what was there: stale limbs and all. A field is a record of
these, chosen by the representation. The registers' actions are the calls of `pbc_field.h`, with any
register as result and as argument; `want` is the number each should hold.

**Fields.** A field is a record of its functions over elements that are numbers, pairs or
tuples; it takes F_p as FpRegisters shows it. `Powers` has the algorithms of `field.c` (sliding window,
tables, Tonelli) over any such record. FieldRegisters computes beside each element what it should be,
from products term by term and inverses and roots by search.

**Curve.** A point keeps x and y when it becomes O. CurveRegisters keeps for each register the
multiple of a generator it should hold, from a table made with the chord and tangent law. `Draw` is
the constant that says which of a curve's `RandomPoints` is drawn.

**Pairings.** Each file's Miller loops (projective, affine, with precomputed lines), elliptic nets, final
powers, products and preprocessing, per method. What two files have line for line is written once
(PairingG takes the loops of PairingD, PairingE those of PairingA). Pairing dispatches on the type and the option, as
the structure's function pointers do. PairingRegisters runs sequences of new points, `option_set`,
`element_pairing`, `pp_init`, `pp_apply`, `element_prod_pairing`, `is_almost_coddh` and products, squares, inverses and powers in GT; `log2` is the exponent the result should have.

## Runs

Four nodes, one of which may be faulty, in every run of the protocol. States are distinct ones.

| Run | Checks | What it shows |
|---|---|---|
| `rbcf_main` (549k) | `DeliveryIsCarried`, `ConfirmedIsHeld`, `Refinement`, `Totality`, `LeaderIsHeard` | A follower's delivery, or a confirmation by anybody, has T+1 correct READYs behind it, and reaches every correct node while no one is closed. The leader's own delivery does not count: it stops one READY short. |
| `ba_safety` (464k) | `Agreement`, `OutputIsDecided`, `TrueIsHeld` | Over all inputs and three loops: outputs agree and rest on T+1 deciders, and TRUE is held. |
| `ba_slow` (43k) | `DecideSame` | The data race on `values` may mislead the preempted node, never the others. |
| `ba_one_silent` (84k) | `Refinement`, `ProgressOrFewDeciders` | With second inputs at any time, the agreement implements `BiasedAgreement`; it ends, outlasts the bound, or rests with a lone decider. |
| `mvba_safety` (358k) | `OutcomeIsHeld`, `Refinement`, `Agreement`, `OutcomeOrLoneLeader`, `WaitEnds` | Over two rounds with both leaders' broadcasts under way: one outcome, held by who gives it out, deliverable by the others, as `ValidatedAgreement` says. If no leader is drawn twice, nobody rests waiting for a proposal it has, and the nodes rest without an outcome only if both rounds answered FALSE or a leader is alone with its proposal. |
| `mvba_lone_leader` | `SomeOutcome` violated | A leader that delivered one READY short may be alone with its proposal, and its round never ends. |
| `early_main` (68k) | `OnePlace`, `OneStolen`, `LostOnlyByLaggard`, `IsTakenIn`, `StageBegins` | No message is doubled; one is lost only if a handler keeps it in hand for a whole stage; each is taken in while its stage lasts; `checkbuf` waits for a message that is gone only if the old handler was in a select as its stage was closed, and for one at most. |
| `coded_main` (49k) | `Refinement`, `Totality`, `ElectedReachesAll` | A follower's delivery reaches all, though a node that delivers stops echoing and counting; the round may end and still leave nobody behind. |
| `fin_main` (1.47M) | `BlocksAgree`, `Refinement`, `RoundEnds` | With a crashed node and one whose collector is preempted: equal blocks, of batches that a quorum has, once per node (`CommonBlock`), and nobody waits for ever unless two nodes have gone or closed the round. |
| `receive_main` (455k) | `Refinement`, `MemUseCovers`, `RegistrationTakesAll`, `ReceivingGoesOn` | Over the three networks: a message comes to one round, once, and is lost from no channel (`Mailboxes`), the volume counted covers what is in the buffer, the registration of a round leaves none of its messages behind (priority network), and the receive loop and the registrations go on, but for a send that finds no room (`HandStuck`), a goroutine that has the lock meanwhile (`LockKept`), and an index out of range. |
| `driver_main` (217k) | `StoredIsAgreed`, `MissingIsHeld`, `Refinement`, `WaitGoesOn` | Whatever the liar announces and answers: only agreed blocks are stored, a correct peer has come past every round passed by without its block, the round goes on by one or over such rounds (`BlockChain`), and `CallHelp` waits for ever only for an answer nobody gives (`Unanswered`), for a block it has not called for (`NotAsked`), or for room where `HandleOwnCallHelp` waits for room too (`Deadlocked`). |
| `pbc_main` (15k) | `FpRepresents`, `FpObserved`, `FieldsAreFields`, `PointRepresents`, `PairingIsBilinear` | After any sequence of calls an element of F_p represents what it should and comparisons say so; elements of eight fields are what the definition of the field makes them; points follow the group law; pairings by every method, preprocessed or in products, are powers of one value with the product of the logarithms as exponent. |

Each property of a passing run comes with a mutant in `PROJECT.json`: a plausible slip in the
code under which the run reports the property. Mutated definitions stand before the
definition they replace, with a comment that begins "Mutant". `TypeOK` is a conjunct of an invariant where a run
checks it (`OnePlace`, `StoredIsAgreed`); elsewhere it is proved, like `ReadyNeedsEchoes` of the two
broadcasts, `EnoughCarried` and `OutcomeIsCarried` of MVBA, `DeliveryIsCarried` of CodedBroadcast, `BlockIsBacked` of FinRound,
`NothingTwice` of Receive and `NoRoundTwice` of RoundDriver, which no run repeats: most are part of what a refinement says.

`MCPbc` has assumptions besides, which TLC evaluates: the integer helpers of `field.c` do what
they say, Tonelli gives roots, a curve's order over an extension counts its points, and the small parameters are such
as each type's generator gives.

`CHECK_DEADLOCK FALSE` stands in every configuration but `MCPbc.cfg`: one broadcast, one agreement, one round,
four messages and a driver's rounds come to rest when they are done. Registers always have a next call.

## Bounds

* *Four nodes*, T = 1, is the configuration the repository ships
  (`config/configure.yaml`) and the smallest in which a fault is tolerated. It has what
  the properties turn on: quorums of three that meet in one correct node, an amplification
  threshold of two, a leader whose thresholds are lower by one. The
  theorems hold for every number of nodes.
* *Loops* `MaxLoop = 2`. The coin alternates from TRUE (`Alternating`), so a node
  may decide TRUE in loop 0 while another goes on through a loop in which FALSE could be
  decided and one in which TRUE could. The coin is random in the code; `OutputsAgree` is proved for
  every coin and every bound.
* *Rounds* `MaxRound = 1` of MVBA: one answer FALSE and a second draw.
* *Where MVBA starts* (`Settled`, `Ahead`). All the interleavings of four broadcasts
  are beyond TLC. The runs begin where every running node has confirmed the broadcasts of `Settled`, and the
  nodes of `Ahead` have every first output: states the program is in after any
  number of such steps, and in which nothing else has happened. What is left under way are the
  broadcasts drawn. The theorems assume nothing of the kind.
* *Where a round starts* (`Settled` of FinRound): every running node has two batches, one
  short of what it waits for, so the third, the proposal, and all that follows interleave freely. `Running` has the
  node that is not correct: it collects, proposes and accepts as long as it likes.
* *Inputs* of the binary agreement: all sixteen in `ba_safety`; at most one TRUE in
  `ba_slow`; one of each number of TRUE in `ba_one_silent`, where the three running nodes are otherwise alike.
* *Early messages*: six messages of three stages, two of each, in any order; `Needed = 1` lets a stage end
  with one of its messages not in. Three stages are what it takes for a handler to be a whole stage behind.
* *Receive*: one message of round 1, two of round 2, one of round 5, of sizes 4, 1, 1 and 2; a buffer of
  `Capacity` 2 and `Volume` 3, channels of 1. So the buffer overflows, a message is larger than the volume, a round is so much
  later that the first are too old, and channels are full.
* *Driver*: rounds up to 6, three peers of which one lies and two may answer; peers are seen in rounds 0, 2, 3 and 6 (`Seen`): jumps over one and over
  several rounds, and a newer safe priority during a call, the old one's successor (3 after 2) or later. `SafeSize` 2, `CallSize` 1, `BlockSize` 1, where the code
  has 100: full channels, and the three reasons of `WaitGoesOn`, occur. In the code `Deadlocked` needs more than 100 calls of one interval, and blocks left
  over from them; the theorem has any capacities.
* *pbc*: two registers. F_13 with two words of base 4 in each representation, F_7 with three bits, F_3 in one word:
  products whose reduction carries out occur. Extensions F_5(√2), F_7(i), F_3 modulo polynomials of degree 3, 4 and 6, and a
  quadratic over a cubic extension. Curves over F_5 with 7 points, with its twist, with a `quotient_cmp`, from a
  j-invariant. Pairings with q = 83 and 131 (A, both signs), A1 with n = 7, D with k = 6 over F_5 and k = 2 over F_19, E over F_1201, F over
  F_19, G over F_7. The loops' bounds are the lengths of these orders; exponents and scalars (`Multiple`, `Small`, `Number`) have 0, negatives and
  multiples beyond the order. `DrawValue` fixes which point is drawn where the code draws at random.
* *Symmetry* is used in safety runs only, among nodes of the same role.

## Fairness

Goroutines of a correct node are scheduled (the Go runtime preempts), and what a correct
node sends to another arrives (TCP, and a send loop that reconnects). So what a handler
does on the messages of correct nodes alone is done eventually: weak fairness on each
such action with `from = Correct`. Nothing is assumed of other nodes. Nothing obliges anyone to
close a channel. Where a crashed leader's message is needed there is no fairness.
`Decide` and `NextLoop` are one condition, for they are the branches of one step.

In EarlyMessages, Receive and RoundDriver each goroutine has one condition: it goes on when it can. Go's `select`
chooses among ready cases at random, so no case of one is fair by itself. Nothing makes a message
come, a stage or round end, a peer advance or answer, or a channel that others read have room.

In MVBA and FinRound each step is taken at most once for its arguments, so every
behaviour comes to rest, and fairness of a set of steps says no more than that none of
them is left to take then. Their liveness properties are therefore invariants of the states in which
no correct node has such a step left (`AtRest`, from the guards in `GoesOn`): TLC checks them without a
tableau, together with the safety properties, and TLAPS proves them, for they speak of no `ENABLED`.
`GoesOn` assumes that a broadcast keeps the promises proved or checked of it and
that an agreement that may answer does. The second is more than BinaryAgreement delivers (see `Progress`
below): the liveness results of MVBA and FinRound are about their own steps, given an agreement that ends.

The proofs of all other modules have an `AtRest` of the same kind, the negation of the guards of the
module's fair actions; TLC finds it equal to "no fair action is enabled" in every state of the
runs' instances. That a behaviour comes to rest at all is not proved: in the broadcasts and the agreement it follows from each action
being taken at most once for its arguments, in EarlyMessages, Receive and RoundDriver from messages, calls and rounds being
finitely many while no goroutine moves in a circle without taking one; and that argument is about fairness.

## Proofs

All theorems are checked by TLAPS. They hold for every finite set of nodes, with
T = (N-1) div 3, for any crashes within T, and for the constants' assumptions named in the
modules; TLC evaluates these in every run.

| Module | Theorem | Property |
|---|---|---|
| `RBCFinishProof` | `TypeCorrect`, `ReadyIsGrounded`, `DeliveryCarries`, `ConfirmedHolds` | `TypeOK`, `ReadyNeedsEchoes`, `DeliveryIsCarried`, `ConfirmedIsHeld` |
| | `Implements` | `Refinement` to `FinishBroadcast` |
| | `RestsTotal`, `RestsHeard` | at rest: `Totality`, `LeaderIsHeard` |
| `CodedBroadcastProof` | `TypeCorrect`, `ReadyIsGrounded`, `DeliveryCarries` | `TypeOK`, `ReadyNeedsEchoes`, `DeliveryIsCarried` |
| | `Implements` | `Refinement` to `FinishBroadcast` |
| | `RestsTotal`, `RestsHeard`, `RestsElected` | at rest: `Totality`, `LeaderIsHeard`, `ElectedReachesAll` |
| `BinaryAgreementProof` | `TypeCorrect`, `OutputRestsOnDeciders`, `OutputsAgree` | `TypeOK`, `OutputIsDecided`, `Agreement` |
| | `TrueHasHolders`, `DecidersAgree` | `TrueIsHeld`, `DecideSame` |
| | `Implements` | `Refinement` to `BiasedAgreement` |
| | `RestsOrFew`, `RestsEnded` | at rest: `ProgressOrFewDeciders`; `Progress`, with every node correct |
| `MVBAProof` | `TypeCorrect`, `OutcomesAgree`, `OutcomesHeld`, `OutcomesCarried`, `RoundsCanEnd` | `TypeOK`, `Agreement`, `OutcomeIsHeld`, `OutcomeIsCarried`, `EnoughCarried` |
| | `Implements` | `Refinement` to `ValidatedAgreement` |
| | `WaitsAreAnswered`, `RestsWithOutcome` | `WaitEnds`, `OutcomeOrLoneLeader` |
| | `UsesAgreements`, `ElectedBroadcastHeld` | what the modules below assume of MVBA |
| `EarlyMessagesProof` | `MessageInOnePlace`, `StealsOne`, `NoneIsLost` | `OnePlace`, `OneStolen`, `LostOnlyByLaggard` |
| | `RestsTaken`, `RestsBegun` | at rest: `IsTakenIn`, `StageBegins` |
| `FinRoundProof` | `TypeCorrect`, `BlocksSame`, `BlocksBacked`, `RestsWithBlocks` | `TypeOK`, `BlocksAgree`, `BlockIsBacked`, `RoundEnds` |
| | `Implements` | `Refinement` to `CommonBlock` |
| | `UsesAgreement`, `LeavesWithAll` | what the modules below assume of FinRound |
| `ReceiveProof` | `OneRoundOnce`, `MemoryCovered`, `TakesAll` | `NothingTwice`, `MemUseCovers`, `RegistrationTakesAll` |
| | `Implements` | `Refinement` to `Mailboxes` |
| | `RestsReceived` | at rest: `ReceivingGoesOn` (`RestsStopped`) |
| `RoundDriverProof` | `BlocksGenuine`, `BlocksHeld`, `RoundsGoOn` | `StoredIsAgreed`, `MissingIsHeld`, `NoRoundTwice` |
| | `Implements` | `Refinement` to `BlockChain` |
| | `RestsCalling` | at rest: `WaitGoesOn` (`RestsForAReason`) |

*Broadcasts.* `ReadyNeedsEchoes` is not inductive alone: T+1 READYs make a node ready, and
only "somebody is ready already" ties them to a quorum of echoes. `InductiveInv` adds
`Backed`: an output rests on 2T+1 READYs, a FINISH on an output, a second output on 2T
FINISHes. Who confirms has counted 2T FINISHes, among which there is a follower's when
T >= 1; that follower counted 2T+1 READYs, and of any 2T+1 nodes T+1 are correct.
CodedBroadcast's `Backed` has one conjunct more for N < 4, where the leader's quorum of
echoes is a single one. At rest (`RestsTotal` and the like, T >= 1): where T+1 correct nodes are ready all are, 2T+1 READYs are
there, so all deliver and finish (`ReadyGoesThrough`). `FinishInv` says which outputs have a FINISH; `LeaveInv` of
CodedBroadcast, that an elected broadcast had its T+1 carriers before the first node left.

*Binary agreement.* FINISH messages are counted without regard to the sender, and a
node can send two of a value. `FinishInv` says that while no value has been amplified every
queue holds at most its node's decision; the T+1 messages of the first amplification
are therefore from T+1 deciders, and deciders stay deciders. For agreement, `LoopInv`
says that a decision in a loop rests on the CONF messages of 2T+1 nodes that came to that
loop, and that there is a last loop anyone decided in. At most T nodes are behind it if
N = 3T+1, so only the coin of that loop can have T+1 deciders, whatever the nodes read
from their arrays. That hypothesis is
needed for `OutputsAgree`, and `N: 4`, `Fault : 1` satisfy it.

What is decided rests on what was counted. `HeldInv` follows TRUE back: an array's TRUE was signalled
(`CountedIsVal`, `PromptWrites`), a VAL of TRUE is an input's, a second input's, or was amplified from T+1 others
(`TrueIsBacked`), and who decides TRUE counted it (`DecidesCounted`). This needs no assumption on N: `TrueHasHolders` holds for any
nodes, coin and preempted nodes. `HeardInv` adds that a CONF is
sent once and with one array (`ConfsHold`), that a decision of a coin, and a value carried into the next loop against the coin, each
rest on 2T+1 CONF messages for that value alone (`DeciderHeard`, `CarriedHeard`), and that values of a loop come from the one before
(`Descends`). Two such sets meet in a node that is not preempted, so after a decision nobody carries the other value on.
`DecidersAgree` and `Implements` need N = 3T+1 for the sets to meet; `Implements` needs `Slow = {}` besides, for
a preempted node alone may decide otherwise (`ba_slow`).

*Binary agreement at rest.* `StageInv` says what a node found on its way: nodes vote in every loop they come to, what a node
counts 2T+1 others have sent and it has sent on as AUX, its array holds what it counted and the bias, and it has passed a wait only
with the messages it waits for. A node
waiting in a loop has then counted what anyone counted there, as soon as the messages have come; so it does not stand
behind one that passed or decided there (`NoneWaitsBehind`). All who wait therefore wait in one
loop, 2T+1 of them if no one has decided (`Gathered`), send the same and can look at the coin
(`NoneGathered`); and T+1 deciders make everyone output (`ManyDecideAll`). `RestsOrFew` is this for 2T+1 correct nodes of
3T+1 that all get the second input, `RestsEnded` for every node correct, second input or not. The bias of
loop 0 is why one of the two is needed (see `Progress` below). `MaxLoop` is left in both: a run of coins
without end is not excluded.

*MVBA.* `RoundInv`: an agreement has one answer; rounds a node has left were answered
FALSE, the round where a node has its outcome TRUE. `HeldInv`: a second input, a token
taken, an input TRUE each mean that the node holds the proposal. `CarryInv`: a node
that holds a proposal has delivered it or has counted 2T deliveries; T+1 >= 2 holders then
include a follower that delivered. `Implements` has `T >= 1` for this reason: with T = 0 a leader's own early delivery may
settle an agreement, and no fault is tolerated. It adds that the nodes go into rounds together: an answer needs inputs of 2T+1 nodes, and who
gives one has begun with the rounds (`TakePart`, `QuorumBegan`), so an outcome is a quorum's.

*MVBA at rest.* Each of the two outputs of a broadcast puts two tokens. `BeginInv` counts them: a node has taken at most one for each round
that drew the leader and whose goroutine waits no more. With a leader drawn once, `Launch` finds one after the first output (`WaitsAreAnswered`);
with one drawn up to three times, it does after both (`TokenIsThere`), which is what `RestsWithOutcome` needs. There, nodes that rest without an
outcome are all in one agreement that may not answer (`RoundIsFull`; `GroundInv` says that an answer keeps the inputs it needs). So fewer than 2T+1 inputs are FALSE,
a correct node began with TRUE, and the leader's proposal was delivered. If by anyone but the leader, it is `Promised`, all hand TRUE
over (`AllHandOver`), and TRUE may be answered after all. The hypotheses: T >= 1, at most T nodes not correct, every correct node proposes.

*What the composition takes for granted* of a module above is proved there. `UsesAgreement`: the round behaves, towards what it takes its
outcome from, as `ValidatedAgreement` says, the specification MVBA implements; a proposal that a quorum has accepted stays so (`ValidStays`). `UsesAgreements`: each instance `Binary(r)` is used as
`BiasedAgreement` specifies (one start, TRUE only as second input, one answer). `ElectedBroadcastHeld`: the broadcast closed by
`MVBA_done` is held by the node that closes it and by T+1 nodes, RBCFinish's guard of `Close` with `Elected`. `LeavesWithAll`: a node
closes `done` only with every batch named, each of which 2T+1 nodes have, CodedBroadcast's `CloseDone`. With
the broadcasts' theorems at rest, this is `Promised` of MVBA and FinRound.

*Early messages.* `PlaceInv` says of every message that any two places it lies at are the same, and that no buffer repeats
one. Each step moves at most one message from one place to one other (`Moved`), or none (`Still`); that
what is taken from the front of a buffer is in it no more rests on the buffer not repeating. `StolenInv` is what makes
`OneStolen` inductive: if checkbuf counts on a message that is gone, the old handler has it or has put it down,
and is where its next look finds the stage closed (`HasTaken`). `LostOnlyByLaggard` is proved of each step from `HandInv`: a
handler not holding has nothing in hand, and none runs in a stage that has not begun.
At rest in a stage, its handler is in the third select with nothing to take; a buffer holds only messages of its own stage or later
ones (`LaterInv`), so one of this stage has nowhere to be but `got`. Between two stages, `OnItsWay` says that checkbuf counts on no more
than is there and the old handler is in no select: it lasts until the stage begins (`StepOnItsWay`), and is never at rest. `StolenInv`
says the rest: where checkbuf does wait for ever, it waits for one message, and the old handler has gone after taking it
(`RestsStarted`); TLC reaches such a state.

*Fin round.* A proposal must not change once the agreement has it. It does not because the
number of batches is 2T+1 only once: `Proposed` says that who has a proposal has stored that
many, so that the next one stored makes it more (`Larger`). The nodes that accept the outcome
then only grow in number, and all of them hold all its batches (`Agreed`); `Made` ties a block to the
outcome, and its empty payloads to a collector between its two writes (`Collected`).
For `Implements`, `BlocksEnd` says that a block is the end of a node's round, so that it makes no second one; what it has delivered
then are its flags, which only grow, and which are set before the content.
At rest, `Stepwise` has every collector one batch behind its flags at most, and none when it rests; `Prompted` gives a proposal to who
has enough batches, `Ended` an outcome to who is past the agreement. If no more than T nodes are gone (`Tolerable`), the batches of the 2T+1 correct
nodes come to all of them, each then accepts each other's proposal, and the outcome's batches are `Promised`.

*Receiving.* A message is in at most one channel or handed on, and in the channel of its own round (`Places`);
it is in `Push`'s hands, yet to come or in the buffer only while in none of these (`Fresh`), with one exception: what
its round's registration has sent from the buffer and not cut off, up to its cursor (`SentScanned`, `CursorOK`); in the normal
networks it may stay there after the registration, where no later one takes it.
That a registration takes all its messages rests on the buffer being ordered (`BufOrdered`), which `Sorted` keeps, and on
the lock that keeps `Push` out meanwhile (`Locked`). For `MemUseCovers`, sizes are added up by a recursive function; what it gives for every
sequence is proved from a least counterexample (`Least`, `UpTo`, by the library's `WFMin`), for the
induction theorems take an operator. Sorting by `SubSeq` is treated in the same way.
For `Implements`, `OwnBuffered` says that what is in the buffer has come to no round but its own. It is needed because the router
drops a message of another round, after which it is nowhere: then it is not in the buffer, from where a registration could send it again. A step puts
one message into one channel (`PutsOne`), takes one from a channel for good (`HandsOn`), or only brings messages nearer or loses them (`PendingLess`).
At rest, the router has emptied the channel of the open round, so a full one is a round's that is over (`Blocked`). A registration that has the lock then
stands at such a channel, and `HandleProtoMsg` at such a channel, at the nil one, or at one of those whose readers are elsewhere (`HandlerSends`,
`FieldsLeft`); who else waits, waits for the lock one of these has. What is excluded is a ring of `Push`, registrations and router.

*Driver.* `BackedInv`: a safe priority, in the channel or followed, was announced by more
than `Fault` nodes, and priorities only grow. `AnnouncedInv`: a correct peer announces no more than its
round, the node itself none above its own. So of those nodes one is a correct peer in that round or later (`Carried`),
which has every block before it: `MissingIsHeld`. `GenuineInv`: an answer that is not a liar's is the agreed block of a round
a correct peer has been through (`HeldBlocks`),
and a helper counts one answer per peer, so Fault + 1 equal answers include a correct one
(`TooFewLiars`). `Increasing` says that what waits in the channel of safe priorities grows from front to
end, which with the test of `TakeSafe` makes the round grow. For `Implements`, a jump goes over rounds that `Carried`'s peer has been
through (`JumpsOverPassed`), and a block that comes is one of `HeldBlocks`, whichever call it answers (`TakesHeld`).
`RestsCalling`: `WayInv` says that the block waited for, once called for, is in `MyCallHelpCH`, in the hands of `HandleOwnCallHelp`, or
in `AssitBlockFromOthersCH` (`OnItsWay`); main takes it from there only as the end of its wait, and `TakeAnswer` drops only what is not of the present call. At
rest main has a call to make, so that `MyCallHelpCH` is full, or no block to take. In the first case `HandleOwnCallHelp` is not idle: it has no
answer (`Unanswered`), or a block and no room (`Deadlocked`). In the second it has no answer, or is idle with no call left: then the
block is nowhere, so it was not among the calls (`NotAsked`).
The others need `LiarAssumption`, at most `Fault` liars, and nothing
of who helps.

Only model-checked:

* The liveness properties as such (`Totality`, `LeaderIsHeard`, `ElectedReachesAll`, `ProgressOrFewDeciders`, `IsTakenIn`, `StageBegins`,
  `ReceivingGoesOn`, `WaitGoesOn`): fairness and `ENABLED` are out of the prover's reach. Each has its theorem at rest.
* `SomeOutcome`, which does not hold.
* All of pbc. Its modules compute by RECURSIVE operators, for which tlapm has no SMT backend, and what they give for every
  input is induction over words, digits and degrees in arithmetic modulo a variable, far beyond the sums of sizes that
  `ReceiveProof` treats by a least counterexample.

## Where code and comments disagree

One disagreement is a run of its own, whose counterexample is a behaviour of the code:

* `mvba_lone_leader`. The leader of a broadcast delivers at 2f READYs, its own included,
  where the comment says 2f+1 (`rbcwithfinish/leader.go:269`). If one is of a node now
  gone, no one else may ever be ready; drawn as leader it begins with TRUE, alone, and
  the agreement of three can answer neither value.

Others are stated in the modules as definitions the code does not satisfy, without a run; TLC finds
a counterexample to each when it is checked.

* `ElectedReachesAll` of RBCFinish. `sfmvba.go:183` says that a node which has the output multicasts
  the value. It does not: it closes `MVBA_done` (`:175`), which may stop its `send_ready`
  before the READY is out. With one node crashed, a correct node may be left waiting.
* `Progress` of BinaryAgreement, with one node crashed. A decider waits in its loop (`ba.go:205`) and sends one FINISH; the
  two others need its messages in the next loop, or a second FINISH. If no second input comes, it fails without a decider too: with
  inputs FALSE, FALSE, TRUE the bias makes the third array {FALSE, TRUE}, so that the CONF messages are two of {FALSE} and one of both; nobody
  has counted TRUE, without which the third is not looked at (`ba.go:144-177`). This is the agreement of `mvba_lone_leader`.
* `WaitEnds` of MVBA with a leader drawn twice. `Launch` waits for a token (`sfmvba.go:169`), not for the broadcast as
  its comment says (`:159`); goroutines of rounds that drew the same leader take tokens too.
* `EndsOrJumps` of FinRound. The driver's loop "wait[s] for jump signal or consensus ends"
  (`fin_test/main.go:164`), but `fin.Run` (`:162`) comes back only with a block. A node
  whose peers have closed the round, dropping what they had queued for it
  (`conseneus.go:222`), waits there and never looks at the safe priority.
* `CallsForAll` of RoundDriver. `CallHelp` is to "call for all miss blocks below than safePriority" (`main.go:261`). It
  returns at once when no newer safe priority is waiting, forgets the interval it had when there is one, and stops one short of the end.
  `HandleOthersCallhelp`, which would answer, is not started: a wait in `CallHelp` is for ever, `Unanswered`, `NotAsked` or `Deadlocked`.
* `ReceivesAll` of Receive. "pn will put all received msgs with this priority in thie channel" (`network.go:280`):
  in the normal networks the registration breaks off at the first message of a newer round, in buffers that are not sorted
  (`normalqueue.go:410`); in the priority network a message `Push` has in hand when its round is registered goes to the buffer and stays there.

Remarks on the protocol code. `RBC/leader.go:252` says the leader's own echo is
ignored; it is counted (`:212`, `:236`), which `ReadyNeedsEchoes` of CodedBroadcast shows
to be harmless. `conseneus.go:107`, `:373` and `:377` fix the components' threshold at 1 where `Run`
itself counts with `fin.Fault`; the models have one T, as with `Fault : 1`. In `handlemsg.go:104` the 2f+1 tests stand in the else
branch of the f+1 test, so with f = 0 they are never made.

Remarks on pbc, met while its functions were translated. The runs leave these calls out, as the
library's own callers do:

* F_p: `fp_halve` of an odd element leaves the destination's flag as it was (`montfp.c:277`, `fasterfp.c:228`), `fp_cmp` compares with the limbs of a zero
  second argument (`montfp.c:446`, `fasterfp.c:415`), and a multiple of p handed to `fasterfp`'s `set_mpz`, or p to `from_bytes`, becomes a zero marked as live.
* Powers: `element_pow_base_table` reduces the exponent only if it exceeds the order (`field.c:307`); `pbc_mpz_from_hash`
  may give its limit (`field.c:660`); `pbc_mpz_set_str` reads letters as digits from 0 (`field.c:740`).
* Extensions: the roots of `fieldquadratic.c` divide by y, so an element of the base field fails (`:357`, `:527`); `polymod_is_sqr` says
  that 0 is no square (`poly.c:617`); multiplying a polynomial by a multiple of p keeps leading zeroes (`poly.c:272`, `:284`).
* Curves: in `multi_double` and `multi_add` one vanishing denominator spoils the whole product, and a destination that was O
  stays marked so (`curve.c:210`, `:284`); `multi_add` writes its sums one after the other (`:316`), so what is added must not be one of
  the elements written before: the model adds elements of their own, as the callers do; `from_hash` of a curve without points in its range does not end.
* Pairings: the projective loops of types D and G set Zy to the x-coordinate (`d_param.c:284`, `g_param.c:272`), so only "miller-affine" is
  right there; the choice of loop is a static variable shared by all pairings of a type (`d_param.c:422`, `e_param.c:799`, which says so); `option_set` of type G
  cannot go back from "shipsey-stange" (`g_param.c:1143`); the default `pp_init` keeps a pointer to the point (`pairing.c:61`), and `option_set` between `pp_init` and
  `pp_apply` makes the second read what the first did not write (`a_param.c:1398`).

## Abstractions

* One proposal, and one batch, per broadcast: the maps from value to count are counters.
  With crash faults a leader sends one.
* Counters are the sets of nodes that have sent. Where the code counts messages and one
  node may send two (AUX in loop 0, FINISH), so does the model.
* MVBA relies on `BiasedAgreement` as BinaryAgreement implements it without `Slow`
  nodes. `ba_slow` shows what a preempted node can do alone.
* `closeval` acts in the broadcast's own module; MVBA sees it through `Promised`.
* Reed-Solomon code and Merkle tree are taken at their word: T+1 fragments give the batch.
* The coded broadcast's buffers for other rounds are left out: `MsgRouter` passes only
  messages of its round, so they stay empty. Panics on malformed messages are left out.
* A value handed over a channel to a waiting goroutine and that goroutine's step are one
  action where nothing can come between them that anyone could tell.
* In FinRound the bit vectors are sets, and the JSON of a block is the set of its batches
  with those whose payload is empty. A proposal read from the slice while the collector writes it is
  any set between what was there before and what is there after.
* An output after `done` is closed has no reader and is not a step.
* The buffers of early messages hold 1000 messages; the models never fill them.
* Receive has one peer: the buffers of different peers share only the round's channel, which here is filled by one of
  them and may be full.
* A peer's receive loop that has stopped (`HandStuck`) is not in RoundDriver: there each announcement and answer is taken or late. `AssistMsgCH` holds
  3N answers, and never has more than two calls' (one answer per peer and call, and older ones are taken first); the send queues `SubSendMsgCHs` and the database's channel are taken to have room.
* RoundDriver's channels of safe priorities and answers are queues in order; peers' announcements are the round they are in, read
  at any later time, which is the same as messages that may be late.
* Words of pbc have 2 to 4 values instead of 2^64 (`W`), numbers from gmp are integers. An element of an extension is
  its value, for FpRegisters shows that of F_p. `polymod_sqrt` draws until a draw gives a root (`poly.c:668`); the model takes the root of one such draw, the
  first found that is not a root itself. Memory management and initialisation of elements are left out.

## Not modelled

* *Sending* (the send buffers, `AsyncSend`, `HandleConn`, set-up): the connection and what a broken one resends are taken as "arrives, or the
  sender has crashed". `MsgRouter` and `HandleMsgOut` copy between channels; FinRound has what closing them drops.
* *In pbc*: type I with the ternary extension field, singular curves (whose own comment calls the pairing useless), the integers
  (`z.c`, `multiz.c`), `mpc.c`, Hilbert class polynomials and the search for MNT curves, discrete logarithms, parsing and printing, and
  the calculators `pbc.c` and `oldpbc.c`: floating-point, text, or search without state of its own.
* *HoneyBadgerBFT in Python*, its wrapper and its threshold cryptography: an adapted copy of another project, run as a process.
* *Database, log, message structures, configuration, Reed-Solomon and Merkle trees*: I/O, declarations, and functions on bytes.

## Plan

1. *Sending*: `AsyncSend` and `ListenProtoMsg` with a connection that breaks and is replaced, composed with Receive: every message once, in
   order of rounds.
2. *HoneyBadger core*: broadcast, agreement and common subset of the baseline; `FinishBroadcast` is the first one's
   abstract specification too.
3. *Proofs*: of *Sending* and of its composition with Receive.
4. *pbc*: the ternary field with type I.
