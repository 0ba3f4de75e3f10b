# Verification of basic HotStuff

TLA+ modules, model-checking runs and machine-checked proofs for the HotStuff
implementation of this repository (`src/`): its replica, with and without the
Cogsworth pacemaker, the certificates it rests on, and its client.  Paths below
are relative to the repository; `PROJECT.json` maps every definition to the lines
it stands for.

## 1. Inventory

| part | code | state | operations |
|---|---|---|---|
| replica, basic | `src/consensus/consensus.go`, `basic.go` | view, three certificates, votes, view-change tables, flags | `HandleMsg` with eight handlers, `ProcessCurrentViewQueue`, timeout, `SendNewView`, `processNewView`, `HandleReq`/`SendPrepare` |
| replica, Cogsworth | `basic_with_cogsworth.go`, `pacemaker.go` | the same, wishes, timeout votes | the three phases, `OnReceiveWishNextView`, `OnReceiveTimeout`, `OnReceiveTimeoutVote`, `OnReceiveNewView`, `WishToAdvance`, `OnBeat` |
| replica set | `src/service/node.go` | none that changes | quorum sizes, faulty replicas, leader of a view |
| blocks and certificates | `src/model/block.go`, `src/types`, `src/crypto` | a leader's list of signatures | sign, verify, combine, to and from protobuf |
| block store | `src/service/blockchain.go` | stored blocks | `Store`, `Get`, `Extends`, `Clean` |
| message queue | `src/service/queue.go` | messages of later views | `Put`, `Sort`, `Pop` |
| commands | `src/service/cmd.go` | channel of requests, finished commands | `Enqueue`, `Dequeue`, `Finish`, `IsFinished` |
| timeout | `src/service/timeout.go` | armed or not | `SoftStart`, `Reset`, `Stop` |
| links, RPC server | `src/server/basic.go`, gorums | messages under way, `MsgChan` | one-way calls |
| client | `src/server/client.go` | command sent, responses per command | `SendRequests` with its timeout, `SendResponse` |
| keys, configuration, logs, metrics, generated code | | | I/O, not part of the protocol |

**How they interact.**  A replica is two goroutines.  `HandleMsg` takes messages
from `MsgChan` and ticks of the timeout, one at a time, and calls the handler.
`HandleReq` (`OnBeat` with Cogsworth) waits for a token on the unbuffered channel
`Ready`, then for a request, and proposes it.  They share the fields of
`HotStuffImpl` and the mutex, which some handlers take and some do not.  Replicas
send each other one-way gorums calls: per link they arrive in order, and they are
lost with the connection.  The client sends a command to all replicas and counts
what they answer in another goroutine, the two of them meeting at an unbuffered
channel.  Nothing is persisted, so a restarted replica is a new one; the program
has no way to bring it back into the protocol, and crashes are modelled only as
messages that are not delivered.

**What is hard.**  A message may come before the view it belongs to (it is queued
by view), or after it (it is dropped).  The queue is tried *before* the message at
hand, which may move the replica to another view under that message.  A timeout
abandons a view whose decision is on its way.  The certificate that a new leader
picks from a quorum of reports is all that protects a lock, because `SafeNode`
accepts any block of a later view.  Handlers call each other while the mutex is
held; `Ready` blocks whoever offers it.  Signatures are counted by list length,
and a list with two of one replica can never be combined.  The client does not
look who answers, and answers to a resent command mix with those to the next.
`PROJECT.json` lists each hazard at its line.

**What must hold.**

* replica: agreement; locks are respected by all later proposals; one proposal
  per view; no panic and no self-deadlock; certificates never regress; every
  view is left and, in good times, decided.
* Cogsworth: the same, with views entered by wishes and timeout certificates; a
  leader's own wish and vote are the first it counts.
* certificates: one that is accepted stands for one block, and a quorum of
  different replicas signed it; enough votes make one.
* queue: what is queued for a view is handled in it, once.
* block store: it keeps what may still be asked for, and `Clean` removes the rest.
* client: told of each command once, in order, and only after F + 1 replicas
  executed it.

## 2. Modules

| module | models | composes |
|---|---|---|
| `NodeManager` | `service/node.go`: `Replica`, `QuorumSize`, `FaultNodes`, `GetLeaderByView` | |
| `HotStuffData` | blocks, certificates, messages | `NodeManager` |
| `BlockChain` | `service/blockchain.go`, operators on a set of blocks | `HotStuffData` |
| `MessageQueue` | `service/queue.go`, operators on a set of messages | |
| `HotStuffImpl` | what both kinds of replica share (`consensus.go`): the state, links, phases, `HandleReq`; the properties of both | the four above |
| `BasicHotStuff` | `basic.go`: its handlers, view change, `HandleMsg` | `HotStuffImpl` |
| `Cogsworth` | `basic_with_cogsworth.go`, `pacemaker.go` | `HotStuffImpl` |
| `Agreement` | abstract specification of the replicas | `BlockChain` |
| `Client` | `server/client.go`, `service/cmd.go` | `Agreement` |
| `Certificates` | `crypto/`, the certificates of `types/` | `NodeManager` |
| `MC...` | small instances | |
| `..._proofs`, one per name | theorems | the module they are named after; `Operators` is about `NodeManager` and `BlockChain`; `Safety` and `Counting` are about what both kinds of replica share, `BasicAgreement` is about `BasicHotStuff` |

**Replicas.**  `HotStuffImpl`, `BasicHotStuff` and `Cogsworth` keep the names of the
code.  A step is a whole handler with all it calls (`Dispatch`): the mutex, or the
fact that the other goroutine has no token while a handler runs
(`TokenDiscipline`), keeps the two goroutines apart.  `HandleMsg` is cut where it
returns to its loop or goes on with another message:

* `ReceiveFuture`, `ReceiveStale`, `ReceiveCurrent`, `HoldCurrent`: the four ways
  a message taken from `MsgChan` may go (lines 59-115 of `basic.go`).  The last
  is for a message of the current view that waits in `hand` while the queue is
  tried;
* `Chase`: one round of `ProcessCurrentViewQueue` (`chasing`);
* `HandleHeld`: the `switch` that follows it;
* `Timeout`: the other case of the `select`.

`status` records what would be a panic, or a wait for ever for the mutex or for
the token; the properties show whether it stays `"up"`.

**Agreement** keeps the proposed blocks and those each replica executed.  Its three
actions say what the protocol promises: a leader proposes one block per view, on
top of an earlier block, with a command it has not executed (`Propose`); the proposer
is the first to execute its block, before it leads a view again, and what it
executes is on one chain with all that anybody executed (`Decide`); the others
execute what the proposer did, in the order of the views (`Learn`).
`ImplementsAgreement` is the refinement: `HotStuffImpl` has both variables, and the
abstract specification, instantiated on them, is a property of `BasicHotStuff` and
of `Cogsworth`.

**Client** replaces the replicas by `Agreement` and adds what the client shares with
them: requests in each replica's channel, responses on their way.  So what it
shows of the client rests on the refinement, not on a second model of the
protocol.

**Certificates** has what the modules of the protocol leave out: signatures.  A leader
keeps a list of signatures for each block and view; the module follows the one of its
`target`.  It receives messages about anything, with signatures over anything, from
anybody, also twice, and verifies each signature against what its own message is
about.  What the protocol modules rely on are its two properties: an
accepted certificate is about its target alone (hence certificates there are a
view and a hash), and a list without doubles is combined as soon as it is long
enough (hence `CountedOnce` and `WishesCountedOnce` there).

**Abstractions.**

* *Hashes.*  A hash is `<<proposer, time>>`: sha256 covers both, and the clock of
  a replica moves on between two proposals.  Genesis has time 1; the zero hash,
  which no block has, is `<<0, 0>>`.
* *Signatures.*  ECDSA is taken as unforgeable.  Lists of votes, wishes and
  new-view messages are sets in the protocol modules, where each entry names its
  sender; that no entry comes twice is what `CountedOnce` and `WishesCountedOnce`
  say.
* *Links.*  `net[s][r]` is a FIFO queue: the gorums stream from s to r followed by
  r's share of `MsgChan`.  `MsgChan` mixes the links in any order, and so does
  `Receive`.  `Lose` drops the head of a link.
* *Queue.*  `Sort` orders by type with an unstable sort, so the message that
  `Pop` returns is any one of the most advanced type.
* *Requests.*  In the modules of the replicas, `HandleReq` may take any command that
  is not finished.  `Client` has the channels in their order.
* *Per-view tables.*  In basic HotStuff `highQCTmp` and `finishedViewChange` are
  only read at the current view, and are kept for it; in Cogsworth the tables are
  kept by view.  `CurrentBlock`, `CommitQC`, `ViewChanging` and `blockAtHeight` are
  only written, and are left out.
* *Timeouts.*  `timer` says whether the timeout is armed; `Timeout` fires at any
  moment while it is.  Under go 1.24 (`go.mod`) a stopped timer delivers no stale
  tick.

## 3. Runs

Every run but `SixReplicas` has four replicas, F = 1 and quorums of three.
`CHECK_DEADLOCK` is off because the system rightly stops: clients stop sending
after `MaxView`, or when all commands are answered, and a leader sends one
certificate.

| run | bounds | checks |
|---|---|---|
| `BasicSteady` | 3 views, 3 commands, nothing fails; 0 prompt | `TypeOK`, `NeverStuck`, `CountedOnce`, `NoSecondList`, `ExecutedOnce`, `StoreIsRecent` |
| `BasicViewChange` | 2 views, 2 commands; 0, 2, 3 may time out in view 1; 3 prompt | `Consistency`, `ProposalsExtendLocks`, `ExecutedIsLocked`, `OneProposalPerView`, `ImplementsAgreement`, `RepeatedOnlyIfMissed` |
| `BasicLossy` | the same, replica 3 faulty, one message lost | `Inv`, `TokenDiscipline`, `NoViewSkipped`, `Consistency`, `CertificatesNeverRegress` |
| `BasicProgress` | 1 view, anyone may time out in it, fair; 0 prompt | `EveryViewLeft` |
| `BasicDecides` | 2 views, nothing fails, fair | `EveryViewDecided` |
| `BasicLaggard` | 2 views, nothing fails, fair; 3 prompt | `EveryViewLeft` is **violated** |
| `SixReplicas` | 6 replicas, 2 views, a slow link between two halves | `Consistency` is **violated** |
| `CogsworthViewChange` | 2 views, 2 commands; 0, 2, 3 may time out in view 1; one message lost; 0, 1 and 3 prompt | `CogsworthTypeOK`, `CogsworthInv`, `OwnWishFirst`, `OwnVoteFirst`, `VotesReported`, `WishesCountedOnce`, `NeverStuck`, `Consistency`, `ProposalsExtendLocks`, `OneProposalPerView`, `TokenDiscipline`, `LocksNeverRegress`, `ImplementsAgreement` |
| `CogsworthMissingBlock` | 0, 2, 3 may time out in views 1 and 2; 0, 1 and 3 prompt | `NeverStuck` is **violated** |
| `CogsworthForgotten` | 0, 1, 2 may time out in views 1 and 2, 3 in view 1; 0, 1, 2 prompt | `NobodyForgotten` is **violated** |
| `Client` | 2 commands, 2 views, 1 timeout of the client, fair | `ClientTypeOK`, `AnsweredInOrder`, `AnsweredIsExecuted`, `OfferTaken` |
| `Certificates` | 2 items of each of 3 kinds, 5 signatures | `TypeOK`, `AcceptedForTarget`, `FormedUnlessRepeated` |

**Bounds.**  `MaxView` stops the requests: none reaches the leader of a later
view, but replicas still go there.  Two views are the least in which a block can
be decided, locked or only prepared in one and contradicted in the next; the
three views of `BasicSteady` let messages of several views wait together and
`Clean` evict blocks.  `MayTimeOut` says which replicas may time out where.  In view 1,
replicas 0, 2 and 3 are the smallest set that can abandon the first leader, and
replica 2 leads the next view.  `MaxLost` is one message; with the timeouts that is
enough for a leader and a quorum to disagree on whether the view was decided.
`MaxResend` is 1, so that a command may be proposed twice.  With `MaxVotes` at 5,
signatures of all four replicas and a double fit in.  Commands are interchangeable
(`SYMMETRY`) where no temporal property under fairness is checked; the client's
are numbered.

*Schedules.*  Four replicas send more messages than TLC can interleave within
minutes.  The runs with many schedules keep to those in which the replicas of
`Prompt` handle at once, and in a fixed order, what reaches them (`PromptSpec` in
the `MC` modules); the other replicas, the timeouts and the losses are free.  This is
a bound like any other: it leaves schedules out, and adds none.  In basic HotStuff
one replica that leads none of the views is prompt; with the pacemaker, which sends
many more messages, all are but replica 2, the leader of the view that is changed to.
The larger instances were explored once, without an error.  In basic HotStuff, with
nobody prompt: `BasicSteady` (405 thousand states), `BasicViewChange` (1.7 million),
`BasicLossy` (1.5 million) and `BasicProgress` (48 thousand).  With the pacemaker:
two views without timeouts (320 thousand), one view with anyone's timeout (808
thousand) and two views with the timeout of one replica (1.1 million), nobody prompt;
two views with a quorum's timeouts and replica 0 prompt (3.7 million); and
`CogsworthViewChange`, with its lost message, with 0 and 1 prompt (2.4 million).

**Fairness.**  Both goroutines of a replica loop for ever and the channels they
read are served, so each of `Receive(r, s)`, `Chase`, `HandleHeld` and `HandleReq`
is taken if it stays enabled (weak fairness); `Receive` is fair per link because
`MsgChan` is a FIFO queue.  An armed timer fires unless it is stopped.  Nothing makes
a link lose messages.  In the client, `SendRequest` and `Wake` are weakly fair, as
the goroutine keeps running; `Signal` is strongly fair, since `Chan` competes with
the timeout in a `select`, which Go decides at random among the cases that are
ready, and does not always miss the same one.

**What the violations show.**

* `SixReplicas`: 6 is in the range 4 to 16 that `README.md:149` and
  `src/cmd/hotstuff.go:32` promise.  F is 1 and a quorum has 3 replicas; while the
  links between {0, 1, 3} and {2, 4, 5} are slow, the first decides a block in view
  1 and the second another in view 2.  Of 4..16 it is the only number
  with disjoint quorums, because 2(2F + 1) > N fails for no other.
* `BasicLaggard`: messages of view 2 overtake, on other links, the Decide of view 1
  to replica 0 and are queued.  When the Decide comes, the queue of view 1 is
  empty, so it is handled at once; that enters view 2, and nobody tries its queue.
  The others go on to view 3; replica 0 stays in view 2 with the Decide of view 2
  in its queue and no timeout armed, until some later message reaches it.  The same
  Decide taken *from* the queue, or a timeout, would have tried the queue again.
  `EveryViewDecided` holds in the same executions, because the other three
  replicas are a quorum.
* `CogsworthMissingBlock`: `processNewView` of a leader looks for the block of the
  `HighQC` it has *before* it takes the best certificate of the timeout votes, and
  ignores that it may be missing.  After one abandoned view that is genesis.  After
  two it may be the zero certificate of a replica that prepared nothing, or a block
  prepared and never executed, so never stored: `BlockToProto` is called with nil.
* `CogsworthForgotten`: every handler of Cogsworth is called from the queue one message
  per call, the most advanced first.  A replica that has both the new-view message of
  a view and the proposal that followed it in its queue votes first, which arms its
  timeout, and then handles the new-view message, which stops it.  If the view comes
  to nothing, the others wish for the next one, which that replica leads: their wishes
  wait in its queue, and it never gets there.

**Mutants.**  Each property of a passing run has a mutant: a variant of a modelled
definition with a plausible bug, under which the run finds the property violated.
They stand before the definition they change and are named after it.

## 4. Proofs

All theorems are for every `TotalNumber` in 4..16 (but six, where said), every
number of faulty replicas, every set of commands, and every `MaxView`, `MayTimeOut`
and `MaxLost`; the assumptions on these constants are named in the modules that
declare them.

**The replica goes on (`BasicHotStuff_proofs`).**  `TypeCorrect` is
`Spec => []TypeOK`, `InvCorrect` is `Spec => []Inv`; from `Inv` follow
`TokenDisciplineCorrect`, `OneProposalPerViewCorrect`, `NoViewSkippedCorrect` and
`NeverStuckCorrect`.

`HandleReq` has the token in a view only if its replica leads it and
nothing was proposed there (`TokenDiscipline`).  The token is given when the view
change of that view ends, and before that neither the token nor a proposal is
there (`ChangingView`); a view is entered only once, and a block of view v can only
come from its leader when it got to v (`ProposedByLeader`), so an entered view has
no proposal of its leader yet.  To leave a view needs a message about a block of
it, or an armed timeout, and both mean that there was a proposal
(`MessagesGenuine`, `TimerAfterProposal`): so no view is skipped, and the token
is used up before its view is left.  A message that waits in the queue for a view
that the replica will lead can only be a new-view message: a vote for a block of that
view would mean that the leader had been there (`NoVoteQueued`), and a phase message
would have been sent by the replica itself.  So `SendNewView` never locks the mutex again.
The message that `HandleMsg` holds is of the current view if the
replica leads it (`HeldForLeaderCurrent`), because what the queue of such a view
contains does not move the replica on; so no vote of another view is handled
and `OnReceivePreCommitVote` does not panic.  `Inv` is the conjunction of these;
the proof treats its part about messages link by link (`GenuineInTransit`), and the
rest as `LocalInv`.  `BasicLossy` checks `Inv` with TLC.

**Agreement (`Safety_proofs`, `BasicAgreement_proofs`), for all numbers but six.**
`SafetyInvCorrect` is about what replicas know of each other:

* `HashesKnown`, `CertsKnown`: a hash belongs to one block, and a certificate is of
  a proposed block, of genesis or the zero one;
* `ReportsKnown`, `LeaderMsgsKnown`, `ExecutedKnown`: a replica reports once per view,
  with a certificate of an earlier one; a leader's message carries the certificate of
  its block, and a decided block was executed by its proposer first;
* `VotesBacked`: who voted to pre-commit the block of view v reports, from then
  on, a certificate of view v or later;
* `CandidatesInformed`: the certificate picked for a proposal comes from a quorum,
  none of whose members had voted to pre-commit a later block when it reported;
* `LocksChosen`: a quorum backs what is locked, and no later proposal is on top of an
  older certificate - here two quorums have to meet (`QuorumsMeet`, which six
  replicas break);
* `DecisionsLocked`: a quorum has locked what is decided.

`SafeNode` plays no part in it, as it does not in the code: all rests on the reports.
The invariant is not proved handler by handler.  First, any step with five effects
(`CertEffect`, `ReportEffect`, `VoteEffect`, `CandidateEffect`, `LockEffect`) is
shown to keep it, and each handler that both kinds of replica have is shown to have
them: that is `Safety_proofs`, which knows no next-state relation.  Then each
module shows it for its own handlers, by `NextHandles`: a step handles a message,
times out, proposes or touches none of it.

From it: the certificate of every later proposal leads back to the locked block, by
the smallest view that would break it (`ProposalsExtendLocksCorrect`);
what is executed is locked by a quorum (`ExecutedIsLockedCorrect`); so two executed
blocks are on one chain (`ConsistencyCorrect`); certificates do not give way to older
ones (`CertificatesNeverRegressCorrect`).  `BasicImplementsAgreement` is the step
simulation: the initial states are those of `Agreement`, `HandleReq` is a `Propose`,
a handler that executes a block is a `Decide` at its proposer and a `Learn` at
another, and every other step a stutter.

`AgreementIsConsistent` is about the abstract specification alone, and for every
number of replicas: its rules are enough for `Consistency`.  A proposal lengthens the
chain but puts no block between two others, so what extends a block does so for ever
(`ExtendsStays`, again by the smallest view that would break it); a `Decide` is on one
chain with all that is executed, and a `Learn` adds no block.  For this a new block
must not have the hash of genesis nor the zero hash.  So six replicas, for which
`SixReplicas` refutes `Consistency`, do not implement `Agreement`.

**Without timeouts (`BasicAgreement_proofs`),** that is with `MayTimeOut = {}`, but
whatever is lost and whoever is faulty: a replica leaves a view only by executing its
block (`AllExecuted`), so the proposer of each view knows all commands before it
(`CommandsOnce`), blocks have their predecessors (`ChainRooted`), and the store
keeps the last three and no other (`StoreKeeps`).  Hence `ExecutedOnceCorrect` and
`StoreIsRecentCorrect`.  With timeouts neither holds: a leader that missed a Decide
proposes the command again, and a gap in the chain keeps `Clean` from what is below.

**With timeouts** a command is executed in two blocks only if it was missed
(`RepeatedOnlyIfMissedCorrect`, for all numbers but six): a leader proposes nothing that
it has executed, and executes no block of an earlier view afterwards.  `BasicViewChange`
checks it, and does reach states in which a command has been executed twice.

**Nothing is counted twice (`Counting_proofs`), for all numbers but six.**  With
and without the pacemaker it has to be known where messages are and why they were
sent:

* `Alone`: no message for a replica is in two places of its links, queue and hands;
* `Determined`: its type, its block and, of a vote, its sender tell it from all others;
* `AskedOnce`: who is still to be asked for a vote, by a message on its way, has not
  cast it, neither counted nor on its way;
* `PhasesEnded`: what the end of a phase sends is about a block whose phase the
  leader recorded as ended, so no phase ends twice and no vote is asked for twice.

As above, a step with two effects (`CountingEffect`, `SentOnce`) keeps the invariant,
and every handler takes its message out (`Delivers`) and has them; `Counting_proofs`
shows it of the handlers that both kinds of replica have.  `CountedOnceCorrect` is in
`BasicAgreement_proofs`: a new-view message is new because a replica reports once per
view (`ReportsKnown`).  `WishesCountedOnceCorrect` is in `Cogsworth_proofs`, where
`PaceInv` adds what the pacemaker counts:

* `WishInv`: a counted wish is about a view its sender has reached, and `view` only
  grows; so the wish sent on entering a view is a new one;
* `CertificateInv`: who is still to be sent the certificate of a view has cast no vote
  for it.  The leader forms it once (`wishFinished`, which `MessagesSent` ties to every
  certificate under way), so each replica votes once;
* `ViewChangesMarked`: a `NewView` under way is of a view that the leader recorded as
  changed to, so the votes for its certificate are not collected a second time.

`NoSecondListCorrect` and `CogsworthNoSecondList` are about the votes that come after
their phase ended: `finishedPrepareVotes` and its like keep them from starting a list
again.  A phase is marked when its list becomes a certificate, and with `PhasesInOrder`
it follows that the leader's own vote, which is put on the list of the next phase without
looking at the mark, is never one too late.

**The pacemaker (`Cogsworth_proofs`).**  `CogsworthTypeCorrect` and
`CogsworthInvCorrect`, that is `CogsworthSpec => []CogsworthInv`, from which follow
`OwnWishFirstCorrect`, `OwnVoteFirstCorrect`, `CogsworthTokenDiscipline`,
`CogsworthOneProposal` and `StopsOnlyWithoutBlockCorrect`.  The parts of the
invariant are

* `MessagesSent`: what could have sent each message, and to whom: wishes and votes
  name their sender and go to the leader of their view, and no vote for a timeout
  certificate is older than the certificate (`IsSent`);
* `DecideIsLast`, `HeldIsCurrent`: the handlers of the certificate and of the new
  view do not compare the view of the message with the one of the replica.  A
  message that `HandleMsg` holds could be late for them, if what it takes from the
  queue meanwhile moves the replica on, and only a decision does.  But a leader
  sends the decision of a view last, the links keep their order, and so no decision
  gets before what was sent to change to its view, on a link, in the queue or
  in the hand;
* `LeadsWhatItCounts`, `CountsItself`: a leader's tables are about views that it
  leads and has reached, and its own wish and vote are in them until enough are.
  Hence a wish of another replica never makes the certificate while the mutex is
  locked (`OwnWishFirst`), and no vote waits in a queue (`OwnVoteFirst`);
* `TokenAfterViewChange`: while its view is changed to, a leader has neither the
  token nor a proposal, and gets the token once (`timeoutVoteFinished`);
* `StopsOnlyWithoutBlock`: `NeverStuck` does not hold (`CogsworthMissingBlock`), but
  this is the only way to stop: `HandleMsg` panics in a leader that lacks the
  block of its `HighQC`; it never waits for the mutex or for the token.

Each handler is treated by the part of the state that it leaves alone, and the queues
and links by what they carry (`Carries`).  `CogsworthViewChange` checks `CogsworthInv`
with TLC.

**Agreement with the pacemaker (`Cogsworth_proofs`), for all numbers but six.**
`CogsworthSafetyInv` is the invariant of `Safety_proofs` for `CogsworthSpec`.  A vote
for a timeout certificate plays the part of the new-view message: it reports the
`PrepareQC` to the leader of the view.  The leader counts the signatures in
`verifiedTimeoutVotes` and takes the certificates from `highQCTmp`, two tables that are
filled and cleared at different places; that a quorum of the first is a quorum of
the second is `VotesReported` (`VotesReportedCorrect`), which needs of the books above
that a vote is about the view of its leader (`HeldIsCurrent`).  The leader proposes
only in a view it has changed to (`TokenAfterViewChange`), so its `HighQC` is one that
a quorum's reports support (`CandidatesInformed`).  A follower overwrites its
`HighQC` with its own `PrepareQC`, but that does no harm, because it does not propose.
Hence `CogsworthConsistency`, `CogsworthProposalsExtendLocks`,
`CogsworthExecutedIsLocked` and the refinement `CogsworthImplementsAgreement`.

`CertificatesNeverRegress` is not claimed there: a follower's `HighQC` becomes its own
`PrepareQC`, which may be older than what others have locked.
What holds is `LocksNeverRegress`: the two certificates that a replica reports and
locks never get older, and who has the token has a `HighQC` not older than any lock of
an earlier view (`LocksNeverRegressCorrect`).  The latter is not a matter of the step
that picks the `HighQC` alone: others may still lock, in earlier views, while the
leader waits with its token, but only what a quorum had voted for, some member of which
has reported to the leader since (`TokensKnowLocks`).

**Certificates (`Certificates_proofs`).**  `CertificatesTypeCorrect` is
`Spec => []TypeOK`.  `AcceptedForTargetCorrect` and
`FormedUnlessRepeatedCorrect`, for all replicas, items and numbers of signatures: what
is combined is the union of the collected signatures, and without overlap it has as
many signers as the list is long.

**Client (`Client_proofs`).**  `ClientTypeCorrect` and `AnsweredInOrderCorrect` for every
number of replicas, commands and repeats.  `AnsweredIsExecutedCorrect` is for F = 1:
responses are counted, not replicas, and a replica answers each block it executes, so
two responses from one replica would need two blocks with the same command.  Their
proposers differ, since no leader proposes what it executed, and each proposer executed
its own before any other replica did: two replicas.  That much holds for every number of
replicas (`AnsweredByTwoCorrect`).  With seven F + 1 is three, and two of them can give
the three responses.

**Operators (`Operators_proofs`).**  `QuorumsMeet`, on which agreement rests.
`PopWraps`: `Pop` deletes the queue of
`view - 100` in 64-bit words, the model in the integers, and unless views get within
100 of the last word that is the same.

**Only model-checked:** liveness (`EveryViewLeft`, `EveryViewDecided`, `OfferTaken`),
which is out of the prover's reach, like `ENABLED` and induction over data.  Of the
safety properties that passing runs check all are theorems, under the assumptions said,
but one: `NeverStuck` with the pacemaker, which does not hold in general.  The run has
it for one abandoned view; proved is `StopsOnlyWithoutBlock`, that `HandleMsg` stops for
one reason only.  `NoViewSkipped` is not claimed with the pacemaker, where views are
entered without a proposal.

## 5. Not modelled

* Keys and their generation, command line, configuration, logs, metrics: I/O.
  Generated protobuf and gorums code: only the order of calls per link is used.
* The goroutine that `Run` starts to try the queue once: it finds nothing when it
  starts on time; started late it races with `HandleMsg`.
* The capacities of `MsgChan` (1000) and of the command channel (500), and the window
  of 100 views that `Pop` keeps: far beyond what a run can reach.
* Replicas that lie: the code has none.  Its faulty replicas answer without a
  signature (`FaultNumber`), which is modelled.
* `SyncInfo` and the generic `Queue` of `queue.go`, which the program does not use.

## 6. What remains

1. Queue and store alone, over more than 100 views: what `Pop` and `Clean` leave behind.
