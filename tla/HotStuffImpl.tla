---------------------------- MODULE HotStuffImpl ----------------------------
(***************************************************************************)
(* consensus/consensus.go, the part of a replica that basic HotStuff and   *)
(* HotStuff with the Cogsworth pacemaker have in common, and what basic.go *)
(* and basic_with_cogsworth.go do alike.  A replica runs two goroutines:   *)
(*                                                                         *)
(*  - HandleMsg takes messages and timeouts one at a time.  A message of a *)
(*    later view is queued, one of an earlier view dropped, and before one *)
(*    of the current view is handled the queue is asked for the current    *)
(*    view's most advanced message (ProcessCurrentViewQueue).              *)
(*  - HandleReq (OnBeat in the pacemaker) waits for the token Ready, which *)
(*    a finished view change sends, takes a request and proposes it.       *)
(*                                                                         *)
(* A handler is one step: apart from HandleReq it runs alone, and the two  *)
(* share only what the mutex protects (see TokenDiscipline).               *)
(***************************************************************************)
EXTENDS BlockChain, MessageQueue, Sequences, FiniteSets

CONSTANTS
    MaxView,    \* bound: clients send no request to the leaders of later views
    MayTimeOut, \* bound: the <<replica, view>> in which a timeout may fire
    MaxLost     \* bound on the messages that links lose

ASSUME MaxViewAssumption == MaxView \in Nat \ {0}
ASSUME MaxLostAssumption == MaxLost \in Nat
ASSUME MayTimeOutAssumption == MayTimeOut \subseteq Replica \X View

VARIABLES
    view,          \* CurrentView
    prepareQC,     \* PrepareQC
    preCommitQC,   \* PreCommitQC, which is LockedQC()
    highQC,        \* HighQC
    votes,         \* verified{Prepare,PreCommit,Commit}Votes
    finishedVotes, \* finished{Prepare,PreCommit,Commit}Votes
    highQCTmp,     \* highQCTmp[CurrentView]
    viewChanged,   \* finishedViewChange[CurrentView]
    blockChain,    \* BlockChain
    executed,      \* blocks executed; CmdCache.finished holds their commands
    timer,         \* is the timeout armed?
    holding,       \* has HandleReq taken the token Ready and not used it?
    clock,         \* a later time than that of any block of the replica
    status,        \* what became of HandleMsg
    hand,          \* the message HandleMsg took and has not handled yet
    chasing,       \* is HandleMsg in ProcessCurrentViewQueue?
    msgQueue,      \* MsgQueue
    net,           \* net[s][r]: the link from s to r with r's share of MsgChan
    proposed,      \* every block proposed so far
    lost           \* how many messages were lost

leaderVars == <<votes, finishedVotes>>
viewVars == <<view, highQC, highQCTmp, viewChanged, holding, status>>
chainVars == <<blockChain, executed>>
requestVars == <<clock, proposed>>
handVars == <<hand, chasing>>
vars == <<prepareQC, preCommitQC, timer, leaderVars, viewVars, chainVars,
          requestVars, handVars, msgQueue, net, lost>>

Leader(r) == GetLeaderByView(view[r])

\* HandleMsg waits in its select.
Idle(r) == status[r] = "up" /\ hand[r] = {} /\ ~chasing[r]

\* Is there work for ProcessCurrentViewQueue in queue q of a replica in view v?
Pending(q, v) == QueuedFor(q, v) # {}

-----------------------------------------------------------------------------
(* Sending.  A replica is not among the nodes it sends to. *)

Unicast(n, s, d, m) == [n EXCEPT ![s][d] = Append(@, m)]

Multicast(n, s, m) ==
    [n EXCEPT ![s] = [d \in Replica |-> IF d = s THEN @[d] ELSE Append(@[d], m)]]

PhaseMsg(type, v, b, qc) == [type |-> type, view |-> v, block |-> b, qc |-> qc]

\* Mutants: a vote packed as a message of the leader, and one that does not
\* say who cast it.
VoteFrom_AsPrepare(r, type, b) ==
    [type |-> "Prepare", view |-> view[r], from |-> r, block |-> b,
     signed |-> ~IsFaultNode(r)]

VoteFrom_Anonymous(r, type, b) ==
    [type |-> type, view |-> view[r], from |-> Leader(r), block |-> b,
     signed |-> ~IsFaultNode(r)]

VoteFrom(r, type, b) ==
    [type |-> type, view |-> view[r], from |-> r, block |-> b,
     signed |-> ~IsFaultNode(r)]

-----------------------------------------------------------------------------
(* The certificate that a view change picks. *)

\* Mutants: processNewView ignores what it received, or compares nothing.
HighestQCs_OwnOnly(own, qcs) == {own}
HighestQCs_AnyOne(own, qcs) == {own} \cup qcs

\* The QC that processNewView picks: its own unless a later one was received.
HighestQCs(own, qcs) ==
    LET later == {qc \in qcs : qc.view > own.view}
    IN  IF later = {}
        THEN {own}
        ELSE {qc \in later : \A x \in later : x.view <= qc.view}

-----------------------------------------------------------------------------
(* The handlers of the three phases.  Each handles message m in replica r; n *)
(* is the network and q the queue of r after m was taken from them.          *)

MatchingMsg(r, m) == m.view = view[r]

\* Early return of a handler.
Ignore(r, n, q) ==
    /\ net' = n
    /\ msgQueue' = [msgQueue EXCEPT ![r] = q]
    /\ UNCHANGED <<prepareQC, preCommitQC, timer, leaderVars, viewVars,
                   chainVars>>

SafeNode(r, b) ==
    LET locked == preCommitQC[r]
    IN  \/ b.view > locked.view
        \/ /\ Has(blockChain[r], locked.hash)
           /\ Extends(blockChain[r], b, Get(blockChain[r], locked.hash))

\* Mutant: the timeout is not armed.
Vote_Untimed(r, type, b, n, q) ==
    /\ net' = Unicast(n, r, Leader(r), VoteFrom(r, type, b))
    /\ msgQueue' = [msgQueue EXCEPT ![r] = q]
    /\ UNCHANGED <<timer, leaderVars, viewVars, chainVars>>

\* A replica answers the leader of its view with a vote and arms the timeout.
Vote(r, type, b, n, q) ==
    /\ net' = Unicast(n, r, Leader(r), VoteFrom(r, type, b))
    /\ msgQueue' = [msgQueue EXCEPT ![r] = q]
    /\ timer' = [timer EXCEPT ![r] = TRUE]
    /\ UNCHANGED <<leaderVars, viewVars, chainVars>>

OnReceivePrepare(r, m, n, q) ==
    IF MatchingMsg(r, m) /\ Leader(r) = m.block.proposer /\ SafeNode(r, m.block)
    THEN /\ Vote(r, "PrepareVote", m.block, n, q)
         /\ UNCHANGED <<prepareQC, preCommitQC>>
    ELSE Ignore(r, n, q)

\* The checks that OnReceivePreCommit, OnReceiveCommit and OnReceiveDecide make.
AcceptQC(r, m) ==
    /\ MatchingMsg(r, m)
    /\ VerifyQuorumCert(m.block, m.qc)
    /\ Leader(r) = m.block.proposer

OnReceivePreCommit(r, m, n, q) ==
    IF AcceptQC(r, m)
    THEN /\ Vote(r, "PreCommitVote", m.block, n, q)
         /\ prepareQC' = [prepareQC EXCEPT ![r] = m.qc]
         /\ UNCHANGED preCommitQC
    ELSE Ignore(r, n, q)

\* Mutant: the certificate ends up in PrepareQC, and nothing is locked.
OnReceiveCommit_Unlocked(r, m, n, q) ==
    IF AcceptQC(r, m)
    THEN /\ Vote(r, "CommitVote", m.block, n, q)
         /\ prepareQC' = [prepareQC EXCEPT ![r] = m.qc]
         /\ UNCHANGED preCommitQC
    ELSE Ignore(r, n, q)

OnReceiveCommit(r, m, n, q) ==
    IF AcceptQC(r, m)
    THEN /\ Vote(r, "CommitVote", m.block, n, q)
         /\ preCommitQC' = [preCommitQC EXCEPT ![r] = m.qc]
         /\ UNCHANGED prepareQC
    ELSE Ignore(r, n, q)

VoteRecord == [type : VoteType, hash : Hash, from : Replica]
OwnVote(r, type, b) == [type |-> type, hash |-> b.hash, from |-> r]

\* Mutant: that the votes of the phase have ended is not looked up.
IsFresh_Unending(r, m) ==
    /\ MatchingMsg(r, m)
    /\ m.signed

\* Is m a vote that the leader stores?  The certificate it has formed from
\* the votes of a phase makes the later ones of that phase superfluous.
IsFresh(r, m) ==
    /\ MatchingMsg(r, m)
    /\ m.signed
    /\ <<m.type, m.block.hash>> \notin finishedVotes[r]

Counted(r, m) == votes[r] \cup {OwnVote(m.from, m.type, m.block)}

VotesLike(vs, m) == {v \in vs : v.type = m.type /\ v.hash = m.block.hash}

HasQuorum(r, m) == Cardinality(VotesLike(Counted(r, m), m)) >= QuorumSize

\* The vote is stored and no certificate formed.
StoreVote(r, m, n, q) ==
    /\ votes' = [votes EXCEPT ![r] = Counted(r, m)]
    /\ net' = n
    /\ msgQueue' = [msgQueue EXCEPT ![r] = q]
    /\ UNCHANGED <<prepareQC, preCommitQC, timer, finishedVotes, viewVars,
                   chainVars>>

FinishVotes(r, m) ==
    finishedVotes' =
        [finishedVotes EXCEPT ![r] = @ \cup {<<m.type, m.block.hash>>}]

LeftVotes(r, m) == Counted(r, m) \ VotesLike(Counted(r, m), m)

\* The leader starts the next phase: it multicasts the certificate and casts
\* its own vote, which VoteMyself stores without a message.
StartPhase(r, m, type, voteType, n, q) ==
    /\ FinishVotes(r, m)
    /\ votes' = [votes EXCEPT
                    ![r] = LeftVotes(r, m) \cup {OwnVote(r, voteType, m.block)}]
    /\ net' = Multicast(n, r, PhaseMsg(type, view[r], m.block,
                                       CreateQuorumCert(m.block)))
    /\ msgQueue' = [msgQueue EXCEPT ![r] = q]
    /\ timer' = [timer EXCEPT ![r] = TRUE]
    /\ UNCHANGED <<viewVars, chainVars>>

OnReceivePrepareVote(r, m, n, q) ==
    \/ /\ ~IsFresh(r, m)
       /\ Ignore(r, n, q)
    \/ /\ IsFresh(r, m)
       /\ ~HasQuorum(r, m) \/ IsFaultNode(r)
       /\ StoreVote(r, m, n, q)
    \/ /\ IsFresh(r, m)
       /\ HasQuorum(r, m) /\ ~IsFaultNode(r)
       /\ prepareQC' = [prepareQC EXCEPT ![r] = CreateQuorumCert(m.block)]
       /\ StartPhase(r, m, "PreCommit", "PreCommitVote", n, q)
       /\ UNCHANGED preCommitQC

\* This handler alone panics on a vote of another view.
Panic(r, n, q) ==
    /\ status' = [status EXCEPT ![r] = "panicked"]
    /\ net' = n
    /\ msgQueue' = [msgQueue EXCEPT ![r] = q]
    /\ UNCHANGED <<prepareQC, preCommitQC, timer, leaderVars, view, highQC,
                   highQCTmp, viewChanged, holding, chainVars>>

OnReceivePreCommitVote(r, m, n, q) ==
    \/ /\ ~IsFresh(r, m)
       /\ IF MatchingMsg(r, m) THEN Ignore(r, n, q) ELSE Panic(r, n, q)
    \/ /\ IsFresh(r, m)
       /\ ~HasQuorum(r, m)
       /\ StoreVote(r, m, n, q)
    \/ /\ IsFresh(r, m)
       /\ HasQuorum(r, m)
       /\ preCommitQC' = [preCommitQC EXCEPT ![r] = CreateQuorumCert(m.block)]
       /\ StartPhase(r, m, "Commit", "CommitVote", n, q)
       /\ UNCHANGED prepareQC

\* Store the decided block, evict an old one, execute the command.
Execute(r, b) ==
    /\ blockChain' = [blockChain EXCEPT ![r] = Clean(Store(@, b), b)]
    /\ executed' = [executed EXCEPT ![r] = @ \cup {b}]

-----------------------------------------------------------------------------
(* HandleMsg takes a message from MsgChan. *)

\* HandleMsg is in its select and the link from s has a message for r.
CanReceive(r, s) == Idle(r) /\ net[s][r] # <<>>

Taken(r, s) == [net EXCEPT ![s][r] = Tail(@)]

\* A message of a later view is queued; then the queue is tried.
ReceiveFuture(r, s) ==
    LET m == Head(net[s][r])
    IN  /\ CanReceive(r, s)
        /\ m.view > view[r]
        /\ net' = Taken(r, s)
        /\ msgQueue' = [msgQueue EXCEPT ![r] = Put(@, m)]
        /\ chasing' = [chasing EXCEPT ![r] = Pending(msgQueue[r], view[r])]
        /\ UNCHANGED <<prepareQC, preCommitQC, timer, leaderVars, viewVars,
                       chainVars, requestVars, hand, lost>>

\* A message of an earlier view is dropped; then the queue is tried.
ReceiveStale(r, s) ==
    LET m == Head(net[s][r])
    IN  /\ CanReceive(r, s)
        /\ m.view < view[r]
        /\ net' = Taken(r, s)
        /\ chasing' = [chasing EXCEPT ![r] = Pending(msgQueue[r], view[r])]
        /\ UNCHANGED <<prepareQC, preCommitQC, timer, leaderVars, viewVars,
                       chainVars, requestVars, hand, msgQueue, lost>>

\* A message of the current view is held while the queue is tried first.
HoldCurrent(r, s) ==
    LET m == Head(net[s][r])
    IN  /\ CanReceive(r, s)
        /\ m.view = view[r]
        /\ Pending(msgQueue[r], view[r])
        /\ hand' = [hand EXCEPT ![r] = {m}]
        /\ chasing' = [chasing EXCEPT ![r] = TRUE]
        /\ net' = Taken(r, s)
        /\ UNCHANGED <<prepareQC, preCommitQC, timer, leaderVars, viewVars,
                       chainVars, requestVars, msgQueue, lost>>

-----------------------------------------------------------------------------
(* HandleReq and the environment. *)

\* Mutant: finished commands are not skipped.
IsFinished_Forgotten(r, c) == FALSE

IsFinished(r, c) == \E b \in executed[r] : b.cmd = c

CreateLeaf(r, c) ==
    [hash |-> <<r, clock[r]>>, view |-> view[r], proposer |-> r, cmd |-> c,
     cert |-> highQC[r]]

\* SendPrepare.  The request is lost, and the token with it, if the replica
\* does not lead its view any more.
SendPrepare(r, c) ==
    LET b == CreateLeaf(r, c)
    IN  IF Leader(r) = r
        THEN /\ net' = Multicast(net, r, PhaseMsg("Prepare", view[r], b, highQC[r]))
             /\ votes' = [votes EXCEPT ![r] = @ \cup {OwnVote(r, "PrepareVote", b)}]
             /\ timer' = [timer EXCEPT ![r] = TRUE]
             /\ clock' = [clock EXCEPT ![r] = @ + 1]
             /\ proposed' = proposed \cup {b}
        ELSE UNCHANGED <<net, votes, timer, clock, proposed>>

\* Mutant: the token is not used up.
HandleReq_KeepingToken(r) ==
    /\ holding[r] /\ status[r] = "up"
    /\ view[r] <= MaxView
    /\ \E c \in Cmd : ~IsFinished(r, c) /\ SendPrepare(r, c)
    /\ UNCHANGED <<prepareQC, preCommitQC, finishedVotes, view, highQC,
                   highQCTmp, viewChanged, holding, status, chainVars,
                   handVars, msgQueue, lost>>

\* HandleReq with the token takes a request, skips the finished ones, and
\* waits for the next token.  Clients repeat a request until it is answered,
\* so any command may be next.
HandleReq(r) ==
    /\ holding[r] /\ status[r] = "up"
    /\ view[r] <= MaxView
    /\ \E c \in Cmd : ~IsFinished(r, c) /\ SendPrepare(r, c)
    /\ holding' = [holding EXCEPT ![r] = FALSE]
    /\ UNCHANGED <<prepareQC, preCommitQC, finishedVotes, view, highQC,
                   highQCTmp, viewChanged, status, chainVars, handVars,
                   msgQueue, lost>>

\* A link loses its next message.
Lose(r, s) ==
    /\ lost < MaxLost
    /\ net[s][r] # <<>>
    /\ net' = Taken(r, s)
    /\ lost' = lost + 1
    /\ UNCHANGED <<prepareQC, preCommitQC, timer, leaderVars, viewVars,
                   chainVars, requestVars, handVars, msgQueue>>

-----------------------------------------------------------------------------

Init ==
    /\ view = [r \in Replica |-> 1]
    /\ prepareQC = [r \in Replica |-> ZeroQC]
    /\ preCommitQC = [r \in Replica |-> GenesisQC]
    /\ highQC = [r \in Replica |-> GenesisQC]
    /\ votes = [r \in Replica |-> {}]
    /\ finishedVotes = [r \in Replica |-> {}]
    /\ highQCTmp = [r \in Replica |-> {}]
    /\ viewChanged = [r \in Replica |-> FALSE]
    /\ blockChain = [r \in Replica |-> {Genesis}]
    /\ executed = [r \in Replica |-> {}]
    /\ timer = [r \in Replica |-> FALSE]
    /\ holding = [r \in Replica |-> r = GetLeaderByView(1)]
    /\ clock = [r \in Replica |-> 2]  \* genesis has time 1
    /\ status = [r \in Replica |-> "up"]
    /\ hand = [r \in Replica |-> {}]
    /\ chasing = [r \in Replica |-> FALSE]
    /\ msgQueue = [r \in Replica |-> {}]
    /\ net = [s \in Replica |-> [r \in Replica |-> <<>>]]
    /\ proposed = {}
    /\ lost = 0

-----------------------------------------------------------------------------
(* Properties of both. *)

Chain == proposed \cup {Genesis}

HasProposal(v) == \E b \in proposed : b.view = v

\* The messages for r that are in its queue, its hands, or on their way.
OnTheWay(r, s) == {net[s][r][i] : i \in DOMAIN net[s][r]}
InTransit(r) ==
    msgQueue[r] \cup hand[r] \cup UNION {OnTheWay(r, s) : s \in Replica}

\* Agreement: of any two blocks that replicas execute, wherever, one extends
\* the other.  The code relies for it on processNewView and SafeNode.
Consistency ==
    \A r, s \in Replica : \A a \in executed[r], b \in executed[s] :
        a.view <= b.view => Extends(Chain, b, a)

\* What a replica has locked is extended by every later proposal, made before
\* or after it locked.  SafeNode compares the view of the block, not the one of
\* its certificate, with the lock, so it does not enforce this: the quorum of
\* new-view messages has to.
ProposalsExtendLocks ==
    \A r \in Replica : \A b \in proposed :
        LET locked == preCommitQC[r]
        IN  b.view > locked.view =>
                /\ b.cert.view >= locked.view
                /\ locked # GenesisQC => Extends(Chain, b, Get(Chain, locked.hash))

\* An executed block is locked by a quorum: no other quorum can miss it.
ExecutedIsLocked ==
    \A r \in Replica : \A b \in executed[r] :
        Cardinality({s \in Replica : preCommitQC[s].view >= b.view}) >= QuorumSize

\* A view has one proposal, though its leader goes through HandleReq once per
\* token and gets tokens from three places.
OneProposalPerView ==
    \A a, b \in proposed : a.view = b.view => a = b

\* HandleReq has the token only in a view that its replica leads and in which
\* it has proposed nothing.  So processNewView never waits for it to take the
\* next one, a request is never thrown away, and while HandleReq is at work no
\* handler of its replica touches what it touches without the mutex.
TokenDiscipline ==
    \A r \in Replica : holding[r] =>
        /\ Leader(r) = r
        /\ ~timer[r]
        /\ ~HasProposal(view[r])

\* HandleMsg never panics on a vote of another view, never locks the mutex it
\* holds, and never waits for HandleReq to come back for the token.
NeverStuck == \A r \in Replica : status[r] = "up"

\* What a replica prepared and locked never gives way to something older.
\* HighQC is overwritten, by processNewView with the best of a quorum of
\* PrepareQCs and by OnReceiveDecide, without a comparison with the old one; but
\* a new HighQC is never older than what any replica locked before that view.
CertificatesNeverRegress ==
    [][\A r \in Replica :
            /\ prepareQC'[r].view >= prepareQC[r].view
            /\ preCommitQC'[r].view >= preCommitQC[r].view
            /\ highQC'[r] # highQC[r] =>
                  \A s \in Replica : preCommitQC[s].view < view'[r] =>
                      highQC'[r].view >= preCommitQC[s].view]_vars

\* Only without timeouts: a command is executed in one block only.
\* A leader skips the commands that it executed, not those that others did.
ExecutedOnce ==
    \A r, s \in Replica : \A a \in executed[r], b \in executed[s] :
        a.cmd = b.cmd => a = b

\* Without timeouts the store has the last three blocks of the chain, with
\* genesis before them: what Clean evicts is never too young, and
\* nothing older stays.
StoreIsRecent ==
    \A r \in Replica : \A b \in executed[r] \cup {Genesis} :
        b \in blockChain[r] <=>
            Cardinality({x \in executed[r] : x.view > b.view}) < 3

\* A leader proposes nothing again that it executed before, so a command is
\* executed in two blocks only if the leader of the second one has missed the
\* decision of the first, and then it never learns of it.
RepeatedOnlyIfMissed ==
    \A b \in proposed : \A a \in executed[b.proposer] :
        a.view < b.view => a.cmd # b.cmd

\* The votes of a phase are collected in one list, which ends in one
\* certificate.  The votes that come late are not kept: whatever waits in a list
\* waits for a certificate that has not been formed.
NoSecondList ==
    \A r \in Replica : \A x \in votes[r] :
        <<x.type, x.hash>> \notin finishedVotes[r]

-----------------------------------------------------------------------------
(* Parts of the inductive invariants of both. *)

ViewsPositive == \A r \in Replica : view[r] >= 1

\* Blocks come from the leader of their view, who got that far.
ProposedByLeader ==
    \A b \in proposed :
        /\ b.view >= 1
        /\ b.proposer = GetLeaderByView(b.view)
        /\ b.view <= view[b.proposer]

\* A leader is in the view of the votes it gets, or past it.
NoVoteQueued == \A r \in Replica : \A m \in msgQueue[r] : m.type \notin VoteType

-----------------------------------------------------------------------------
(* Refinement: the blocks are those of Agreement, the rest is hidden. *)

Promise == INSTANCE Agreement WITH proposed <- proposed, executed <- executed

\* Every step of a replica proposes a block, executes a block, or is none of
\* the client's business.  A leader is the first to execute its block, what it
\* proposes is built on a certificate of an earlier block, never on one it made
\* up, and each replica executes in the order of the views.
ImplementsAgreement == Promise!Spec
=============================================================================
