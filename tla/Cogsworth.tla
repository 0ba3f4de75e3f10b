------------------------------ MODULE Cogsworth ------------------------------
(***************************************************************************)
(* consensus/basic_with_cogsworth.go and consensus/pacemaker.go: HotStuff  *)
(* with the Cogsworth pacemaker.  A replica that leaves a view, because    *)
(* its block is decided or its timeout fires, wishes for the next one.     *)
(* The leader of that view answers F + 1 wishes with a timeout             *)
(* certificate, a quorum of votes for the certificate with a new-view      *)
(* message, and proposes.                                                  *)
(*                                                                         *)
(* Certificates about views are identified by the view: the signatures in  *)
(* them are always those that the leader counted.                          *)
(***************************************************************************)
EXTENDS HotStuffImpl

VARIABLES
    wishes,             \* wishNextViewTmp: <<view, replica>>
    wishFinished,       \* wishFinishedTmp: the views with a timeout certificate
    timeoutVotes,       \* verifiedTimeoutVotes: <<view, replica>>
    timeoutVoteFinished \* timeoutVoteFinishedTmp: the views that are changed

\* In this module highQCTmp keeps timeout votes of all views.
pacemakerVars == <<wishes, wishFinished, timeoutVotes, timeoutVoteFinished>>
cogsworthVars == <<vars, pacemakerVars>>

TimeoutQuorumSize == F + 1

WishMsg == [type : {"WishNextView"}, view : View, from : Replica]
TimeoutMsg == [type : {"Timeout"}, view : View]
TimeoutVoteMsg == [type : {"TimeoutVote"}, view : View, from : Replica,
                   qc : QuorumCert]
ViewChangedMsg == [type : {"NewView"}, view : View]
CogsworthMsg ==
    VoteMsg \cup LeaderMsg \cup WishMsg \cup TimeoutMsg \cup TimeoutVoteMsg
    \cup ViewChangedMsg

\* Mutants: a wish that does not say whose it is, one for the view that is left,
\* a vote that reports the lock and not what was prepared, and one that says the
\* view that is left.
WishFrom_Anonymous(r, v) ==
    [type |-> "WishNextView", view |-> v, from |-> GetLeaderByView(v)]

WishFrom_Behind(r, v) == [type |-> "WishNextView", view |-> v - 1, from |-> r]

TimeoutVoteFrom_Locked(r, v) ==
    [type |-> "TimeoutVote", view |-> v, from |-> r, qc |-> preCommitQC[r]]

TimeoutVoteFrom_Behind(r, v) ==
    [type |-> "TimeoutVote", view |-> v - 1, from |-> r, qc |-> prepareQC[r]]

WishFrom(r, v) == [type |-> "WishNextView", view |-> v, from |-> r]

TimeoutVoteFrom(r, v) ==
    [type |-> "TimeoutVote", view |-> v, from |-> r, qc |-> prepareQC[r]]

OfView(pairs, v) == {p \in pairs : p[1] = v}

-----------------------------------------------------------------------------
(* View change. *)

\* processNewView for a message of view v, with the timeout votes in tmp.  The
\* leader looks for the block of the HighQC it had, which it sends along, and
\* panics without it; then it offers the token.
ProcessNewView(r, v, tmp, n) ==
    IF Leader(r) = r /\ ~Has(blockChain[r], highQC[r].hash)
    THEN /\ status' = [status EXCEPT ![r] = "panicked"]
         /\ net' = n
         /\ UNCHANGED <<highQC, highQCTmp, votes, viewChanged, holding, timer,
                        timeoutVoteFinished>>
    ELSE /\ net' = IF Leader(r) = r
                   THEN Multicast(n, r, [type |-> "NewView", view |-> v])
                   ELSE n
         /\ \E qc \in HighestQCs(prepareQC[r],
                                 {m.qc : m \in QueuedFor(tmp, view[r])}) :
                highQC' = [highQC EXCEPT ![r] = qc]
         /\ highQCTmp' = [highQCTmp EXCEPT ![r] = tmp \ QueuedFor(tmp, view[r])]
         /\ votes' = [votes EXCEPT ![r] = {}]
         /\ viewChanged' = [viewChanged EXCEPT ![r] = TRUE]
         /\ timer' = [timer EXCEPT ![r] = FALSE]
         /\ timeoutVoteFinished' = [timeoutVoteFinished EXCEPT ![r] = @ \cup {view[r]}]
         /\ holding' = [holding EXCEPT ![r] = @ \/ Leader(r) = r]
         /\ status' = IF Leader(r) = r /\ holding[r]
                      THEN [status EXCEPT ![r] = "blocked"]
                      ELSE status

\* Mutant: the leader of the next view does not wish for it itself.
WishToAdvance_Unwished(r, n, q, vs, hqc) ==
    LET next == view[r] + 1
    IN  /\ view' = [view EXCEPT ![r] = next]
        /\ timer' = [timer EXCEPT ![r] = TRUE]
        /\ highQC' = [highQC EXCEPT ![r] = hqc]
        /\ votes' = [votes EXCEPT ![r] = vs]
        /\ viewChanged' = [viewChanged EXCEPT ![r] = FALSE]
        /\ msgQueue' = [msgQueue EXCEPT ![r] = q]
        /\ net' = IF GetLeaderByView(next) # r
                  THEN Unicast(n, r, GetLeaderByView(next), WishFrom(r, next))
                  ELSE n
        /\ UNCHANGED <<highQCTmp, holding, status, pacemakerVars>>

\* WishToAdvance: n is the network so far, q the queue, vs and hqc the votes
\* and the HighQC that the caller leaves.  The leader of the next view counts
\* its own wish at once; it is the first for that view (see OwnWishFirst).
WishToAdvance(r, n, q, vs, hqc) ==
    LET next == view[r] + 1
    IN  /\ view' = [view EXCEPT ![r] = next]
        /\ timer' = [timer EXCEPT ![r] = TRUE]
        /\ highQC' = [highQC EXCEPT ![r] = hqc]
        /\ votes' = [votes EXCEPT ![r] = vs]
        /\ viewChanged' = [viewChanged EXCEPT ![r] = FALSE]
        /\ msgQueue' = [msgQueue EXCEPT ![r] = q]
        /\ \/ /\ GetLeaderByView(next) # r
              /\ net' = Unicast(n, r, GetLeaderByView(next), WishFrom(r, next))
              /\ UNCHANGED wishes
           \/ /\ GetLeaderByView(next) = r
              /\ wishes' = [wishes EXCEPT ![r] = @ \cup {<<next, r>>}]
              /\ net' = n
        /\ UNCHANGED <<highQCTmp, holding, status, wishFinished, timeoutVotes,
                       timeoutVoteFinished>>

-----------------------------------------------------------------------------
(* The handlers of the decision and of the view change. *)

OnReceiveCommitVote(r, m, n, q) ==
    \/ /\ ~IsFresh(r, m)
       /\ Ignore(r, n, q)
       /\ UNCHANGED pacemakerVars
    \/ /\ IsFresh(r, m)
       /\ ~HasQuorum(r, m)
       /\ StoreVote(r, m, n, q)
       /\ UNCHANGED pacemakerVars
    \/ /\ IsFresh(r, m)
       /\ HasQuorum(r, m)
       /\ FinishVotes(r, m)
       /\ Execute(r, m.block)
       /\ WishToAdvance(r,
                        Multicast(n, r, PhaseMsg("Decide", view[r], m.block,
                                                 CreateQuorumCert(m.block))),
                        q, LeftVotes(r, m), CreateQuorumCert(m.block))
       /\ UNCHANGED <<prepareQC, preCommitQC>>

OnReceiveDecide(r, m, n, q) ==
    IF AcceptQC(r, m)
    THEN /\ Execute(r, m.block)
         /\ WishToAdvance(r, n, q, votes[r], m.qc)
         /\ UNCHANGED <<prepareQC, preCommitQC, finishedVotes>>
    ELSE /\ Ignore(r, n, q)
         /\ UNCHANGED pacemakerVars

\* The F + 1st wish makes the timeout certificate, which the leader multicasts
\* and votes for itself; no other vote for it can be there (see OwnVoteFirst).
OnReceiveWishNextView(r, m, n, q) ==
    LET counted == wishes[r] \cup {<<m.view, m.from>>}
        enough == Cardinality(OfView(counted, m.view)) >= TimeoutQuorumSize
    IN  /\ \/ /\ m.view \in wishFinished[r]
              /\ net' = n
              /\ UNCHANGED <<timer, highQCTmp, pacemakerVars>>
           \/ /\ m.view \notin wishFinished[r] /\ ~enough
              /\ timer' = [timer EXCEPT ![r] = TRUE]
              /\ wishes' = [wishes EXCEPT ![r] = counted]
              /\ net' = n
              /\ UNCHANGED <<highQCTmp, wishFinished, timeoutVotes,
                             timeoutVoteFinished>>
           \/ /\ m.view \notin wishFinished[r] /\ enough
              /\ timer' = [timer EXCEPT ![r] = TRUE]
              /\ net' = Multicast(n, r, [type |-> "Timeout", view |-> m.view])
              /\ wishes' = [wishes EXCEPT ![r] = counted \ OfView(counted, m.view)]
              /\ wishFinished' = [wishFinished EXCEPT ![r] = @ \cup {m.view}]
              /\ timeoutVotes' = [timeoutVotes EXCEPT ![r] = @ \cup {<<m.view, r>>}]
              /\ highQCTmp' = [highQCTmp EXCEPT
                                 ![r] = @ \cup {TimeoutVoteFrom(r, m.view)}]
              /\ UNCHANGED timeoutVoteFinished
        /\ msgQueue' = [msgQueue EXCEPT ![r] = q]
        /\ UNCHANGED <<prepareQC, preCommitQC, leaderVars, view, highQC,
                       viewChanged, holding, status, chainVars>>

\* Mutant: the vote goes to the leader of the view after.
OnReceiveTimeout_Ahead(r, m, n, q) ==
    /\ net' = Unicast(n, r, GetLeaderByView(view[r] + 1), TimeoutVoteFrom(r, m.view))
    /\ msgQueue' = [msgQueue EXCEPT ![r] = q]
    /\ UNCHANGED <<prepareQC, preCommitQC, timer, leaderVars, viewVars,
                   chainVars, pacemakerVars>>

\* The certificate is not compared with the view of the replica, and the vote
\* goes to the leader of the view it is in.
OnReceiveTimeout(r, m, n, q) ==
    /\ net' = Unicast(n, r, Leader(r), TimeoutVoteFrom(r, m.view))
    /\ msgQueue' = [msgQueue EXCEPT ![r] = q]
    /\ UNCHANGED <<prepareQC, preCommitQC, timer, leaderVars, viewVars,
                   chainVars, pacemakerVars>>

OnReceiveTimeoutVote(r, m, n, q) ==
    LET counted == timeoutVotes[r] \cup {<<m.view, m.from>>}
        tmp == highQCTmp[r] \cup {m}
        enough == Cardinality(OfView(counted, m.view)) >= QuorumSize
    IN  /\ \/ /\ m.view \in timeoutVoteFinished[r]
              /\ net' = n
              /\ UNCHANGED <<timer, votes, highQC, highQCTmp, viewChanged,
                             holding, status, timeoutVotes, timeoutVoteFinished>>
           \/ /\ m.view \notin timeoutVoteFinished[r] /\ ~enough
              /\ timer' = [timer EXCEPT ![r] = TRUE]
              /\ timeoutVotes' = [timeoutVotes EXCEPT ![r] = counted]
              /\ highQCTmp' = [highQCTmp EXCEPT ![r] = tmp]
              /\ net' = n
              /\ UNCHANGED <<votes, highQC, viewChanged, holding, status,
                             timeoutVoteFinished>>
           \/ /\ m.view \notin timeoutVoteFinished[r] /\ enough
              /\ ProcessNewView(r, m.view, tmp, n)
              /\ timeoutVotes' = [timeoutVotes EXCEPT
                                    ![r] = counted \ OfView(counted, m.view)]
        /\ msgQueue' = [msgQueue EXCEPT ![r] = q]
        /\ UNCHANGED <<prepareQC, preCommitQC, finishedVotes, view, chainVars,
                       wishes, wishFinished>>

OnReceiveNewView(r, m, n, q) ==
    /\ ProcessNewView(r, m.view, highQCTmp[r], n)
    /\ msgQueue' = [msgQueue EXCEPT ![r] = q]
    /\ UNCHANGED <<prepareQC, preCommitQC, finishedVotes, view, chainVars,
                   wishes, wishFinished, timeoutVotes>>

OnReceivePhaseMsg(r, m, n, q) ==
    \/ m.type = "Prepare" /\ OnReceivePrepare(r, m, n, q)
    \/ m.type = "PrepareVote" /\ OnReceivePrepareVote(r, m, n, q)
    \/ m.type = "PreCommit" /\ OnReceivePreCommit(r, m, n, q)
    \/ m.type = "PreCommitVote" /\ OnReceivePreCommitVote(r, m, n, q)
    \/ m.type = "Commit" /\ OnReceiveCommit(r, m, n, q)

Dispatch(r, m, n, q) ==
    \/ m.type = "WishNextView" /\ OnReceiveWishNextView(r, m, n, q)
    \/ m.type = "Timeout" /\ OnReceiveTimeout(r, m, n, q)
    \/ m.type = "TimeoutVote" /\ OnReceiveTimeoutVote(r, m, n, q)
    \/ m.type = "NewView" /\ OnReceiveNewView(r, m, n, q)
    \/ OnReceivePhaseMsg(r, m, n, q) /\ UNCHANGED pacemakerVars
    \/ m.type = "CommitVote" /\ OnReceiveCommitVote(r, m, n, q)
    \/ m.type = "Decide" /\ OnReceiveDecide(r, m, n, q)

-----------------------------------------------------------------------------
(* HandleMsg and OnBeat. *)

\* A message of another view, or one that waits while the queue is tried.
ReceiveAside(r, s) ==
    /\ ReceiveFuture(r, s) \/ ReceiveStale(r, s) \/ HoldCurrent(r, s)
    /\ UNCHANGED pacemakerVars

\* Mutant: a message of an earlier view may be handled as well.
ReceiveCurrent_OrStale(r, s) ==
    LET m == Head(net[s][r])
    IN  /\ CanReceive(r, s)
        /\ m.view <= view[r]
        /\ ~Pending(msgQueue[r], view[r])
        /\ Dispatch(r, m, Taken(r, s), msgQueue[r])
        /\ UNCHANGED <<requestVars, handVars, lost>>

ReceiveCurrent(r, s) ==
    LET m == Head(net[s][r])
    IN  /\ CanReceive(r, s)
        /\ m.view = view[r]
        /\ ~Pending(msgQueue[r], view[r])
        /\ Dispatch(r, m, Taken(r, s), msgQueue[r])
        /\ UNCHANGED <<requestVars, handVars, lost>>

Receive(r, s) == ReceiveAside(r, s) \/ ReceiveCurrent(r, s)

\* One round of ProcessCurrentViewQueue.  It ends after one message, except
\* that wishes are taken until none is left and that after a decision the
\* queue of the new view is tried.  Timeout votes, which are taken together
\* too, never wait in the queue (see OwnVoteFirst).
Chase(r) ==
    /\ chasing[r] /\ status[r] = "up"
    /\ \E m \in Last(msgQueue[r], view[r]) :
          /\ Dispatch(r, m, net, Pop(msgQueue[r], view[r], m))
          /\ chasing' = [chasing EXCEPT
                           ![r] = /\ m.type \in {"WishNextView", "Decide"}
                                  /\ Pending(msgQueue'[r], view'[r])]
    /\ UNCHANGED <<requestVars, hand, lost>>

HandleHeld(r) ==
    /\ ~chasing[r] /\ status[r] = "up"
    /\ \E m \in hand[r] : Dispatch(r, m, net, msgQueue[r])
    /\ hand' = [hand EXCEPT ![r] = {}]
    /\ UNCHANGED <<requestVars, chasing, lost>>

\* The timeout fires.  The queue of the next view is not tried.
Timeout(r) ==
    /\ Idle(r) /\ timer[r]
    /\ <<r, view[r]>> \in MayTimeOut
    /\ WishToAdvance(r, net, msgQueue[r], votes[r], highQC[r])
    /\ UNCHANGED <<prepareQC, preCommitQC, finishedVotes, chainVars,
                   requestVars, handVars, lost>>

OnBeat(r) == HandleReq(r) /\ UNCHANGED pacemakerVars

-----------------------------------------------------------------------------

CogsworthInit ==
    /\ Init
    /\ wishes = [r \in Replica |-> {}]
    /\ wishFinished = [r \in Replica |-> {}]
    /\ timeoutVotes = [r \in Replica |-> {}]
    /\ timeoutVoteFinished = [r \in Replica |-> {}]

HandleMsg(r) ==
    \/ \E s \in Replica : Receive(r, s)
    \/ Chase(r)
    \/ HandleHeld(r)
    \/ Timeout(r)

CogsworthNext ==
    \E r \in Replica :
        \/ HandleMsg(r)
        \/ OnBeat(r)
        \/ \E s \in Replica : Lose(r, s) /\ UNCHANGED pacemakerVars

CogsworthSpec == CogsworthInit /\ [][CogsworthNext]_cogsworthVars

-----------------------------------------------------------------------------
(* Properties. *)

CogsworthTypeOK ==
    /\ view \in [Replica -> View]
    /\ {prepareQC, preCommitQC, highQC} \subseteq [Replica -> QuorumCert]
    /\ votes \in [Replica -> SUBSET VoteRecord]
    /\ finishedVotes \in [Replica -> SUBSET (VoteType \X Hash)]
    /\ highQCTmp \in [Replica -> SUBSET TimeoutVoteMsg]
    /\ {blockChain, executed} \subseteq [Replica -> SUBSET Block]
    /\ {timer, holding, chasing, viewChanged} \subseteq [Replica -> BOOLEAN]
    /\ status \in [Replica -> {"up", "panicked", "blocked"}]
    /\ {hand, msgQueue} \subseteq [Replica -> SUBSET CogsworthMsg]
    /\ net \in [Replica -> [Replica -> Seq(CogsworthMsg)]]
    /\ clock \in [Replica -> Nat] /\ lost \in Nat
    /\ proposed \in SUBSET Block
    /\ {wishes, timeoutVotes} \subseteq [Replica -> SUBSET (View \X Replica)]
    /\ {wishFinished, timeoutVoteFinished} \subseteq [Replica -> SUBSET View]

\* A wish of another replica is counted only by a leader that is in the view
\* wished for and has counted its own: so the certificate is never formed while
\* WishToAdvance holds the mutex.
OwnWishFirst ==
    \A r \in Replica : \A p \in wishes[r] :
        p[1] = view[r] => <<view[r], r>> \in wishes[r]

\* A vote for a timeout certificate is counted, or waits in a queue, only where
\* the leader has cast its own.
OwnVoteFirst ==
    \A r \in Replica :
        /\ \A m \in msgQueue[r] : m.type # "TimeoutVote"
        /\ \A p \in timeoutVotes[r] :
              p[1] \in wishFinished[r] /\ <<p[1], r>> \in timeoutVotes[r]

\* A leader changes to its view on the reports of a quorum: the PrepareQC that
\* came with a vote for the timeout certificate is kept, in another list, as long
\* as the vote, whatever other views are changed in between; and a view that is
\* through with it is marked as changed.
VotesReported ==
    \A r \in Replica :
        /\ \A p \in timeoutVotes[r] :
              \E m \in highQCTmp[r] : m.view = p[1] /\ m.from = p[2]
        /\ Leader(r) = r /\ view[r] \in timeoutVoteFinished[r] => viewChanged[r]

\* What a replica prepared and locked never gives way to something older.  HighQC
\* does: processNewView overwrites it with the PrepareQC of each follower.  But what
\* HandleReq takes up when it gets the token is not older than what any replica has
\* locked in an earlier view, or locks in it afterwards.
LocksNeverRegress ==
    [][\A r \in Replica :
            /\ prepareQC'[r].view >= prepareQC[r].view
            /\ preCommitQC'[r].view >= preCommitQC[r].view
            /\ holding'[r] =>
                  \A s \in Replica : preCommitQC'[s].view < view'[r] =>
                      highQC'[r].view >= preCommitQC'[s].view]_cogsworthVars

\* A vote or a wish still under way is not counted already: so no list has two
\* signatures of one replica, which Combine would refuse.  Where votes for the
\* timeout certificate are combined the error is dropped.
WishesCountedOnce ==
    \A r \in Replica : \A m \in InTransit(r) :
        /\ m.type \in VoteType => OwnVote(m.from, m.type, m.block) \notin votes[r]
        /\ m.type = "WishNextView" => <<m.view, m.from>> \notin wishes[r]
        /\ m.type = "TimeoutVote" => <<m.view, m.from>> \notin timeoutVotes[r]

\* When nothing is under way any more, a replica that has left the first view
\* waits for its timeout, or with the leader of its view for a request.
NobodyForgotten ==
    (\A r \in Replica : Idle(r) /\ \A s \in Replica : net[s][r] = <<>>) =>
        \A r \in Replica :
            \/ view[r] = 1
            \/ timer[r]
            \/ holding[Leader(r)] /\ view[Leader(r)] = view[r]

-----------------------------------------------------------------------------
(* The inductive invariant behind OwnWishFirst, OwnVoteFirst,               *)
(* TokenDiscipline and OneProposalPerView.                                  *)

ViewChangeType == {"Timeout", "NewView"}

\* Could m be a message from s to r?  Wishes and votes name their sender and go
\* to the leader of their view, the rest comes from there.  No vote for a
\* timeout certificate is older than the certificate.
IsSent(s, r, m) ==
    /\ s # r
    /\ \/ /\ m.type = "WishNextView"
          /\ m.from = s /\ GetLeaderByView(m.view) = r
          /\ 2 <= m.view /\ m.view <= view[s]
       \/ /\ m.type \in ViewChangeType
          /\ GetLeaderByView(m.view) = s
          /\ m.view \in wishFinished[s]
       \/ /\ m.type = "TimeoutVote"
          /\ m.from = s /\ GetLeaderByView(m.view) = r
          /\ m.view \in wishFinished[r]
       \/ /\ m.type \in VoteType
          /\ m.from = s /\ GetLeaderByView(m.view) = r
          /\ m.block \in proposed /\ m.block.view = m.view
       \/ /\ m.type \in LeaderType
          /\ GetLeaderByView(m.view) = s
          /\ m.block \in proposed /\ m.block.view = m.view
          /\ m.type = "Decide" => m.view < view[s]

MessagesSent ==
    \A r \in Replica :
        /\ \A s \in Replica : \A m \in OnTheWay(r, s) : IsSent(s, r, m)
        /\ \A m \in msgQueue[r] \cup hand[r] : \E s \in Replica : IsSent(s, r, m)

\* A leader that has decided the block of a view is through with changing to
\* that view: on a link, and so in a queue, its decision comes last.
Overtakes(d, m) ==
    d.type = "Decide" /\ m.type \in ViewChangeType /\ m.view = d.view

DecideIsLast ==
    \A r \in Replica :
        /\ \A s \in Replica : \A i, j \in DOMAIN net[s][r] :
              i < j => ~Overtakes(net[s][r][i], net[s][r][j])
        /\ \A d \in msgQueue[r] : \A s \in Replica :
              \A m \in OnTheWay(r, s) \cup hand[r] : ~Overtakes(d, m)

\* These handlers do not compare the view of the message with the one of the
\* replica; what HandleMsg holds while the queue is tried may be late for them.
HeldIsCurrent ==
    \A r \in Replica : \A m \in hand[r] :
        GetLeaderByView(m.view) = r \/ m.type \in ViewChangeType =>
            m.view = view[r]

\* What a replica keeps as a leader is about views it leads and has reached.
LeadsWhatItCounts ==
    \A r \in Replica :
        /\ \A p \in wishes[r] :
              /\ GetLeaderByView(p[1]) = r
              /\ 2 <= p[1] /\ p[1] <= view[r]
              /\ p[1] \notin wishFinished[r]
        /\ \A v \in wishFinished[r] :
              GetLeaderByView(v) = r /\ 2 <= v /\ v <= view[r]
        /\ \A v \in timeoutVoteFinished[r] :
              GetLeaderByView(v) = r => v \in wishFinished[r]

\* A leader's own wish and vote are there until enough are.
CountsItself ==
    \A r \in Replica :
        /\ Leader(r) = r /\ view[r] >= 2 /\ view[r] \notin wishFinished[r] =>
              <<view[r], r>> \in wishes[r]
        /\ status[r] = "up" =>
              \A v \in wishFinished[r] \ timeoutVoteFinished[r] :
                  <<v, r>> \in timeoutVotes[r]

\* In a view that is still changed to, the leader has neither token nor block.
TokenAfterViewChange ==
    \A r \in Replica :
        Leader(r) = r /\ view[r] >= 2 /\ view[r] \notin timeoutVoteFinished[r] =>
            ~holding[r] /\ ~HasProposal(view[r])

\* The only way to stop: the leader lacks the block that its HighQC is about.
StopsOnlyWithoutBlock ==
    \A r \in Replica : status[r] # "up" =>
        /\ status[r] = "panicked"
        /\ Leader(r) = r
        /\ ~Has(blockChain[r], highQC[r].hash)

CogsworthInv ==
    /\ ViewsPositive
    /\ ProposedByLeader
    /\ MessagesSent
    /\ DecideIsLast
    /\ HeldIsCurrent
    /\ NoVoteQueued
    /\ LeadsWhatItCounts
    /\ CountsItself
    /\ OwnWishFirst
    /\ OwnVoteFirst
    /\ TokenAfterViewChange
    /\ TokenDiscipline
    /\ OneProposalPerView
    /\ StopsOnlyWithoutBlock
=============================================================================
