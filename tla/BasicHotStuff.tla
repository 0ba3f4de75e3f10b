---------------------------- MODULE BasicHotStuff ----------------------------
(***************************************************************************)
(* consensus/basic.go: basic HotStuff.  A view is left when its block is   *)
(* decided or its timeout fires; a replica that enters a view tells the    *)
(* leader of the view what it prepared, and the leader proposes on top of  *)
(* the best of a quorum of these new-view messages.                        *)
(***************************************************************************)
EXTENDS HotStuffImpl

\* Mutant: the replica reports its lock, not what it prepared.
NewViewFrom_Locked(r, v) ==
    [type |-> "NewView", view |-> v, from |-> r, qc |-> preCommitQC[r]]

NewViewFrom(r, v) ==
    [type |-> "NewView", view |-> v, from |-> r, qc |-> prepareQC[r]]

-----------------------------------------------------------------------------
(* View change. *)

\* processNewView.  It ends by offering the token; if HandleReq still has the
\* one of an earlier view, HandleMsg waits there.
ProcessNewView(r, newViews) ==
    /\ \E qc \in HighestQCs(prepareQC[r], {m.qc : m \in newViews}) :
            highQC' = [highQC EXCEPT ![r] = qc]
    /\ highQCTmp' = [highQCTmp EXCEPT ![r] = {}]
    /\ votes' = [votes EXCEPT ![r] = {}]
    /\ viewChanged' = [viewChanged EXCEPT ![r] = TRUE]
    /\ holding' = [holding EXCEPT ![r] = TRUE]
    /\ status' = IF holding[r] THEN [status EXCEPT ![r] = "blocked"] ELSE status

\* The leader of a view collects new-view messages, its own among them.
AwaitNewViews(r, newViews, vs, hqc) ==
    /\ highQC' = [highQC EXCEPT ![r] = hqc]
    /\ highQCTmp' = [highQCTmp EXCEPT ![r] = newViews]
    /\ votes' = [votes EXCEPT ![r] = vs]
    /\ viewChanged' = [viewChanged EXCEPT ![r] = FALSE]
    /\ UNCHANGED <<holding, status>>

\* SendNewView in the leader of v: the messages queued for v are popped and
\* handled while the mutex is held, so any but a new-view one locks it again.
CollectNewViews(r, v, q, vs, hqc) ==
    LET own == NewViewFrom(r, v)
        queued == QueuedFor(q, v)
    IN  IF \A m \in queued : m.type = "NewView"
        THEN IF Cardinality(queued) + 1 < QuorumSize
             THEN AwaitNewViews(r, queued \cup {own}, vs, hqc)
             ELSE \E s \in SUBSET queued :
                    /\ Cardinality(s) = QuorumSize - 1
                    /\ ProcessNewView(r, s \cup {own})
        ELSE /\ status' = [status EXCEPT ![r] = "blocked"]
             /\ UNCHANGED <<highQC, highQCTmp, votes, viewChanged, holding>>

\* CurrentView becomes v, then SendNewView: n is the network so far, q the
\* queue, vs and hqc the votes and the HighQC that the caller leaves.
EnterView(r, v, n, q, vs, hqc) ==
    /\ view' = [view EXCEPT ![r] = v]
    /\ \/ /\ GetLeaderByView(v) # r
          /\ net' = Unicast(n, r, GetLeaderByView(v), NewViewFrom(r, v))
          /\ msgQueue' = [msgQueue EXCEPT ![r] = q]
          /\ AwaitNewViews(r, {}, vs, hqc)
       \/ /\ GetLeaderByView(v) = r
          /\ net' = n
          /\ msgQueue' = [msgQueue EXCEPT
                            ![r] = IF Pending(q, v) THEN PopAll(q, v) ELSE q]
          /\ CollectNewViews(r, v, q, vs, hqc)

-----------------------------------------------------------------------------
(* The handlers of the decision and of the view change. *)

OnReceiveCommitVote(r, m, n, q) ==
    \/ /\ ~IsFresh(r, m)
       /\ Ignore(r, n, q)
    \/ /\ IsFresh(r, m)
       /\ ~HasQuorum(r, m)
       /\ StoreVote(r, m, n, q)
    \/ /\ IsFresh(r, m)
       /\ HasQuorum(r, m)
       /\ FinishVotes(r, m)
       /\ Execute(r, m.block)
       /\ EnterView(r, view[r] + 1,
                    Multicast(n, r, PhaseMsg("Decide", view[r], m.block,
                                             CreateQuorumCert(m.block))),
                    q, LeftVotes(r, m), highQC[r])
       /\ timer' = [timer EXCEPT ![r] = FALSE]
       /\ UNCHANGED <<prepareQC, preCommitQC>>

OnReceiveDecide(r, m, n, q) ==
    IF AcceptQC(r, m)
    THEN /\ Execute(r, m.block)
         /\ EnterView(r, m.view + 1, n, q, votes[r], m.qc)
         /\ timer' = [timer EXCEPT ![r] = FALSE]
         /\ UNCHANGED <<prepareQC, preCommitQC, finishedVotes>>
    ELSE Ignore(r, n, q)

\* The handler looks at CurrentView only, never at the view of the message.
OnReceiveNewView(r, m, n, q) ==
    IF viewChanged[r]
    THEN Ignore(r, n, q)
    ELSE LET newViews == highQCTmp[r] \cup {m}
         IN  /\ IF Cardinality(newViews) < QuorumSize
                THEN AwaitNewViews(r, newViews, votes[r], highQC[r])
                ELSE ProcessNewView(r, newViews)
             /\ net' = n
             /\ msgQueue' = [msgQueue EXCEPT ![r] = q]
             /\ UNCHANGED <<prepareQC, preCommitQC, timer, finishedVotes, view,
                            chainVars>>

Dispatch(r, m, n, q) ==
    \/ m.type = "Prepare" /\ OnReceivePrepare(r, m, n, q)
    \/ m.type = "PrepareVote" /\ OnReceivePrepareVote(r, m, n, q)
    \/ m.type = "PreCommit" /\ OnReceivePreCommit(r, m, n, q)
    \/ m.type = "PreCommitVote" /\ OnReceivePreCommitVote(r, m, n, q)
    \/ m.type = "Commit" /\ OnReceiveCommit(r, m, n, q)
    \/ m.type = "CommitVote" /\ OnReceiveCommitVote(r, m, n, q)
    \/ m.type = "Decide" /\ OnReceiveDecide(r, m, n, q)
    \/ m.type = "NewView" /\ OnReceiveNewView(r, m, n, q)

-----------------------------------------------------------------------------
(* HandleMsg. *)

\* Mutant: a message of an earlier view may be handled as well.
ReceiveCurrent_OrStale(r, s) ==
    LET m == Head(net[s][r])
    IN  /\ CanReceive(r, s)
        /\ m.view <= view[r]
        /\ ~Pending(msgQueue[r], view[r])
        /\ Dispatch(r, m, Taken(r, s), msgQueue[r])
        /\ UNCHANGED <<requestVars, handVars, lost>>

\* A message of the current view is handled at once if nothing is queued for
\* it.
ReceiveCurrent(r, s) ==
    LET m == Head(net[s][r])
    IN  /\ CanReceive(r, s)
        /\ m.view = view[r]
        /\ ~Pending(msgQueue[r], view[r])
        /\ Dispatch(r, m, Taken(r, s), msgQueue[r])
        /\ UNCHANGED <<requestVars, handVars, lost>>

\* One round of ProcessCurrentViewQueue.  It ends after one message, except
\* that new-view messages are taken until none is left and that after a
\* decision the queue of the new view is tried.
Chase(r) ==
    /\ chasing[r] /\ status[r] = "up"
    /\ \E m \in Last(msgQueue[r], view[r]) :
          /\ Dispatch(r, m, net, Pop(msgQueue[r], view[r], m))
          /\ chasing' = [chasing EXCEPT
                           ![r] = /\ m.type \in {"NewView", "Decide"}
                                  /\ Pending(msgQueue'[r], view'[r])]
    /\ UNCHANGED <<requestVars, hand, lost>>

\* The message held during the chase is handled, whatever the view is by now.
HandleHeld(r) ==
    /\ ~chasing[r] /\ status[r] = "up"
    /\ \E m \in hand[r] : Dispatch(r, m, net, msgQueue[r])
    /\ hand' = [hand EXCEPT ![r] = {}]
    /\ UNCHANGED <<requestVars, chasing, lost>>

\* Mutant: a timeout fires though it is not armed.
Timeout_Unarmed(r) ==
    /\ Idle(r)
    /\ <<r, view[r]>> \in MayTimeOut
    /\ timer' = [timer EXCEPT ![r] = FALSE]
    /\ EnterView(r, view[r] + 1, net, msgQueue[r], votes[r], highQC[r])
    /\ chasing' = [chasing EXCEPT ![r] = Pending(msgQueue'[r], view'[r])]
    /\ UNCHANGED <<prepareQC, preCommitQC, finishedVotes, chainVars,
                   requestVars, hand, lost>>

\* The timeout fires: it is stopped, the view abandoned, the queue tried.
Timeout(r) ==
    /\ Idle(r) /\ timer[r]
    /\ <<r, view[r]>> \in MayTimeOut
    /\ timer' = [timer EXCEPT ![r] = FALSE]
    /\ EnterView(r, view[r] + 1, net, msgQueue[r], votes[r], highQC[r])
    /\ chasing' = [chasing EXCEPT ![r] = Pending(msgQueue'[r], view'[r])]
    /\ UNCHANGED <<prepareQC, preCommitQC, finishedVotes, chainVars,
                   requestVars, hand, lost>>

-----------------------------------------------------------------------------

Receive(r, s) ==
    \/ ReceiveFuture(r, s)
    \/ ReceiveStale(r, s)
    \/ ReceiveCurrent(r, s)
    \/ HoldCurrent(r, s)

HandleMsg(r) ==
    \/ \E s \in Replica : Receive(r, s)
    \/ Chase(r)
    \/ HandleHeld(r)
    \/ Timeout(r)

Next ==
    \E r \in Replica :
        \/ HandleMsg(r)
        \/ HandleReq(r)
        \/ \E s \in Replica : Lose(r, s)

Spec == Init /\ [][Next]_vars

\* Each goroutine keeps running, every channel it selects from is served, a
\* link delivers what it does not lose, and an armed timeout fires unless it
\* is stopped.  Nothing obliges a link to lose a message.
Fairness ==
    \A r \in Replica :
        /\ \A s \in Replica : WF_vars(Receive(r, s))
        /\ WF_vars(Chase(r))
        /\ WF_vars(HandleHeld(r))
        /\ WF_vars(Timeout(r))
        /\ WF_vars(HandleReq(r))

FairSpec == Spec /\ Fairness

-----------------------------------------------------------------------------
(* Properties. *)

TypeOK ==
    /\ view \in [Replica -> View]
    /\ prepareQC \in [Replica -> QuorumCert]
    /\ preCommitQC \in [Replica -> QuorumCert]
    /\ highQC \in [Replica -> QuorumCert]
    /\ votes \in [Replica -> SUBSET VoteRecord]
    /\ finishedVotes \in [Replica -> SUBSET (VoteType \X Hash)]
    /\ highQCTmp \in [Replica -> SUBSET NewViewMsg]
    /\ viewChanged \in [Replica -> BOOLEAN]
    /\ blockChain \in [Replica -> SUBSET Block]
    /\ executed \in [Replica -> SUBSET Block]
    /\ timer \in [Replica -> BOOLEAN]
    /\ holding \in [Replica -> BOOLEAN]
    /\ clock \in [Replica -> Nat]
    /\ status \in [Replica -> {"up", "panicked", "blocked"}]
    /\ hand \in [Replica -> SUBSET Msg]
    /\ chasing \in [Replica -> BOOLEAN]
    /\ msgQueue \in [Replica -> SUBSET Msg]
    /\ net \in [Replica -> [Replica -> Seq(Msg)]]
    /\ proposed \in SUBSET Block
    /\ lost \in Nat

\* No view is skipped: a replica is past a view only when it had a proposal.
NoViewSkipped ==
    \A r \in Replica : \A v \in 1..(view[r] - 1) : HasProposal(v)

\* A vote or a new-view message still under way is not counted already: so
\* the lists of the code have no duplicates, which Combine would refuse.
CountedOnce ==
    \A r \in Replica : \A m \in InTransit(r) :
        /\ m.type \in VoteType => OwnVote(m.from, m.type, m.block) \notin votes[r]
        /\ m.type = "NewView" => m \notin highQCTmp[r]

\* Without timeouts, losses and faults every view's leader decides its block.
\* A follower may lag: its messages of the new view wait in its queue, and
\* OnReceiveDecide enters that view without trying the queue.  The others make
\* a quorum without it.
EveryViewDecided ==
    \A v \in 1..MaxView :
        <>(\E b \in executed[GetLeaderByView(v)] : b.view = v)

\* Whatever timeouts fire, every replica leaves every view that clients have
\* requests for.
EveryViewLeft == \A r \in Replica : <>(view[r] = MaxView + 1)

-----------------------------------------------------------------------------
(* The inductive invariant behind TokenDiscipline, OneProposalPerView,       *)
(* NoViewSkipped and NeverStuck.                                             *)

\* Votes and new-view messages go to the leader of their view, the leader's
\* messages to the others; all but new-view messages are about a proposed
\* block of their view.
IsGenuine(r, m) ==
    IF m.type = "NewView"
    THEN GetLeaderByView(m.view) = r /\ m.view >= 2
    ELSE /\ m.block \in proposed
         /\ m.block.view = m.view
         /\ m.type \in VoteType <=> GetLeaderByView(m.view) = r

MessagesGenuine == \A r \in Replica : \A m \in InTransit(r) : IsGenuine(r, m)

\* The queue of a view that the replica leads does not move it to another.
HeldForLeaderCurrent ==
    \A r \in Replica : \A m \in hand[r] :
        GetLeaderByView(m.view) = r => m.view = view[r]

\* The timeout is armed only after a proposal of the view was seen.
TimerAfterProposal == \A r \in Replica : timer[r] => HasProposal(view[r])

\* A leader whose view change goes on has no token and has not proposed.  The
\* first view has no view change: its leader has the token from the start.
ChangingView ==
    \A r \in Replica :
        Leader(r) = r /\ ~viewChanged[r] /\ view[r] >= 2 =>
            ~holding[r] /\ ~HasProposal(view[r])

Inv ==
    /\ ViewsPositive
    /\ ProposedByLeader
    /\ MessagesGenuine
    /\ NoVoteQueued
    /\ HeldForLeaderCurrent
    /\ TimerAfterProposal
    /\ ChangingView
    /\ TokenDiscipline
    /\ OneProposalPerView
    /\ NoViewSkipped
    /\ NeverStuck
=============================================================================
