--------------------------- MODULE Cogsworth_proofs ---------------------------
(***************************************************************************)
(* Theorems about Cogsworth, for every number of replicas, of faulty ones, *)
(* of commands, and for all bounds.                                        *)
(***************************************************************************)
EXTENDS Cogsworth, Counting_proofs

-----------------------------------------------------------------------------
(* Type correctness. *)

PacemakerTypeOK ==
    /\ wishes \in [Replica -> SUBSET (View \X Replica)]
    /\ wishFinished \in [Replica -> SUBSET View]
    /\ timeoutVotes \in [Replica -> SUBSET (View \X Replica)]
    /\ timeoutVoteFinished \in [Replica -> SUBSET View]

\* The variables that the handlers change, and the others.
HandlerTypeOK == ImplTypeOK(CogsworthMsg, TimeoutVoteMsg) /\ PacemakerTypeOK
OtherTypeOK == RestTypeOK(CogsworthMsg)

Net == NetOf(CogsworthMsg)

LEMMA TypeByParts ==
    /\ CogsworthTypeOK <=> HandlerTypeOK /\ OtherTypeOK
    /\ CogsworthTypeOK' <=> HandlerTypeOK' /\ OtherTypeOK'
BY DEF CogsworthTypeOK, HandlerTypeOK, OtherTypeOK, ImplTypeOK, RestTypeOK,
       PacemakerTypeOK, NetOf

LEMMA MsgFields ==
    ASSUME NEW m \in CogsworthMsg
    PROVE  /\ m.view \in View
           /\ m.type \in VoteType \cup LeaderType \cup ViewChangeType
                           \cup {"WishNextView", "TimeoutVote"}
           /\ m.type \in VoteType => m \in VoteMsg /\ m.from \in Replica
                                                   /\ m.block \in Block
                                                   /\ m.signed \in BOOLEAN
           /\ m.type \in LeaderType => m \in LeaderMsg /\ m.block \in Block
                                                       /\ m.qc \in QuorumCert
           /\ m.type = "WishNextView" => m \in WishMsg /\ m.from \in Replica
           /\ m.type = "TimeoutVote" => m \in TimeoutVoteMsg /\ m.from \in Replica
                                                             /\ m.qc \in QuorumCert
<1> USE DEF CogsworthMsg, VoteMsg, LeaderMsg, WishMsg, TimeoutMsg, TimeoutVoteMsg,
            ViewChangedMsg, VoteType, LeaderType, ViewChangeType
<1>1. CASE m \in VoteMsg \cup LeaderMsg
  BY <1>1
<1>2. CASE m \in WishMsg \cup TimeoutMsg \cup TimeoutVoteMsg \cup ViewChangedMsg
  BY <1>2
<1> QED
  BY <1>1, <1>2

\* What the pacemaker sends.
LEMMA PacemakerMsgType ==
    ASSUME HandlerTypeOK, NEW r \in Replica, NEW v \in View
    PROVE  /\ WishFrom(r, v) \in CogsworthMsg
           /\ TimeoutVoteFrom(r, v) \in TimeoutVoteMsg
           /\ TimeoutVoteFrom(r, v) \in CogsworthMsg
           /\ [type |-> "Timeout", view |-> v] \in CogsworthMsg
           /\ [type |-> "NewView", view |-> v] \in CogsworthMsg
BY DEF WishFrom, TimeoutVoteFrom, CogsworthMsg, WishMsg, TimeoutMsg,
       TimeoutVoteMsg, ViewChangedMsg, HandlerTypeOK, ImplTypeOK

LEMMA ProcessNewViewType ==
    ASSUME HandlerTypeOK, NEW r \in Replica, NEW v \in View,
           NEW tmp \in SUBSET TimeoutVoteMsg, NEW n \in Net,
           ProcessNewView(r, v, tmp, n)
    PROVE  /\ highQC' \in [Replica -> QuorumCert]
           /\ highQCTmp' \in [Replica -> SUBSET TimeoutVoteMsg]
           /\ votes' \in [Replica -> SUBSET VoteRecord]
           /\ viewChanged' \in [Replica -> BOOLEAN]
           /\ holding' \in [Replica -> BOOLEAN]
           /\ timer' \in [Replica -> BOOLEAN]
           /\ status' \in [Replica -> {"up", "panicked", "blocked"}]
           /\ timeoutVoteFinished' \in [Replica -> SUBSET View]
           /\ net' \in Net
<1> USE DEF HandlerTypeOK, ImplTypeOK, PacemakerTypeOK
<1>1. CASE Leader(r) = r /\ ~Has(blockChain[r], highQC[r].hash)
  BY <1>1 DEF ProcessNewView
<1>2. CASE ~(Leader(r) = r /\ ~Has(blockChain[r], highQC[r].hash))
  <2>1. PICK qc \in HighestQCs(prepareQC[r],
                               {m.qc : m \in QueuedFor(tmp, view[r])}) :
          highQC' = [highQC EXCEPT ![r] = qc]
    BY <1>2 DEF ProcessNewView
  <2>2. {m.qc : m \in QueuedFor(tmp, view[r])} \subseteq QuorumCert
    BY DEF TimeoutVoteMsg, QueuedFor
  <2>3. qc \in QuorumCert
    BY <2>1, <2>2 DEF HighestQCs
  <2>4. tmp \ QueuedFor(tmp, view[r]) \in SUBSET TimeoutVoteMsg
    OBVIOUS
  <2>5. /\ highQCTmp' = [highQCTmp EXCEPT ![r] = tmp \ QueuedFor(tmp, view[r])]
        /\ votes' = [votes EXCEPT ![r] = {}]
        /\ viewChanged' = [viewChanged EXCEPT ![r] = TRUE]
        /\ timer' = [timer EXCEPT ![r] = FALSE]
        /\ timeoutVoteFinished' = [timeoutVoteFinished EXCEPT ![r] = @ \cup {view[r]}]
        /\ holding' = [holding EXCEPT ![r] = @ \/ Leader(r) = r]
        /\ status' = IF Leader(r) = r /\ holding[r]
                     THEN [status EXCEPT ![r] = "blocked"]
                     ELSE status
        /\ net' = IF Leader(r) = r
                  THEN Multicast(n, r, [type |-> "NewView", view |-> v])
                  ELSE n
    BY <1>2 DEF ProcessNewView
  <2>6. net' \in Net
    BY <2>5, PacemakerMsgType, MulticastTypeOf DEF Net
  <2> QED
    BY <2>1, <2>3, <2>4, <2>5, <2>6
<1> QED
  BY <1>1, <1>2

LEMMA WishToAdvanceType ==
    ASSUME HandlerTypeOK, NEW r \in Replica, NEW n \in Net,
           NEW q \in SUBSET CogsworthMsg, NEW vs \in SUBSET VoteRecord,
           NEW hqc \in QuorumCert, WishToAdvance(r, n, q, vs, hqc),
           UNCHANGED <<prepareQC, preCommitQC>>,
           finishedVotes' \in [Replica -> SUBSET (VoteType \X Hash)],
           blockChain' \in [Replica -> SUBSET Block],
           executed' \in [Replica -> SUBSET Block]
    PROVE  HandlerTypeOK'
<1> DEFINE next == view[r] + 1
<1>1. next \in View /\ GetLeaderByView(next) \in Replica
  BY LeaderIsReplica DEF View, HandlerTypeOK, ImplTypeOK
<1>2. WishFrom(r, next) \in CogsworthMsg
  BY <1>1, PacemakerMsgType
<1>3. /\ view' = [view EXCEPT ![r] = next]
      /\ timer' = [timer EXCEPT ![r] = TRUE]
      /\ highQC' = [highQC EXCEPT ![r] = hqc]
      /\ votes' = [votes EXCEPT ![r] = vs]
      /\ viewChanged' = [viewChanged EXCEPT ![r] = FALSE]
      /\ msgQueue' = [msgQueue EXCEPT ![r] = q]
      /\ UNCHANGED <<highQCTmp, holding, status, wishFinished, timeoutVotes,
                     timeoutVoteFinished>>
      /\ \/ /\ net' = Unicast(n, r, GetLeaderByView(next), WishFrom(r, next))
            /\ UNCHANGED wishes
         \/ /\ wishes' = [wishes EXCEPT ![r] = @ \cup {<<next, r>>}]
            /\ net' = n
  BY DEF WishToAdvance
<1>4. net' \in NetOf(CogsworthMsg)
  BY <1>1, <1>2, <1>3, UnicastTypeOf DEF Net
<1> HIDE DEF next
<1> USE DEF HandlerTypeOK, ImplTypeOK, PacemakerTypeOK
<1>5. wishes' \in [Replica -> SUBSET (View \X Replica)]
  BY <1>1, <1>3
<1>6. view' \in [Replica -> View]
  BY <1>1, <1>3
<1> QED
  BY <1>3, <1>4, <1>5, <1>6

LEMMA PhaseType ==
    ASSUME HandlerTypeOK, NEW r \in Replica, NEW m \in CogsworthMsg, NEW n \in Net,
           NEW q \in SUBSET CogsworthMsg, OnReceivePhaseMsg(r, m, n, q),
           UNCHANGED pacemakerVars
    PROVE  HandlerTypeOK'
<1>1. m \in VoteMsg \cup LeaderMsg
  BY MsgFields DEF OnReceivePhaseMsg, VoteType, LeaderType
<1>2. VoteMsg \cup LeaderMsg \subseteq CogsworthMsg
  BY DEF CogsworthMsg
<1>3. ImplTypeOK(CogsworthMsg, TimeoutVoteMsg)'
  BY <1>1, <1>2, PhaseImplType DEF HandlerTypeOK, Net, OnReceivePhaseMsg
<1> QED
  BY <1>3 DEF HandlerTypeOK, PacemakerTypeOK, pacemakerVars

LEMMA DecisionType ==
    ASSUME HandlerTypeOK, NEW r \in Replica, NEW m \in CogsworthMsg, NEW n \in Net,
           NEW q \in SUBSET CogsworthMsg,
           \/ m.type = "CommitVote" /\ OnReceiveCommitVote(r, m, n, q)
           \/ m.type = "Decide" /\ OnReceiveDecide(r, m, n, q)
    PROVE  HandlerTypeOK'
<1>1. CASE /\ \/ Ignore(r, n, q)
              \/ m.type = "CommitVote" /\ StoreVote(r, m, n, q)
           /\ UNCHANGED pacemakerVars
  <2>1. m.type = "CommitVote" => m \in VoteMsg
    BY MsgFields DEF VoteType
  <2>2. ImplTypeOK(CogsworthMsg, TimeoutVoteMsg)'
    BY <1>1, <2>1, IgnoreImplType, StoreVoteImplType DEF HandlerTypeOK, Net
  <2> QED
    BY <1>1, <2>2 DEF HandlerTypeOK, PacemakerTypeOK, pacemakerVars
<1> DEFINE decide == PhaseMsg("Decide", view[r], m.block, CreateQuorumCert(m.block))
<1>2. CASE /\ m.type = "CommitVote"
           /\ FinishVotes(r, m)
           /\ Execute(r, m.block)
           /\ WishToAdvance(r, Multicast(n, r, decide), q, LeftVotes(r, m),
                            CreateQuorumCert(m.block))
           /\ UNCHANGED <<prepareQC, preCommitQC>>
  <2>1. m \in VoteMsg /\ m.block \in Block
    BY <1>2, MsgFields DEF VoteType
  <2>2. view[r] \in View
    BY DEF HandlerTypeOK, ImplTypeOK
  <2>3. CreateQuorumCert(m.block) \in QuorumCert
    BY <2>1, QuorumCertType
  <2>4. decide \in CogsworthMsg
    BY <2>1, <2>2, <2>3, LeaderMsgType DEF LeaderType, CogsworthMsg
  <2>5. Multicast(n, r, decide) \in Net
    BY <2>4, MulticastTypeOf DEF Net
  <2>6. /\ LeftVotes(r, m) \in SUBSET VoteRecord
        /\ <<m.type, m.block.hash>> \in VoteType \X Hash
    BY <2>1, CountedType DEF HandlerTypeOK, ImplTypeOK
  <2>7. finishedVotes' \in [Replica -> SUBSET (VoteType \X Hash)]
    BY <1>2, <2>6 DEF FinishVotes, HandlerTypeOK, ImplTypeOK
  <2>8. /\ blockChain' \in [Replica -> SUBSET Block]
        /\ executed' \in [Replica -> SUBSET Block]
    BY <1>2, <2>1, ExecuteImplType DEF HandlerTypeOK, ImplTypeOK
  <2> QED
    BY <1>2, <2>3, <2>5, <2>6, <2>7, <2>8, WishToAdvanceType
<1>3. CASE /\ m.type = "Decide"
           /\ Execute(r, m.block)
           /\ WishToAdvance(r, n, q, votes[r], m.qc)
           /\ UNCHANGED <<prepareQC, preCommitQC, finishedVotes>>
  <2>1. m.block \in Block /\ m.qc \in QuorumCert
    BY <1>3, MsgFields DEF LeaderType
  <2>2. /\ blockChain' \in [Replica -> SUBSET Block]
        /\ executed' \in [Replica -> SUBSET Block]
    BY <1>3, <2>1, ExecuteImplType DEF HandlerTypeOK, ImplTypeOK
  <2>3. /\ votes[r] \in SUBSET VoteRecord
        /\ finishedVotes' \in [Replica -> SUBSET (VoteType \X Hash)]
    BY <1>3 DEF HandlerTypeOK, ImplTypeOK
  <2> QED
    BY <1>3, <2>1, <2>2, <2>3, WishToAdvanceType
<1>4. CASE m.type = "CommitVote" /\ OnReceiveCommitVote(r, m, n, q)
  BY <1>1, <1>2, <1>4 DEF OnReceiveCommitVote
<1>5. CASE m.type = "Decide" /\ OnReceiveDecide(r, m, n, q)
  BY <1>1, <1>3, <1>5 DEF OnReceiveDecide
<1> QED
  BY <1>4, <1>5

LEMMA WishType ==
    ASSUME HandlerTypeOK, NEW r \in Replica, NEW m \in WishMsg, NEW n \in Net,
           NEW q \in SUBSET CogsworthMsg, OnReceiveWishNextView(r, m, n, q)
    PROVE  HandlerTypeOK'
<1> DEFINE counted == wishes[r] \cup {<<m.view, m.from>>}
           cert == [type |-> "Timeout", view |-> m.view]
           own == TimeoutVoteFrom(r, m.view)
<1>1. m.view \in View /\ m.from \in Replica
  BY DEF WishMsg
<1>2. cert \in CogsworthMsg /\ own \in TimeoutVoteMsg
  BY <1>1, PacemakerMsgType
<1>3. Multicast(n, r, cert) \in Net
  BY <1>2, MulticastTypeOf DEF Net
<1>4. counted \in SUBSET (View \X Replica)
  BY <1>1 DEF HandlerTypeOK, PacemakerTypeOK
<1>5. counted \ OfView(counted, m.view) \in SUBSET (View \X Replica)
  BY <1>4
<1>6. /\ net' \in {n, Multicast(n, r, cert)}
      /\ UNCHANGED timer \/ timer' = [timer EXCEPT ![r] = TRUE]
      /\ \/ UNCHANGED wishes
         \/ wishes' = [wishes EXCEPT ![r] = counted]
         \/ wishes' = [wishes EXCEPT ![r] = counted \ OfView(counted, m.view)]
      /\ \/ UNCHANGED <<highQCTmp, wishFinished, timeoutVotes>>
         \/ /\ wishFinished' = [wishFinished EXCEPT ![r] = @ \cup {m.view}]
            /\ timeoutVotes' = [timeoutVotes EXCEPT ![r] = @ \cup {<<m.view, r>>}]
            /\ highQCTmp' = [highQCTmp EXCEPT ![r] = @ \cup {own}]
      /\ msgQueue' = [msgQueue EXCEPT ![r] = q]
      /\ UNCHANGED <<prepareQC, preCommitQC, votes, finishedVotes, view, highQC,
                     viewChanged, holding, status, chainVars, timeoutVoteFinished>>
  BY DEF OnReceiveWishNextView, pacemakerVars, leaderVars
<1> HIDE DEF counted, cert, own
<1> USE DEF HandlerTypeOK, ImplTypeOK, PacemakerTypeOK
<1>7. /\ net' \in NetOf(CogsworthMsg)
      /\ timer' \in [Replica -> BOOLEAN]
  BY <1>3, <1>6 DEF Net
<1>8. wishes' \in [Replica -> SUBSET (View \X Replica)]
  BY <1>4, <1>5, <1>6
<1>9. /\ highQCTmp' \in [Replica -> SUBSET TimeoutVoteMsg]
      /\ wishFinished' \in [Replica -> SUBSET View]
      /\ timeoutVotes' \in [Replica -> SUBSET (View \X Replica)]
  BY <1>1, <1>2, <1>6
<1> QED
  BY <1>6, <1>7, <1>8, <1>9 DEF chainVars

LEMMA TimeoutVoteType ==
    ASSUME HandlerTypeOK, NEW r \in Replica, NEW m \in TimeoutVoteMsg, NEW n \in Net,
           NEW q \in SUBSET CogsworthMsg, OnReceiveTimeoutVote(r, m, n, q)
    PROVE  HandlerTypeOK'
<1> DEFINE counted == timeoutVotes[r] \cup {<<m.view, m.from>>}
           tmp == highQCTmp[r] \cup {m}
<1>1. m.view \in View /\ m.from \in Replica
  BY DEF TimeoutVoteMsg
<1>2. counted \in SUBSET (View \X Replica) /\ tmp \in SUBSET TimeoutVoteMsg
  BY <1>1 DEF HandlerTypeOK, PacemakerTypeOK, ImplTypeOK
<1>3. counted \ OfView(counted, m.view) \in SUBSET (View \X Replica)
  BY <1>2
<1>4. /\ \/ UNCHANGED timeoutVotes
         \/ timeoutVotes' = [timeoutVotes EXCEPT ![r] = counted]
         \/ timeoutVotes' = [timeoutVotes EXCEPT
                               ![r] = counted \ OfView(counted, m.view)]
      /\ \/ /\ UNCHANGED <<votes, highQC, viewChanged, holding, status,
                            timeoutVoteFinished>>
            /\ UNCHANGED highQCTmp \/ highQCTmp' = [highQCTmp EXCEPT ![r] = tmp]
            /\ UNCHANGED timer \/ timer' = [timer EXCEPT ![r] = TRUE]
            /\ net' = n
         \/ ProcessNewView(r, m.view, tmp, n)
      /\ msgQueue' = [msgQueue EXCEPT ![r] = q]
      /\ UNCHANGED <<prepareQC, preCommitQC, finishedVotes, view, chainVars,
                     wishes, wishFinished>>
  BY DEF OnReceiveTimeoutVote
<1> HIDE DEF counted, tmp
<1>5. timeoutVotes' \in [Replica -> SUBSET (View \X Replica)]
  BY <1>2, <1>3, <1>4 DEF HandlerTypeOK, PacemakerTypeOK
<1>6. CASE ProcessNewView(r, m.view, tmp, n)
  <2>1. /\ highQC' \in [Replica -> QuorumCert]
        /\ highQCTmp' \in [Replica -> SUBSET TimeoutVoteMsg]
        /\ votes' \in [Replica -> SUBSET VoteRecord]
        /\ viewChanged' \in [Replica -> BOOLEAN]
        /\ holding' \in [Replica -> BOOLEAN]
        /\ timer' \in [Replica -> BOOLEAN]
        /\ status' \in [Replica -> {"up", "panicked", "blocked"}]
        /\ timeoutVoteFinished' \in [Replica -> SUBSET View]
        /\ net' \in Net
    BY <1>1, <1>2, <1>6, ProcessNewViewType
  <2> QED
    BY <1>4, <1>5, <2>1 DEF chainVars, Net, HandlerTypeOK, PacemakerTypeOK, ImplTypeOK
<1>7. CASE ~ProcessNewView(r, m.view, tmp, n)
  BY <1>2, <1>4, <1>5, <1>7
     DEF chainVars, Net, HandlerTypeOK, PacemakerTypeOK, ImplTypeOK
<1> QED
  BY <1>6, <1>7

\* Every handler keeps the types.
LEMMA DispatchType ==
    ASSUME HandlerTypeOK, NEW r \in Replica, NEW m \in CogsworthMsg, NEW n \in Net,
           NEW q \in SUBSET CogsworthMsg, Dispatch(r, m, n, q)
    PROVE  HandlerTypeOK'
<1>1. m.view \in View
  BY MsgFields
<1>2. CASE m.type = "Timeout" /\ OnReceiveTimeout(r, m, n, q)
  <2>1. TimeoutVoteFrom(r, m.view) \in CogsworthMsg
    BY <1>1, PacemakerMsgType
  <2>2. Leader(r) \in Replica
    BY LeaderIsReplica DEF Leader, HandlerTypeOK, ImplTypeOK
  <2>3. net' \in NetOf(CogsworthMsg)
    BY <1>2, <2>1, <2>2, UnicastTypeOf DEF OnReceiveTimeout, Net
  <2> QED
    BY <1>2, <2>3 DEF OnReceiveTimeout, leaderVars, viewVars, chainVars,
                      pacemakerVars, HandlerTypeOK, ImplTypeOK, PacemakerTypeOK
<1>3. CASE m.type = "NewView" /\ OnReceiveNewView(r, m, n, q)
  <2>1. highQCTmp[r] \in SUBSET TimeoutVoteMsg
    BY DEF HandlerTypeOK, ImplTypeOK
  <2>2. /\ highQC' \in [Replica -> QuorumCert]
        /\ highQCTmp' \in [Replica -> SUBSET TimeoutVoteMsg]
        /\ votes' \in [Replica -> SUBSET VoteRecord]
        /\ viewChanged' \in [Replica -> BOOLEAN]
        /\ holding' \in [Replica -> BOOLEAN]
        /\ timer' \in [Replica -> BOOLEAN]
        /\ status' \in [Replica -> {"up", "panicked", "blocked"}]
        /\ timeoutVoteFinished' \in [Replica -> SUBSET View]
        /\ net' \in Net
    BY <1>1, <1>3, <2>1, ProcessNewViewType DEF OnReceiveNewView
  <2> QED
    BY <1>3, <2>2 DEF OnReceiveNewView, chainVars, Net, HandlerTypeOK,
                      PacemakerTypeOK, ImplTypeOK
<1>4. CASE m.type = "WishNextView" /\ OnReceiveWishNextView(r, m, n, q)
  BY <1>4, MsgFields, WishType
<1>5. CASE m.type = "TimeoutVote" /\ OnReceiveTimeoutVote(r, m, n, q)
  BY <1>5, MsgFields, TimeoutVoteType
<1>6. CASE OnReceivePhaseMsg(r, m, n, q) /\ UNCHANGED pacemakerVars
  BY <1>6, PhaseType
<1>7. CASE \/ m.type = "CommitVote" /\ OnReceiveCommitVote(r, m, n, q)
           \/ m.type = "Decide" /\ OnReceiveDecide(r, m, n, q)
  BY <1>7, DecisionType
<1> QED
  BY <1>2, <1>3, <1>4, <1>5, <1>6, <1>7 DEF Dispatch

LEMMA TakenType ==
    ASSUME HandlerTypeOK, NEW r \in Replica, NEW s \in Replica, net[s][r] # <<>>
    PROVE  Head(net[s][r]) \in CogsworthMsg /\ Taken(r, s) \in Net
BY TakenTypeOf DEF HandlerTypeOK, ImplTypeOK, Net

LEMMA NextType == CogsworthTypeOK /\ [CogsworthNext]_cogsworthVars => CogsworthTypeOK'
<1> SUFFICES ASSUME HandlerTypeOK, OtherTypeOK, [CogsworthNext]_cogsworthVars
             PROVE  HandlerTypeOK' /\ OtherTypeOK'
  BY TypeByParts
<1>1. ASSUME NEW r \in Replica, NEW s \in Replica,
             \/ ReceiveFuture(r, s) \/ ReceiveStale(r, s) \/ HoldCurrent(r, s)
             \/ HandleReq(r) \/ Lose(r, s) \/ UNCHANGED vars,
             UNCHANGED pacemakerVars
      PROVE  HandlerTypeOK' /\ OtherTypeOK'
  <2>1. LeaderMsg \subseteq CogsworthMsg
    BY DEF CogsworthMsg
  <2>2. ImplTypeOK(CogsworthMsg, TimeoutVoteMsg)' /\ OtherTypeOK'
    BY <1>1, <2>1, OtherStepsImplType DEF HandlerTypeOK, OtherTypeOK
  <2> QED
    BY <1>1, <2>2 DEF HandlerTypeOK, PacemakerTypeOK, pacemakerVars
<1>2. ASSUME NEW r \in Replica, NEW s \in Replica, ReceiveCurrent(r, s)
      PROVE  HandlerTypeOK' /\ OtherTypeOK'
  <2>1. Head(net[s][r]) \in CogsworthMsg /\ Taken(r, s) \in Net
    BY <1>2, TakenType DEF ReceiveCurrent, CanReceive
  <2>2. msgQueue[r] \in SUBSET CogsworthMsg
    BY DEF HandlerTypeOK, ImplTypeOK
  <2>3. HandlerTypeOK'
    BY <1>2, <2>1, <2>2, DispatchType DEF ReceiveCurrent
  <2> QED
    BY <1>2, <2>3 DEF ReceiveCurrent, requestVars, handVars, OtherTypeOK, RestTypeOK
<1>3. ASSUME NEW r \in Replica, Chase(r)
      PROVE  HandlerTypeOK' /\ OtherTypeOK'
  <2>1. PICK m \in Last(msgQueue[r], view[r]) :
          /\ Dispatch(r, m, net, Pop(msgQueue[r], view[r], m))
          /\ chasing' = [chasing EXCEPT
                           ![r] = /\ m.type \in {"WishNextView", "Decide"}
                                  /\ Pending(msgQueue'[r], view'[r])]
    BY <1>3 DEF Chase
  <2>2. msgQueue[r] \in SUBSET CogsworthMsg /\ net \in Net
    BY DEF HandlerTypeOK, ImplTypeOK, Net
  <2>3. /\ m \in CogsworthMsg
        /\ Pop(msgQueue[r], view[r], m) \in SUBSET CogsworthMsg
    BY <2>2 DEF Last, QueuedFor, Pop
  <2>4. HandlerTypeOK'
    BY <2>1, <2>2, <2>3, DispatchType
  <2>5. chasing' \in [Replica -> BOOLEAN]
    BY <2>1 DEF OtherTypeOK, RestTypeOK
  <2> QED
    BY <1>3, <2>4, <2>5 DEF Chase, requestVars, OtherTypeOK, RestTypeOK
<1>4. ASSUME NEW r \in Replica, HandleHeld(r)
      PROVE  HandlerTypeOK' /\ OtherTypeOK'
  <2>1. PICK m \in hand[r] : Dispatch(r, m, net, msgQueue[r])
    BY <1>4 DEF HandleHeld
  <2>2. m \in CogsworthMsg /\ msgQueue[r] \in SUBSET CogsworthMsg /\ net \in Net
    BY DEF HandlerTypeOK, ImplTypeOK, OtherTypeOK, RestTypeOK, Net
  <2>3. HandlerTypeOK'
    BY <2>1, <2>2, DispatchType
  <2> QED
    BY <1>4, <2>3 DEF HandleHeld, requestVars, OtherTypeOK, RestTypeOK
<1>5. ASSUME NEW r \in Replica, Timeout(r)
      PROVE  HandlerTypeOK' /\ OtherTypeOK'
  <2>1. /\ net \in Net
        /\ msgQueue[r] \in SUBSET CogsworthMsg
        /\ votes[r] \in SUBSET VoteRecord
        /\ highQC[r] \in QuorumCert
        /\ finishedVotes \in [Replica -> SUBSET (VoteType \X Hash)]
        /\ blockChain \in [Replica -> SUBSET Block]
        /\ executed \in [Replica -> SUBSET Block]
    BY DEF HandlerTypeOK, ImplTypeOK, Net
  <2>2. HandlerTypeOK'
    BY <1>5, <2>1, WishToAdvanceType DEF Timeout, chainVars
  <2> QED
    BY <1>5, <2>2 DEF Timeout, requestVars, handVars, OtherTypeOK, RestTypeOK
<1>6. PICK s \in Replica : TRUE
  BY LeaderIsReplica DEF View
<1> QED
  BY <1>1, <1>2, <1>3, <1>4, <1>5, <1>6
     DEF CogsworthNext, HandleMsg, Receive, ReceiveAside, OnBeat, cogsworthVars

\* Type correctness of Cogsworth.
THEOREM CogsworthTypeCorrect == CogsworthSpec => []CogsworthTypeOK
<1>1. CogsworthInit => CogsworthTypeOK
  BY TypeByParts, InitImplType
     DEF CogsworthInit, HandlerTypeOK, OtherTypeOK, PacemakerTypeOK
<1> QED
  BY <1>1, NextType, PTL DEF CogsworthSpec

-----------------------------------------------------------------------------
(* The inductive invariant: messages.  What follows is about any sets      *)
(* A[d][s] of messages that s may send to d, any links n, queues Q and     *)
(* hands H.                                                                *)

\* The messages that a replica may have sent.
Sent == [d \in Replica |-> [s \in Replica |-> {m \in CogsworthMsg : IsSent(s, d, m)}]]

\* Decisions and messages about a view change come from the leader of the view.
FromLeaders(A) ==
    \A d, s \in Replica : \A m \in A[d][s] :
        m.type \in ViewChangeType \cup {"Decide"} => GetLeaderByView(m.view) = s

\* A link has only messages of S, and none that overtakes another one.
InOrder(S, link) ==
    /\ \A i \in DOMAIN link : link[i] \in S
    /\ \A i, j \in DOMAIN link : i < j => ~Overtakes(link[i], link[j])

\* The queue has only messages that some replica sent, no votes, and no decision
\* that overtakes something held or under way.
Behind(A, n, d, q, h) ==
    /\ \A m \in q \cup h : \E s \in Replica : m \in A[d][s]
    /\ \A m \in q : m.type \notin VoteType \cup {"TimeoutVote"}
    /\ \A c \in q : /\ \A m \in h : ~Overtakes(c, m)
                    /\ \A s \in Replica : \A i \in DOMAIN n[s][d] :
                          ~Overtakes(c, n[s][d][i])

Carries(A, n, Q, H) ==
    \A d \in Replica :
        /\ \A s \in Replica : InOrder(A[d][s], n[s][d])
        /\ Behind(A, n, d, Q[d], H[d])

\* A message is sent that nothing allowed overtakes.
LEMMA CarriesSend ==
    ASSUME NEW A, NEW n \in Net, NEW Q, NEW H, NEW r \in Replica,
           NEW x \in CogsworthMsg, NEW D \in SUBSET Replica, Carries(A, n, Q, H),
           \A d \in D : x \in A[d][r],
           \A d, s \in Replica : \A m \in A[d][s] : ~Overtakes(m, x)
    PROVE  Carries(A, Send(n, r, x, D), Q, H)
<1> DEFINE sent == Send(n, r, x, D)
<1> SUFFICES ASSUME NEW d \in Replica
             PROVE  /\ \A s \in Replica : InOrder(A[d][s], sent[s][d])
                    /\ Behind(A, sent, d, Q[d], H[d])
  BY DEF Carries
<1>1. /\ \A s \in Replica : InOrder(A[d][s], n[s][d])
      /\ Behind(A, n, d, Q[d], H[d])
  BY DEF Carries
<1>2. ASSUME NEW s \in Replica, sent[s][d] # n[s][d]
      PROVE  s = r /\ d \in D /\ sent[s][d] = Append(n[s][d], x)
  BY <1>2 DEF Send
<1> HIDE DEF sent
<1>3. ASSUME NEW s \in Replica, NEW i \in DOMAIN sent[s][d]
      PROVE  \/ /\ i \in DOMAIN n[s][d] /\ sent[s][d][i] = n[s][d][i]
             \/ /\ s = r /\ d \in D /\ sent[s][d][i] = x
                /\ i = Len(n[s][d]) + 1
                /\ \A j \in DOMAIN sent[s][d] : j <= i
  <2>1. n[s][d] \in Seq(CogsworthMsg)
    BY DEF Net, NetOf
  <2>2. CASE sent[s][d] = n[s][d]
    BY <2>2
  <2>3. CASE sent[s][d] # n[s][d]
    <3>1. s = r /\ d \in D /\ sent[s][d] = Append(n[s][d], x)
      BY <1>2, <2>3
    <3>2. DOMAIN sent[s][d] = 1..Len(n[s][d]) + 1
      BY <2>1, <3>1
    <3>3. /\ i \in 1..Len(n[s][d]) => sent[s][d][i] = n[s][d][i]
          /\ i = Len(n[s][d]) + 1 => sent[s][d][i] = x
      BY <2>1, <3>1, <3>2
    <3>4. DOMAIN n[s][d] = 1..Len(n[s][d]) /\ Len(n[s][d]) \in Nat
      BY <2>1
    <3> QED
      BY <3>1, <3>2, <3>3, <3>4
  <2> QED
    BY <2>2, <2>3
<1>4. ASSUME NEW s \in Replica
      PROVE  InOrder(A[d][s], sent[s][d])
  <2>1. ASSUME NEW i \in DOMAIN sent[s][d]
        PROVE  sent[s][d][i] \in A[d][s]
    BY <1>1, <1>3 DEF InOrder
  <2>2. ASSUME NEW i \in DOMAIN sent[s][d], NEW j \in DOMAIN sent[s][d], i < j
        PROVE  ~Overtakes(sent[s][d][i], sent[s][d][j])
    <3>1. sent[s][d][i] \in A[d][s]
      BY <2>1
    <3>2. CASE sent[s][d][j] = x
      BY <3>1, <3>2
    <3>3. CASE j \in DOMAIN n[s][d] /\ sent[s][d][j] = n[s][d][j]
      <4>1. n[s][d] \in Seq(CogsworthMsg)
        BY DEF Net, NetOf
      <4>2. j \in 1..Len(n[s][d]) /\ Len(n[s][d]) \in Nat
        BY <3>3, <4>1
      <4>3. i # Len(n[s][d]) + 1
        BY <2>2, <4>2
      <4>4. i \in DOMAIN n[s][d] /\ sent[s][d][i] = n[s][d][i]
        BY <1>3, <4>3
      <4> QED
        BY <1>1, <2>2, <3>3, <4>4 DEF InOrder
    <3> QED
      BY <1>3, <3>2, <3>3
  <2> QED
    BY <2>1, <2>2 DEF InOrder
<1>5. Behind(A, sent, d, Q[d], H[d])
  <2>1. ASSUME NEW c \in Q[d], NEW s \in Replica, NEW i \in DOMAIN sent[s][d]
        PROVE  ~Overtakes(c, sent[s][d][i])
    <3>1. PICK t \in Replica : c \in A[d][t]
      BY <1>1 DEF Behind
    <3> QED
      BY <1>1, <1>3, <3>1 DEF Behind
  <2> QED
    BY <1>1, <2>1 DEF Behind
<1> QED
  BY <1>4, <1>5

\* More may have been sent, and less waits.
LEMMA CarriesMore ==
    ASSUME NEW A, NEW B, NEW n \in Net, NEW Q, NEW H, NEW q, NEW h,
           Carries(A, n, Q, H),
           \A d, s \in Replica : A[d][s] \subseteq B[d][s],
           \A d \in Replica : q[d] \subseteq Q[d] /\ h[d] \subseteq H[d]
    PROVE  Carries(B, n, q, h)
<1> SUFFICES ASSUME NEW d \in Replica
             PROVE  /\ \A s \in Replica : InOrder(B[d][s], n[s][d])
                    /\ Behind(B, n, d, q[d], h[d])
  BY DEF Carries
<1>1. /\ \A s \in Replica : InOrder(A[d][s], n[s][d])
      /\ Behind(A, n, d, Q[d], H[d])
      /\ q[d] \subseteq Q[d] /\ h[d] \subseteq H[d]
      /\ \A s \in Replica : A[d][s] \subseteq B[d][s]
  BY DEF Carries
<1>2. \A s \in Replica : InOrder(B[d][s], n[s][d])
  BY <1>1 DEF InOrder
<1>3. Behind(B, n, d, q[d], h[d])
  BY <1>1 DEF Behind
<1> QED
  BY <1>2, <1>3

\* What is left on the links after the first message of one was taken.
LEMMA TakenOnTheWay ==
    ASSUME HandlerTypeOK, NEW r \in Replica, NEW s \in Replica, net[s][r] # <<>>
    PROVE  /\ 1 \in DOMAIN net[s][r] /\ Head(net[s][r]) = net[s][r][1]
           /\ \A d, t \in Replica : \A i \in DOMAIN Taken(r, s)[t][d] :
                 IF d = r /\ t = s
                 THEN /\ i + 1 \in DOMAIN net[t][d] /\ 1 < i + 1
                      /\ Taken(r, s)[t][d][i] = net[t][d][i + 1]
                 ELSE /\ i \in DOMAIN net[t][d]
                      /\ Taken(r, s)[t][d][i] = net[t][d][i]
           /\ \A d, t \in Replica : DOMAIN Taken(r, s)[t][d] \subseteq Nat
<1>1. /\ net \in NetOf(CogsworthMsg)
      /\ \A t, d \in Replica : net[t][d] \in Seq(CogsworthMsg)
  BY DEF HandlerTypeOK, ImplTypeOK, NetOf
<1>2. 1 \in DOMAIN net[s][r] /\ Head(net[s][r]) = net[s][r][1]
  BY <1>1
<1>3. ASSUME NEW i \in DOMAIN Tail(net[s][r])
      PROVE  /\ i \in Nat /\ 1 < i + 1
             /\ i + 1 \in DOMAIN net[s][r] /\ Tail(net[s][r])[i] = net[s][r][i + 1]
  BY <1>1
<1>4. \A t, d \in Replica :
          Taken(r, s)[t][d] = IF d = r /\ t = s THEN Tail(net[t][d]) ELSE net[t][d]
  BY <1>1 DEF Taken, NetOf
<1>5. \A t, d \in Replica : DOMAIN net[t][d] \subseteq Nat
  BY <1>1
<1>6. ASSUME NEW d \in Replica, NEW t \in Replica
      PROVE  /\ \A i \in DOMAIN Taken(r, s)[t][d] :
                   IF d = r /\ t = s
                   THEN /\ i + 1 \in DOMAIN net[t][d] /\ 1 < i + 1
                        /\ Taken(r, s)[t][d][i] = net[t][d][i + 1]
                   ELSE /\ i \in DOMAIN net[t][d]
                        /\ Taken(r, s)[t][d][i] = net[t][d][i]
             /\ DOMAIN Taken(r, s)[t][d] \subseteq Nat
  <2>1. CASE d = r /\ t = s
    <3>1. Taken(r, s)[t][d] = Tail(net[s][r])
      BY <1>4, <2>1
    <3> QED
      BY <1>3, <2>1, <3>1
  <2>2. CASE ~(d = r /\ t = s)
    <3>1. Taken(r, s)[t][d] = net[t][d]
      BY <1>4, <2>2
    <3> QED
      BY <1>5, <2>2, <3>1
  <2> QED
    BY <2>1, <2>2
<1> QED
  BY <1>2, <1>6

\* A message is taken from its link.  It may be put into the queue, unless it is
\* a vote or something is held, or into the hand.
LEMMA CarriesTaken ==
    ASSUME HandlerTypeOK, NEW A, NEW H, NEW r \in Replica, NEW s \in Replica,
           net[s][r] # <<>>, Carries(A, net, msgQueue, H), FromLeaders(A)
    PROVE  LET m == Head(net[s][r])
           IN  /\ m \in A[r][s]
               /\ Carries(A, Taken(r, s), msgQueue, H)
               /\ H[r] = {} /\ m.type \notin VoteType \cup {"TimeoutVote"} =>
                      Carries(A, Taken(r, s), [msgQueue EXCEPT ![r] = Put(@, m)], H)
               /\ H \in [Replica -> SUBSET CogsworthMsg] =>
                      Carries(A, Taken(r, s), msgQueue, [H EXCEPT ![r] = {m}])
<1> DEFINE m == Head(net[s][r])
           left == Taken(r, s)
<1>1. /\ 1 \in DOMAIN net[s][r] /\ m = net[s][r][1]
      /\ \A d, t \in Replica : \A i \in DOMAIN left[t][d] :
            IF d = r /\ t = s
            THEN /\ i + 1 \in DOMAIN net[t][d] /\ 1 < i + 1
                 /\ left[t][d][i] = net[t][d][i + 1]
            ELSE /\ i \in DOMAIN net[t][d]
                 /\ left[t][d][i] = net[t][d][i]
      /\ \A d, t \in Replica : DOMAIN left[t][d] \subseteq Nat
  BY TakenOnTheWay
<1>2. \A d \in Replica : /\ \A t \in Replica : InOrder(A[d][t], net[t][d])
                        /\ Behind(A, net, d, msgQueue[d], H[d])
  BY DEF Carries
<1>m. msgQueue \in [Replica -> SUBSET CogsworthMsg]
  BY DEF HandlerTypeOK, ImplTypeOK
<1> HIDE DEF m, left
<1>3. m \in A[r][s]
  BY <1>1, <1>2 DEF InOrder
<1>4. ASSUME NEW d \in Replica, NEW t \in Replica
      PROVE  InOrder(A[d][t], left[t][d])
  <2>1. ASSUME NEW i \in DOMAIN left[t][d], NEW j \in DOMAIN left[t][d], i < j
        PROVE  ~Overtakes(left[t][d][i], left[t][d][j])
    <3>1. i \in Nat /\ j \in Nat
      BY <1>1
    <3> QED
      BY <1>1, <1>2, <2>1, <3>1 DEF InOrder
  <2> QED
    BY <1>1, <1>2, <2>1 DEF InOrder
<1>5. ASSUME NEW d \in Replica
      PROVE  Behind(A, left, d, msgQueue[d], H[d])
  BY <1>1, <1>2 DEF Behind
<1>6. ASSUME NEW t \in Replica, NEW i \in DOMAIN left[t][r]
      PROVE  ~Overtakes(m, left[t][r][i])
  <2>1. CASE t = s
    BY <1>1, <1>2, <2>1 DEF InOrder
  <2>2. CASE t # s
    <3>1. left[t][r][i] \in A[r][t]
      BY <1>4 DEF InOrder
    <3> QED
      BY <1>3, <2>2, <3>1 DEF FromLeaders, Overtakes
  <2> QED
    BY <2>1, <2>2
<1>7. ASSUME H[r] = {}, m.type \notin VoteType \cup {"TimeoutVote"}
      PROVE  Carries(A, left, [msgQueue EXCEPT ![r] = Put(@, m)], H)
  <2>1. Behind(A, left, r, Put(msgQueue[r], m), H[r])
    BY <1>3, <1>5, <1>6, <1>7 DEF Behind, Put
  <2>2. \A d \in Replica : [msgQueue EXCEPT ![r] = Put(@, m)][d]
                            = IF d = r THEN Put(msgQueue[r], m) ELSE msgQueue[d]
    BY <1>m
  <2> QED
    BY <1>4, <1>5, <2>1, <2>2 DEF Carries
<1>8. ASSUME H \in [Replica -> SUBSET CogsworthMsg]
      PROVE  Carries(A, left, msgQueue, [H EXCEPT ![r] = {m}])
  <2>1. ASSUME NEW c \in msgQueue[r]
        PROVE  ~Overtakes(c, m)
    BY <1>1, <1>2 DEF Behind
  <2>2. Behind(A, left, r, msgQueue[r], {m})
    BY <1>3, <1>5, <2>1 DEF Behind
  <2>3. \A d \in Replica : [H EXCEPT ![r] = {m}][d] = IF d = r THEN {m} ELSE H[d]
    BY <1>8
  <2> QED
    BY <1>4, <1>5, <2>2, <2>3 DEF Carries
<1> QED
  BY <1>3, <1>4, <1>5, <1>7, <1>8 DEF Carries, m, left

-----------------------------------------------------------------------------
(* The inductive invariant: replicas. *)

\* LeadsWhatItCounts, CountsItself, OwnVoteFirst, TokenAfterViewChange,
\* TokenDiscipline and StopsOnlyWithoutBlock, of one replica.
CountsOwnViews(r) ==
    /\ \A p \in wishes[r] :
          /\ GetLeaderByView(p[1]) = r
          /\ 2 <= p[1] /\ p[1] <= view[r]
          /\ p[1] \notin wishFinished[r]
    /\ \A v \in wishFinished[r] :
          GetLeaderByView(v) = r /\ 2 <= v /\ v <= view[r]
    /\ \A v \in timeoutVoteFinished[r] :
          GetLeaderByView(v) = r => v \in wishFinished[r]
    /\ Leader(r) = r /\ view[r] >= 2 /\ view[r] \notin wishFinished[r] =>
          <<view[r], r>> \in wishes[r]

VotesForItself(r) ==
    /\ status[r] = "up" =>
          \A v \in wishFinished[r] \ timeoutVoteFinished[r] :
              <<v, r>> \in timeoutVotes[r]
    /\ \A p \in timeoutVotes[r] :
          p[1] \in wishFinished[r] /\ <<p[1], r>> \in timeoutVotes[r]

TokenOf(r) ==
    /\ Leader(r) = r /\ view[r] >= 2 /\ view[r] \notin timeoutVoteFinished[r] =>
          ~holding[r] /\ ~HasProposal(view[r])
    /\ holding[r] => Leader(r) = r /\ ~timer[r] /\ ~HasProposal(view[r])

Stopped(r) ==
    status[r] # "up" =>
        /\ status[r] = "panicked"
        /\ Leader(r) = r
        /\ ~Has(blockChain[r], highQC[r].hash)

Local(r) ==
    view[r] >= 1 /\ CountsOwnViews(r) /\ VotesForItself(r) /\ TokenOf(r) /\ Stopped(r)

LocalInv ==
    /\ ProposedByLeader
    /\ OneProposalPerView
    /\ \A r \in Replica : Local(r)

IInv ==
    /\ LocalInv
    /\ HeldIsCurrent
    /\ Carries(Sent, net, msgQueue, hand)

LEMMA InvByParts == CogsworthTypeOK /\ IInv => CogsworthInv
<1> SUFFICES ASSUME CogsworthTypeOK, IInv
             PROVE  CogsworthInv
  OBVIOUS
<1>1. ViewsPositive /\ ProposedByLeader /\ HeldIsCurrent /\ OneProposalPerView
  BY DEF IInv, LocalInv, Local, ViewsPositive
<1>2. LeadsWhatItCounts
  BY DEF IInv, LocalInv, Local, CountsOwnViews, LeadsWhatItCounts
<1>3. CountsItself
  BY DEF IInv, LocalInv, Local, CountsOwnViews, VotesForItself, CountsItself
<1>4. TokenAfterViewChange /\ TokenDiscipline
  BY DEF IInv, LocalInv, Local, TokenOf, TokenAfterViewChange, TokenDiscipline
<1>5. StopsOnlyWithoutBlock
  BY DEF IInv, LocalInv, Local, Stopped, StopsOnlyWithoutBlock
<1>6. OwnWishFirst
  <2> SUFFICES ASSUME NEW r \in Replica, NEW p \in wishes[r], p[1] = view[r]
               PROVE  <<view[r], r>> \in wishes[r]
    BY DEF OwnWishFirst
  <2>1. CountsOwnViews(r)
    BY DEF IInv, LocalInv, Local
  <2> QED
    BY <2>1 DEF CountsOwnViews, Leader
<1>7. ASSUME NEW d \in Replica
      PROVE  /\ \A s \in Replica : InOrder(Sent[d][s], net[s][d])
             /\ Behind(Sent, net, d, msgQueue[d], hand[d])
  BY DEF IInv, Carries
<1>8. \A d, s \in Replica : \A m \in Sent[d][s] : IsSent(s, d, m)
  BY DEF Sent
<1>9. NoVoteQueued /\ OwnVoteFirst
  BY <1>7 DEF Behind, NoVoteQueued, OwnVoteFirst, IInv, LocalInv, Local, VotesForItself
<1>10. MessagesSent
  BY <1>7, <1>8 DEF MessagesSent, OnTheWay, InOrder, Behind
<1>11. DecideIsLast
  BY <1>7 DEF DecideIsLast, OnTheWay, InOrder, Behind
<1> QED
  BY <1>1, <1>2, <1>3, <1>4, <1>5, <1>6, <1>9, <1>10, <1>11 DEF CogsworthInv

LEMMA InitInv == CogsworthInit => IInv
<1> SUFFICES ASSUME CogsworthInit
             PROVE  IInv
  OBVIOUS
<1>1. Carries(Sent, net, msgQueue, hand)
  BY DEF CogsworthInit, Init, Carries, InOrder, Behind
<1>2. HeldIsCurrent /\ ProposedByLeader /\ OneProposalPerView
  BY DEF CogsworthInit, Init, HeldIsCurrent, ProposedByLeader, OneProposalPerView
<1>3. ASSUME NEW r \in Replica
      PROVE  Local(r)
  <2>1. /\ view[r] = 1 /\ status[r] = "up" /\ ~timer[r] /\ proposed = {}
        /\ holding[r] => r = GetLeaderByView(1)
        /\ wishes[r] = {} /\ wishFinished[r] = {}
        /\ timeoutVotes[r] = {} /\ timeoutVoteFinished[r] = {}
    BY DEF CogsworthInit, Init
  <2> QED
    BY <2>1 DEF Local, CountsOwnViews, VotesForItself, TokenOf, Stopped, Leader,
                HasProposal
<1> QED
  BY <1>1, <1>2, <1>3 DEF IInv, LocalInv

\* Nothing overtakes but a decision, and nothing that any replica may have sent
\* overtakes what the leader of a view sends while it is in it.
LEMMA SentFacts ==
    /\ FromLeaders(Sent)
    /\ \A d, s \in Replica : \A m \in Sent[d][s] :
          m \in CogsworthMsg /\ IsSent(s, d, m)
BY DEF Sent, FromLeaders, IsSent, LeaderType, VoteType, ViewChangeType

LEMMA NotOvertaken ==
    ASSUME HandlerTypeOK', NEW r \in Replica, NEW x \in CogsworthMsg,
           x.type \in ViewChangeType => Leader(r)' = r /\ x.view = view'[r]
    PROVE  \A d, s \in Replica : \A m \in Sent'[d][s] : ~Overtakes(m, x)
<1> SUFFICES ASSUME NEW d \in Replica, NEW s \in Replica, NEW m \in Sent'[d][s],
                    Overtakes(m, x)
             PROVE  FALSE
  OBVIOUS
<1>1. IsSent(s, d, m)'
  BY DEF Sent
<1>2. m.type = "Decide" /\ x.type \in ViewChangeType /\ x.view = m.view
  BY DEF Overtakes
<1>3. GetLeaderByView(m.view) = s /\ m.view < view'[s]
  BY <1>1, <1>2 DEF IsSent, LeaderType, VoteType, ViewChangeType
<1>4. s = r /\ m.view = view'[r] /\ view'[r] \in Nat
  BY <1>2, <1>3 DEF Leader, HandlerTypeOK, ImplTypeOK, View
<1> QED
  BY <1>3, <1>4

\* What may have been sent stays so.
LEMMA SentGrows ==
    ASSUME HandlerTypeOK, HandlerTypeOK',
           \A s \in Replica : /\ view[s] <= view'[s]
                              /\ wishFinished[s] \subseteq wishFinished'[s],
           proposed \subseteq proposed'
    PROVE  \A d, s \in Replica : Sent[d][s] \subseteq Sent'[d][s]
<1> SUFFICES ASSUME NEW d \in Replica, NEW s \in Replica, NEW m \in CogsworthMsg,
                    IsSent(s, d, m)
             PROVE  IsSent(s, d, m)'
  BY DEF Sent
<1>1. /\ view[s] \in Nat /\ view'[s] \in Nat /\ m.view \in Nat
      /\ view[s] <= view'[s]
      /\ wishFinished[s] \subseteq wishFinished'[s]
      /\ wishFinished[d] \subseteq wishFinished'[d]
  BY MsgFields DEF HandlerTypeOK, ImplTypeOK, View
<1> QED
  BY <1>1 DEF IsSent

\* A replica keeps its part of the invariant in a step of another one.
LEMMA OthersKeepLocal ==
    ASSUME NEW s \in Replica, Local(s),
           /\ view'[s] = view[s] /\ wishes'[s] = wishes[s]
           /\ wishFinished'[s] = wishFinished[s] /\ timeoutVotes'[s] = timeoutVotes[s]
           /\ timeoutVoteFinished'[s] = timeoutVoteFinished[s]
           /\ holding'[s] = holding[s] /\ timer'[s] = timer[s]
           /\ status'[s] = status[s] /\ blockChain'[s] = blockChain[s]
           /\ highQC'[s] = highQC[s],
           Leader(s) = s => HasProposal(view[s])' = HasProposal(view[s])
    PROVE  Local(s)'
<1>1. Leader(s)' = Leader(s)
  BY DEF Leader
<1>2. /\ view[s] >= 1
      /\ CountsOwnViews(s) /\ VotesForItself(s) /\ TokenOf(s) /\ Stopped(s)
  BY DEF Local
<1>3. CountsOwnViews(s)' /\ VotesForItself(s)' /\ Stopped(s)'
  BY <1>1, <1>2 DEF CountsOwnViews, VotesForItself, Stopped
<1>4. TokenOf(s)'
  BY <1>1, <1>2 DEF TokenOf
<1> QED
  BY <1>2, <1>3, <1>4 DEF Local

\* Replicas go on, and one of them sends x.
LEMMA SendKeepsMessages ==
    ASSUME HandlerTypeOK, HandlerTypeOK',
           \A s \in Replica : /\ view[s] <= view'[s]
                              /\ wishFinished[s] \subseteq wishFinished'[s],
           proposed \subseteq proposed',
           NEW n \in Net, NEW Q, NEW H, Carries(Sent, n, Q, H) \/ Carries(Sent', n, Q, H),
           NEW r \in Replica, NEW x \in CogsworthMsg, NEW D \in SUBSET Replica,
           \A d \in D : IsSent(r, d, x)',
           x.type \in ViewChangeType => Leader(r)' = r /\ x.view = view'[r]
    PROVE  Carries(Sent', Send(n, r, x, D), Q, H)
<1>1. Carries(Sent', n, Q, H)
  <2>1. \A d, s \in Replica : Sent[d][s] \subseteq Sent'[d][s]
    BY SentGrows
  <2>2. \A d \in Replica : Q[d] \subseteq Q[d] /\ H[d] \subseteq H[d]
    OBVIOUS
  <2>3. Carries(Sent, n, Q, H) => Carries(Sent', n, Q, H)
    BY <2>1, <2>2, CarriesMore
  <2> QED
    BY <2>3
<1>2. \A d \in D : x \in Sent'[d][r]
  BY DEF Sent
<1>3. \A d, s \in Replica : \A m \in Sent'[d][s] : ~Overtakes(m, x)
  BY NotOvertaken
<1> QED
  BY <1>1, <1>2, <1>3, CarriesSend

\* Nothing is sent.
LEMMA SilenceKeepsMessages ==
    ASSUME HandlerTypeOK, HandlerTypeOK',
           \A s \in Replica : /\ view[s] <= view'[s]
                              /\ wishFinished[s] \subseteq wishFinished'[s],
           proposed \subseteq proposed',
           NEW n \in Net, NEW Q, NEW H, Carries(Sent, n, Q, H)
    PROVE  Carries(Sent', n, Q, H)
<1>1. \A d, s \in Replica : Sent[d][s] \subseteq Sent'[d][s]
  BY SentGrows
<1>2. \A d \in Replica : Q[d] \subseteq Q[d] /\ H[d] \subseteq H[d]
  OBVIOUS
<1> QED
  BY <1>1, <1>2, CarriesMore

-----------------------------------------------------------------------------
(* Handlers keep the invariant. *)

\* Is it time for m in r?
Due(r, m) ==
    /\ m \in CogsworthMsg
    /\ \E s \in Replica : IsSent(s, r, m)
    /\ GetLeaderByView(m.view) = r \/ m.type \in ViewChangeType => m.view = view[r]

\* Replica r handles m, and has hands H then.
Handling(r, m, n, q, H) ==
    /\ HandlerTypeOK /\ HandlerTypeOK'
    /\ LocalInv
    /\ status[r] = "up" /\ Due(r, m)
    /\ Carries(Sent, n, [msgQueue EXCEPT ![r] = q], H)
    /\ proposed \in SUBSET Block /\ UNCHANGED proposed

Handled(H) == LocalInv' /\ Carries(Sent', net', msgQueue', H)

\* Only r does something.
OnlyOf(r) ==
    \A s \in Replica \ {r} :
        /\ view'[s] = view[s] /\ wishes'[s] = wishes[s]
        /\ wishFinished'[s] = wishFinished[s] /\ timeoutVotes'[s] = timeoutVotes[s]
        /\ timeoutVoteFinished'[s] = timeoutVoteFinished[s]
        /\ holding'[s] = holding[s] /\ timer'[s] = timer[s]
        /\ status'[s] = status[s] /\ blockChain'[s] = blockChain[s]
        /\ highQC'[s] = highQC[s]

LEMMA LocalSuffices ==
    ASSUME HandlerTypeOK, HandlerTypeOK', LocalInv, proposed \in SUBSET Block,
           NEW r \in Replica, OnlyOf(r), UNCHANGED proposed, view[r] <= view'[r], Local(r)'
    PROVE  LocalInv'
<1>1. \A s \in Replica : view[s] \in Nat /\ view'[s] \in Nat /\ view[s] <= view'[s]
  BY DEF OnlyOf, HandlerTypeOK, ImplTypeOK, View
<1>2. ProposedByLeader'
  <2> SUFFICES ASSUME NEW b \in proposed
               PROVE  /\ b.view >= 1
                      /\ b.proposer = GetLeaderByView(b.view)
                      /\ b.view <= view'[b.proposer]
    BY DEF ProposedByLeader
  <2>1. /\ b.view >= 1
        /\ b.proposer = GetLeaderByView(b.view)
        /\ b.view <= view[b.proposer]
    BY DEF LocalInv, ProposedByLeader
  <2>2. b.view \in Nat /\ b.proposer \in Replica
    BY <2>1, LeaderIsReplica DEF Block, View
  <2> QED
    BY <1>1, <2>1, <2>2
<1>3. OneProposalPerView'
  BY DEF LocalInv, OneProposalPerView
<1>4. ASSUME NEW s \in Replica
      PROVE  Local(s)'
  <2>1. CASE s # r
    <3>1. Local(s) /\ HasProposal(view[s])' = HasProposal(view[s])
      BY <2>1 DEF LocalInv, HasProposal, OnlyOf
    <3> QED
      BY <2>1, <3>1, OthersKeepLocal DEF OnlyOf
  <2> QED
    BY <2>1
<1> QED
  BY <1>2, <1>3, <1>4 DEF LocalInv

\* The replica stays in its view, and only its timeout may be armed.
StaysInView ==
    /\ UNCHANGED <<view, holding, status, proposed>>
    /\ UNCHANGED pacemakerVars

LEMMA StayKeepsLocal ==
    ASSUME NEW r \in Replica, Local(r), status[r] = "up", StaysInView,
           timer'[r] => timer[r] \/ HasProposal(view[r])
    PROVE  Local(r)'
<1> USE DEF StaysInView, pacemakerVars
<1>1. Leader(r)' = Leader(r) /\ HasProposal(view[r])' = HasProposal(view[r])
  BY DEF Leader, HasProposal
<1>2. CountsOwnViews(r)' /\ VotesForItself(r)' /\ Stopped(r)'
  BY <1>1 DEF Local, CountsOwnViews, VotesForItself, Stopped
<1>3. TokenOf(r)'
  BY <1>1 DEF Local, TokenOf
<1> QED
  BY <1>2, <1>3 DEF Local

\* A message of a phase comes from the leader of the view or goes to it, and its
\* block is the one proposed in the view.
LEMMA PhaseMsgDue ==
    ASSUME HandlerTypeOK, NEW r \in Replica, NEW m, Due(r, m),
           m.type \in VoteType \cup LeaderType
    PROVE  /\ m.block \in proposed /\ m.block.view = m.view /\ m.block \in Block
           /\ m.view \in View
           /\ m.type \in VoteType => Leader(r) = r /\ m.view = view[r]
           /\ m.type \in LeaderType /\ m.view = view[r] =>
                 Leader(r) \in Replica \ {r}
<1>1. PICK s \in Replica : IsSent(s, r, m)
  BY DEF Due
<1>2. m.view \in View /\ m.block \in Block
  BY MsgFields DEF Due
<1> QED
  BY <1>1, <1>2 DEF IsSent, VoteType, LeaderType, ViewChangeType, Due, Leader

LEMMA PhaseKeepsInv ==
    ASSUME NEW r \in Replica, NEW m, NEW n \in Net, NEW q, NEW H,
           Handling(r, m, n, q, H),
           OnReceivePhaseMsg(r, m, n, q), UNCHANGED pacemakerVars
    PROVE  Handled(H) /\ UNCHANGED view
<1>1. /\ HandlerTypeOK /\ HandlerTypeOK' /\ LocalInv /\ status[r] = "up" /\ Due(r, m)
      /\ Carries(Sent, n, [msgQueue EXCEPT ![r] = q], H)
      /\ proposed \in SUBSET Block /\ UNCHANGED proposed
      /\ Local(r) /\ m \in CogsworthMsg
  BY DEF Handling, LocalInv, Due
<1>2. m.type \in VoteType \cup LeaderType
  BY DEF OnReceivePhaseMsg, VoteType, LeaderType
<1>3. /\ m.block \in proposed /\ m.block.view = m.view /\ m.block \in Block
      /\ m.view \in View
      /\ m.type \in VoteType => Leader(r) = r /\ m.view = view[r]
      /\ m.type \in LeaderType /\ m.view = view[r] => Leader(r) \in Replica \ {r}
  BY <1>1, <1>2, PhaseMsgDue
\* It is ignored or stored, or answered with a vote, or a phase starts.
<1>4. /\ UNCHANGED <<view, highQC, holding, status, chainVars>>
      /\ msgQueue' = [msgQueue EXCEPT ![r] = q]
      /\ \/ UNCHANGED timer /\ net' = n
         \/ /\ m.view = view[r]
            /\ timer' = [timer EXCEPT ![r] = TRUE]
            /\ \/ /\ m.type \in LeaderType
                  /\ \E type \in VoteType :
                        net' = Unicast(n, r, Leader(r), VoteFrom(r, type, m.block))
               \/ /\ m.type \in VoteType
                  /\ \E type \in {"PreCommit", "Commit"} :
                        net' = Multicast(n, r, PhaseMsg(type, view[r], m.block,
                                                       CreateQuorumCert(m.block)))
  <2> USE DEF VoteType, LeaderType, viewVars, chainVars
  <2>1. CASE m.type = "Prepare" /\ OnReceivePrepare(r, m, n, q)
    BY <2>1 DEF OnReceivePrepare, MatchingMsg, Vote, Ignore
  <2>2. CASE m.type = "PreCommit" /\ OnReceivePreCommit(r, m, n, q)
    BY <2>2 DEF OnReceivePreCommit, AcceptQC, MatchingMsg, Vote, Ignore
  <2>3. CASE m.type = "Commit" /\ OnReceiveCommit(r, m, n, q)
    BY <2>3 DEF OnReceiveCommit, AcceptQC, MatchingMsg, Vote, Ignore
  <2>4. CASE m.type = "PrepareVote" /\ OnReceivePrepareVote(r, m, n, q)
    BY <2>4, <1>3 DEF OnReceivePrepareVote, StoreVote, StartPhase, Ignore
  <2>5. CASE m.type = "PreCommitVote" /\ OnReceivePreCommitVote(r, m, n, q)
    BY <2>5, <1>3 DEF OnReceivePreCommitVote, MatchingMsg, StoreVote, StartPhase, Ignore
  <2> QED
    BY <2>1, <2>2, <2>3, <2>4, <2>5 DEF OnReceivePhaseMsg
<1>5. LocalInv'
  <2>1. StaysInView
    BY <1>1, <1>4 DEF StaysInView
  <2>2. timer'[r] => timer[r] \/ HasProposal(view[r])
    BY <1>1, <1>3, <1>4 DEF HasProposal, HandlerTypeOK, ImplTypeOK
  <2>3. Local(r)'
    BY <1>1, <2>1, <2>2, StayKeepsLocal
  <2>4. \A s \in Replica \ {r} : timer'[s] = timer[s]
    BY <1>1, <1>4 DEF HandlerTypeOK, ImplTypeOK
  <2>5. OnlyOf(r)
    BY <1>4, <2>4 DEF OnlyOf, pacemakerVars, chainVars
  <2>6. view[r] <= view'[r]
    BY <1>1, <1>4 DEF HandlerTypeOK, ImplTypeOK, View
  <2> QED
    BY <1>1, <2>3, <2>5, <2>6, LocalSuffices
<1>6. Carries(Sent', net', msgQueue', H)
  <2> DEFINE Q == [msgQueue EXCEPT ![r] = q]
  <2>1. /\ \A s \in Replica : /\ view[s] <= view'[s]
                              /\ wishFinished[s] \subseteq wishFinished'[s]
        /\ proposed \subseteq proposed'
        /\ Carries(Sent, n, Q, H) /\ msgQueue' = Q
    BY <1>1, <1>4 DEF HandlerTypeOK, ImplTypeOK, View, pacemakerVars
  <2> HIDE DEF Q
  <2>2. CASE net' = n
    BY <1>1, <2>1, <2>2, SilenceKeepsMessages
  <2>3. ASSUME NEW type \in VoteType, m.type \in LeaderType, m.view = view[r],
               net' = Unicast(n, r, Leader(r), VoteFrom(r, type, m.block))
        PROVE  Carries(Sent', net', Q, H)
    <3> PICK x, d : x = VoteFrom(r, type, m.block) /\ d = Leader(r)
      OBVIOUS
    <3>1. d \in Replica \ {r} /\ {d} \in SUBSET Replica
      BY <1>3, <2>3
    <3>2. x \in CogsworthMsg /\ x.type = type
      BY <1>1, <1>3, VoteMsgType DEF HandlerTypeOK, ImplTypeOK, CogsworthMsg, VoteFrom
    <3>3. x.type \notin ViewChangeType
      BY <3>2 DEF VoteType, ViewChangeType
    <3>4. \A e \in {d} : IsSent(r, e, x)'
      BY <1>1, <1>3, <1>4, <2>3, <3>1 DEF IsSent, VoteFrom, Leader
    <3>5. net' = Send(n, r, x, {d})
      BY <2>3, <3>1, UnicastSends DEF Net
    <3> QED
      BY <1>1, <2>1, <3>1, <3>2, <3>3, <3>4, <3>5, SendKeepsMessages
  <2>4. ASSUME NEW type \in {"PreCommit", "Commit"}, m.type \in VoteType, m.view = view[r],
               net' = Multicast(n, r, PhaseMsg(type, view[r], m.block,
                                               CreateQuorumCert(m.block)))
        PROVE  Carries(Sent', net', Q, H)
    <3> PICK x : x = PhaseMsg(type, view[r], m.block, CreateQuorumCert(m.block))
      OBVIOUS
    <3> DEFINE D == Replica \ {r}
    <3>1. CreateQuorumCert(m.block) \in QuorumCert /\ view[r] \in View
      BY <1>1, <1>3, QuorumCertType DEF HandlerTypeOK, ImplTypeOK
    <3>2. x \in CogsworthMsg /\ x.type = type
      BY <1>3, <3>1, LeaderMsgType DEF LeaderType, CogsworthMsg, PhaseMsg
    <3>3. x.type \notin ViewChangeType
      BY <3>2 DEF ViewChangeType
    <3>4. \A d \in D : IsSent(r, d, x)'
      BY <1>1, <1>3, <1>4, <2>4 DEF IsSent, PhaseMsg, Leader, LeaderType
    <3>5. net' = Send(n, r, x, D)
      BY <2>4, MulticastSends DEF Net
    <3>6. D \in SUBSET Replica
      OBVIOUS
    <3> HIDE DEF D
    <3> QED
      BY <1>1, <2>1, <3>2, <3>3, <3>4, <3>5, <3>6, SendKeepsMessages
  <2> QED
    BY <1>4, <2>1, <2>2, <2>3, <2>4
<1> QED
  BY <1>4, <1>5, <1>6 DEF Handled

\* A replica without the token goes to the next view.
LEMMA AdvanceKeepsLocal ==
    ASSUME HandlerTypeOK, HandlerTypeOK', LocalInv, proposed \in SUBSET Block,
           UNCHANGED proposed, NEW r \in Replica, status[r] = "up", ~holding[r],
           NEW n, NEW q, NEW vs, NEW hqc, WishToAdvance(r, n, q, vs, hqc)
    PROVE  Local(r)'
<1> DEFINE next == view[r] + 1
<1>1. /\ Local(r) /\ view[r] \in Nat /\ next \in Nat /\ view[r] < next
      /\ wishes[r] \subseteq View \X Replica /\ wishFinished[r] \subseteq View
  BY DEF LocalInv, HandlerTypeOK, ImplTypeOK, PacemakerTypeOK, View
<1>2. /\ view'[r] = next /\ status'[r] = "up" /\ ~holding'[r]
      /\ wishFinished'[r] = wishFinished[r] /\ timeoutVotes'[r] = timeoutVotes[r]
      /\ timeoutVoteFinished'[r] = timeoutVoteFinished[r]
      /\ \/ GetLeaderByView(next) # r /\ wishes'[r] = wishes[r]
         \/ GetLeaderByView(next) = r /\ wishes'[r] = wishes[r] \cup {<<next, r>>}
  BY DEF WishToAdvance, HandlerTypeOK, ImplTypeOK, PacemakerTypeOK
<1>3. Leader(r)' = GetLeaderByView(next)
  BY <1>2 DEF Leader
<1>4. GetLeaderByView(next) = r => \A b \in proposed : b.view # next
  BY <1>1 DEF LocalInv, ProposedByLeader
<1> HIDE DEF next
<1>5. CountsOwnViews(r)'
  <2>1. \A p \in wishes[r] :
          /\ GetLeaderByView(p[1]) = r
          /\ 2 <= p[1] /\ p[1] <= view[r]
          /\ p[1] \notin wishFinished[r]
          /\ p[1] \in Nat
    BY <1>1 DEF Local, CountsOwnViews, View
  <2>2. \A v \in wishFinished[r] :
          GetLeaderByView(v) = r /\ 2 <= v /\ v <= view[r] /\ v \in Nat
    BY <1>1 DEF Local, CountsOwnViews, View
  <2>3. 2 <= next /\ next \notin wishFinished[r]
    BY <1>1, <2>2 DEF Local, next
  <2>4. \A v \in timeoutVoteFinished[r] : GetLeaderByView(v) = r => v \in wishFinished[r]
    BY <1>1 DEF Local, CountsOwnViews
  <2>5. \A p \in wishes'[r] :
          /\ GetLeaderByView(p[1]) = r
          /\ 2 <= p[1] /\ p[1] <= next
          /\ p[1] \notin wishFinished[r]
    BY <1>1, <1>2, <2>1, <2>3
  <2>6. \A v \in wishFinished[r] : GetLeaderByView(v) = r /\ 2 <= v /\ v <= next
    BY <1>1, <2>2
  <2> QED
    BY <1>2, <1>3, <2>4, <2>5, <2>6 DEF CountsOwnViews
<1>6. VotesForItself(r)' /\ Stopped(r)'
  BY <1>1, <1>2 DEF Local, VotesForItself, Stopped
<1>7. TokenOf(r)'
  BY <1>2, <1>3, <1>4 DEF TokenOf, HasProposal
<1> QED
  BY <1>1, <1>2, <1>5, <1>6, <1>7 DEF Local, next

LEMMA AdvanceKeepsInv ==
    ASSUME HandlerTypeOK, HandlerTypeOK', LocalInv, proposed \in SUBSET Block,
           UNCHANGED proposed, NEW r \in Replica, status[r] = "up", ~holding[r],
           NEW n \in Net, NEW q, NEW vs, NEW hqc, WishToAdvance(r, n, q, vs, hqc),
           \A s \in Replica \ {r} : blockChain'[s] = blockChain[s],
           NEW H, \/ Carries(Sent, n, [msgQueue EXCEPT ![r] = q], H)
                  \/ Carries(Sent', n, [msgQueue EXCEPT ![r] = q], H)
    PROVE  Handled(H)
<1> DEFINE next == view[r] + 1
           Q == [msgQueue EXCEPT ![r] = q]
<1>1. view \in [Replica -> Nat] /\ next \in View /\ 2 <= next /\ view[r] <= next
  BY DEF HandlerTypeOK, ImplTypeOK, View, LocalInv, Local
<1>2. /\ view' = [view EXCEPT ![r] = next] /\ msgQueue' = Q
      /\ UNCHANGED <<wishFinished, timeoutVotes, timeoutVoteFinished, holding, status>>
      /\ \A s \in Replica \ {r} :
            timer'[s] = timer[s] /\ highQC'[s] = highQC[s] /\ wishes'[s] = wishes[s]
      /\ \/ /\ GetLeaderByView(next) # r
            /\ net' = Unicast(n, r, GetLeaderByView(next), WishFrom(r, next))
         \/ net' = n
  BY DEF WishToAdvance, HandlerTypeOK, ImplTypeOK, PacemakerTypeOK
<1> HIDE DEF next, Q
<1>3. LocalInv'
  <2>1. OnlyOf(r)
    BY <1>1, <1>2 DEF OnlyOf
  <2>2. view[r] <= view'[r]
    BY <1>1, <1>2
  <2> QED
    BY <2>1, <2>2, AdvanceKeepsLocal, LocalSuffices
<1>4. Carries(Sent', net', Q, H)
  <2>1. /\ \A s \in Replica : /\ view[s] <= view'[s]
                              /\ wishFinished[s] \subseteq wishFinished'[s]
        /\ proposed \subseteq proposed'
        /\ Carries(Sent, n, Q, H) \/ Carries(Sent', n, Q, H)
    BY <1>1, <1>2 DEF Q
  <2>2. CASE net' = n
    BY <2>1, <2>2, SilenceKeepsMessages
  <2>3. CASE /\ GetLeaderByView(next) # r
             /\ net' = Unicast(n, r, GetLeaderByView(next), WishFrom(r, next))
    <3> PICK x, d : x = WishFrom(r, next) /\ d = GetLeaderByView(next)
      OBVIOUS
    <3>1. d \in Replica \ {r} /\ {d} \in SUBSET Replica
      BY <1>1, <2>3, LeaderIsReplica
    <3>2. x \in CogsworthMsg
      BY <1>1, PacemakerMsgType
    <3>3. x.type \notin ViewChangeType
      BY DEF WishFrom, ViewChangeType
    <3>4. \A e \in {d} : IsSent(r, e, x)'
      <4>1. /\ x.type = "WishNextView" /\ x.from = r /\ x.view = next
            /\ view'[r] = next /\ next <= next
        BY <1>1, <1>2 DEF WishFrom, View
      <4> QED
        BY <1>1, <3>1, <4>1 DEF IsSent
    <3>5. net' = Send(n, r, x, {d})
      BY <2>3, <3>1, UnicastSends DEF Net
    <3> QED
      BY <2>1, <3>1, <3>2, <3>3, <3>4, <3>5, SendKeepsMessages
  <2> QED
    BY <1>2, <2>2, <2>3
<1> QED
  BY <1>2, <1>3, <1>4 DEF Handled

\* A block is decided.
LEMMA DecisionKeepsInv ==
    ASSUME NEW r \in Replica, NEW m, NEW n \in Net, NEW q, NEW H,
           Handling(r, m, n, q, H),
           \/ m.type = "CommitVote" /\ OnReceiveCommitVote(r, m, n, q)
           \/ m.type = "Decide" /\ OnReceiveDecide(r, m, n, q)
    PROVE  Handled(H) /\ \A s \in Replica \ {r} : view'[s] = view[s]
<1> DEFINE Q == [msgQueue EXCEPT ![r] = q]
<1>1. /\ HandlerTypeOK /\ HandlerTypeOK' /\ LocalInv /\ status[r] = "up" /\ Due(r, m)
      /\ Carries(Sent, n, Q, H)
      /\ proposed \in SUBSET Block /\ UNCHANGED proposed
      /\ Local(r) /\ m \in CogsworthMsg
  BY DEF Handling, LocalInv, Due
<1>2. m.type \in VoteType \cup LeaderType
  BY DEF VoteType, LeaderType
<1>3. /\ m.block \in proposed /\ m.block.view = m.view /\ m.block \in Block
      /\ m.view \in View
      /\ m.type \in VoteType => Leader(r) = r /\ m.view = view[r]
  BY <1>1, <1>2, PhaseMsgDue
<1>4. m.view = view[r] => ~holding[r]
  BY <1>1, <1>3 DEF Local, TokenOf, HasProposal
\* It is not.
<1>5. CASE /\ UNCHANGED <<view, highQC, holding, status, timer, blockChain>>
           /\ UNCHANGED pacemakerVars
           /\ net' = n /\ msgQueue' = Q
  <2>1. StaysInView
    BY <1>1, <1>5 DEF StaysInView
  <2>2. Local(r)'
    BY <1>1, <1>5, <2>1, StayKeepsLocal
  <2>3. OnlyOf(r) /\ view[r] <= view'[r]
    BY <1>1, <1>5 DEF OnlyOf, pacemakerVars, HandlerTypeOK, ImplTypeOK, View
  <2>4. LocalInv'
    BY <1>1, <2>2, <2>3, LocalSuffices
  <2>5. /\ \A s \in Replica : /\ view[s] <= view'[s]
                              /\ wishFinished[s] \subseteq wishFinished'[s]
        /\ proposed \subseteq proposed'
    BY <1>1, <1>5 DEF HandlerTypeOK, ImplTypeOK, View, pacemakerVars
  <2> HIDE DEF Q
  <2>6. Carries(Sent', n, Q, H)
    BY <1>1, <2>5, SilenceKeepsMessages
  <2> QED
    BY <1>5, <2>4, <2>6 DEF Handled
<1>6. CASE m.type = "CommitVote" /\ OnReceiveCommitVote(r, m, n, q)
  <2>1. CASE (Ignore(r, n, q) \/ StoreVote(r, m, n, q)) /\ UNCHANGED pacemakerVars
    BY <1>5, <2>1 DEF Ignore, StoreVote, viewVars, chainVars
  <2>2. CASE /\ Execute(r, m.block)
             /\ WishToAdvance(r,
                              Multicast(n, r, PhaseMsg("Decide", view[r], m.block,
                                                       CreateQuorumCert(m.block))),
                              q, LeftVotes(r, m), CreateQuorumCert(m.block))
    <3> PICK x, n2 : /\ x = PhaseMsg("Decide", view[r], m.block,
                                     CreateQuorumCert(m.block))
                     /\ n2 = Multicast(n, r, x)
      OBVIOUS
    <3> DEFINE D == Replica \ {r}
    <3>1. Leader(r) = r /\ m.view = view[r] /\ ~holding[r]
      BY <1>3, <1>4, <1>6 DEF VoteType
    <3>2. CreateQuorumCert(m.block) \in QuorumCert /\ view[r] \in View
      BY <1>1, <1>3, QuorumCertType DEF HandlerTypeOK, ImplTypeOK
    <3>3. x \in CogsworthMsg /\ x.type = "Decide"
      BY <1>3, <3>2, LeaderMsgType DEF LeaderType, CogsworthMsg, PhaseMsg
    <3>4. x.type \notin ViewChangeType /\ D \in SUBSET Replica
      BY <3>3 DEF ViewChangeType
    <3>5. n2 = Send(n, r, x, D) /\ n2 \in Net
      BY <3>3, MulticastSends, MulticastTypeOf DEF Net
    <3>6. view'[r] = view[r] + 1 /\ \A s \in Replica \ {r} : view'[s] = view[s]
      BY <1>1, <2>2 DEF WishToAdvance, HandlerTypeOK, ImplTypeOK
    <3>7. /\ \A s \in Replica : /\ view[s] <= view'[s]
                                /\ wishFinished[s] \subseteq wishFinished'[s]
          /\ proposed \subseteq proposed'
      BY <1>1, <2>2, <3>6 DEF WishToAdvance, HandlerTypeOK, ImplTypeOK, View
    <3>8. \A d \in D : IsSent(r, d, x)'
      BY <1>1, <1>3, <3>1, <3>2, <3>6 DEF IsSent, PhaseMsg, Leader, LeaderType, View
    <3> HIDE DEF D, Q
    <3>9. Carries(Sent', n2, Q, H)
      BY <1>1, <3>3, <3>4, <3>5, <3>7, <3>8, SendKeepsMessages
    <3>10. \A s \in Replica \ {r} : blockChain'[s] = blockChain[s]
      BY <1>1, <2>2 DEF Execute, HandlerTypeOK, ImplTypeOK
    <3>11. Handled(H)
      BY <1>1, <2>2, <3>1, <3>5, <3>9, <3>10, AdvanceKeepsInv DEF Q
    <3> QED
      BY <3>6, <3>11
  <2> QED
    BY <1>6, <2>1, <2>2 DEF OnReceiveCommitVote
<1>7. CASE m.type = "Decide" /\ OnReceiveDecide(r, m, n, q)
  <2>1. CASE Ignore(r, n, q) /\ UNCHANGED pacemakerVars
    BY <1>5, <2>1 DEF Ignore, viewVars, chainVars
  <2>2. CASE /\ AcceptQC(r, m)
             /\ Execute(r, m.block)
             /\ WishToAdvance(r, n, q, votes[r], m.qc)
    <3>1. ~holding[r]
      BY <1>4, <2>2 DEF AcceptQC, MatchingMsg
    <3>2. \A s \in Replica \ {r} : blockChain'[s] = blockChain[s] /\ view'[s] = view[s]
      BY <1>1, <2>2 DEF Execute, WishToAdvance, HandlerTypeOK, ImplTypeOK
    <3>3. Handled(H)
      BY <1>1, <2>2, <3>1, <3>2, AdvanceKeepsInv
    <3> QED
      BY <3>2, <3>3
  <2> QED
    BY <1>7, <2>1, <2>2 DEF OnReceiveDecide
<1> QED
  BY <1>6, <1>7

\* Messages about a view change are about the view of the replica, and wishes and
\* votes for the timeout certificate go to its leader.
LEMMA ViewChangeDue ==
    ASSUME HandlerTypeOK, LocalInv, NEW r \in Replica, NEW m, Due(r, m),
           m.type \in ViewChangeType \cup {"WishNextView", "TimeoutVote"}
    PROVE  /\ m.view = view[r] /\ m.view \in Nat /\ m.view >= 2
           /\ m.type \in ViewChangeType =>
                 Leader(r) \in Replica \ {r} /\ m.view \in wishFinished[Leader(r)]
           /\ m.type \in {"WishNextView", "TimeoutVote"} => Leader(r) = r
           /\ m.type = "TimeoutVote" => m.view \in wishFinished[r]
<1>1. PICK s \in Replica : IsSent(s, r, m)
  BY DEF Due
<1>2. m.view \in Nat
  BY MsgFields DEF Due, View
<1>3. m.view = view[r]
  BY <1>1 DEF Due, IsSent, ViewChangeType, VoteType, LeaderType
<1>4. /\ m.type \in ViewChangeType =>
            s = Leader(r) /\ Leader(r) # r /\ m.view \in wishFinished[s]
      /\ m.type \in {"WishNextView", "TimeoutVote"} => Leader(r) = r
      /\ m.type = "TimeoutVote" => m.view \in wishFinished[r]
      /\ m.type = "WishNextView" => m.view >= 2
  BY <1>1, <1>2, <1>3 DEF IsSent, ViewChangeType, VoteType, LeaderType, Leader
<1>5. \A t \in Replica : \A v \in wishFinished[t] : 2 <= v
  BY DEF LocalInv, Local, CountsOwnViews
<1> QED
  BY <1>1, <1>2, <1>3, <1>4, <1>5

LEMMA WishKeepsLocal ==
    ASSUME NEW r \in Replica, NEW m, NEW n \in Net, NEW q, NEW H,
           Handling(r, m, n, q, H),
           m.type = "WishNextView", OnReceiveWishNextView(r, m, n, q)
    PROVE  Local(r)'
<1> DEFINE counted == wishes[r] \cup {<<m.view, m.from>>}
           left == counted \ OfView(counted, m.view)
<1>1. /\ HandlerTypeOK /\ HandlerTypeOK' /\ Local(r) /\ status[r] = "up"
      /\ UNCHANGED proposed
  BY DEF Handling, LocalInv
<1>2. /\ m.view = view[r] /\ m.view \in Nat /\ m.view >= 2
      /\ Leader(r) = r /\ GetLeaderByView(m.view) = r
  BY ViewChangeDue DEF Handling, Leader
<1>3. /\ UNCHANGED <<view, holding, status, proposed, timeoutVoteFinished, blockChain,
                     highQC>>
      /\ Leader(r)' = r
      /\ HasProposal(view[r])' = HasProposal(view[r])
  BY <1>1, <1>2
     DEF OnReceiveWishNextView, Leader, HasProposal, pacemakerVars, chainVars
<1>4. Local(r)' \/ m.view \notin wishFinished[r]
  <2>1. CASE m.view \in wishFinished[r]
    <3>1. StaysInView /\ UNCHANGED timer
      BY <1>3, <2>1 DEF OnReceiveWishNextView, StaysInView, pacemakerVars
    <3> QED
      BY <1>1, <3>1, StayKeepsLocal
  <2> QED
    BY <2>1
<1> SUFFICES ASSUME m.view \notin wishFinished[r]
             PROVE  Local(r)'
  BY <1>4
<1>5. /\ <<m.view, r>> \in wishes[r]
      /\ m.view \notin timeoutVoteFinished[r]
      /\ ~holding[r] /\ ~HasProposal(view[r])
  BY <1>1, <1>2 DEF Local, CountsOwnViews, TokenOf
<1>6. TokenOf(r)' /\ Stopped(r)'
  BY <1>1, <1>3, <1>5 DEF TokenOf, Stopped
<1>7. \A p \in counted :
        /\ GetLeaderByView(p[1]) = r /\ 2 <= p[1] /\ p[1] <= view[r]
        /\ p[1] \notin wishFinished[r]
  BY <1>1, <1>2 DEF Local, CountsOwnViews
<1>8. CASE /\ wishes'[r] = counted /\ wishFinished'[r] = wishFinished[r]
           /\ timeoutVotes'[r] = timeoutVotes[r]
  <2> HIDE DEF counted
  <2>1. <<m.view, r>> \in counted
    BY <1>5 DEF counted
  <2>2. CountsOwnViews(r)'
    BY <1>1, <1>2, <1>3, <1>7, <1>8, <2>1 DEF Local, CountsOwnViews
  <2>3. VotesForItself(r)'
    BY <1>1, <1>3, <1>8 DEF Local, VotesForItself
  <2> QED
    BY <1>1, <1>3, <1>6, <2>2, <2>3 DEF Local
<1>9. CASE /\ wishes'[r] = left
           /\ wishFinished'[r] = wishFinished[r] \cup {m.view}
           /\ timeoutVotes'[r] = timeoutVotes[r] \cup {<<m.view, r>>}
  <2>1. \A p \in left : p \in counted /\ p[1] # m.view
    BY DEF OfView
  <2> HIDE DEF counted, left
  <2>2. CountsOwnViews(r)'
    BY <1>1, <1>2, <1>3, <1>7, <1>9, <2>1 DEF Local, CountsOwnViews
  <2>3. VotesForItself(r)'
    BY <1>1, <1>3, <1>9 DEF Local, VotesForItself
  <2> QED
    BY <1>1, <1>3, <1>6, <2>2, <2>3 DEF Local
<1> QED
  BY <1>1, <1>8, <1>9
     DEF OnReceiveWishNextView, pacemakerVars, HandlerTypeOK, PacemakerTypeOK

\* The leader counts a wish, and multicasts the timeout certificate.
LEMMA WishKeepsInv ==
    ASSUME NEW r \in Replica, NEW m, NEW n \in Net, NEW q, NEW H,
           Handling(r, m, n, q, H),
           m.type = "WishNextView", OnReceiveWishNextView(r, m, n, q)
    PROVE  Handled(H) /\ UNCHANGED view
<1> DEFINE Q == [msgQueue EXCEPT ![r] = q]
<1>1. /\ HandlerTypeOK /\ HandlerTypeOK' /\ LocalInv /\ Carries(Sent, n, Q, H)
      /\ proposed \in SUBSET Block /\ UNCHANGED proposed
  BY DEF Handling
<1>2. m.view = view[r] /\ m.view \in Nat /\ Leader(r) = r
  BY ViewChangeDue DEF Handling
<1>3. /\ UNCHANGED <<view, holding, status, blockChain, highQC, timeoutVoteFinished>>
      /\ msgQueue' = Q
      /\ \A s \in Replica \ {r} :
            /\ timer'[s] = timer[s] /\ wishes'[s] = wishes[s]
            /\ wishFinished'[s] = wishFinished[s]
            /\ timeoutVotes'[s] = timeoutVotes[s]
      /\ wishFinished[r] \subseteq wishFinished'[r]
      /\ \/ net' = n
         \/ /\ net' = Multicast(n, r, [type |-> "Timeout", view |-> m.view])
            /\ m.view \in wishFinished'[r]
  BY <1>1 DEF OnReceiveWishNextView, pacemakerVars, chainVars, HandlerTypeOK,
              ImplTypeOK, PacemakerTypeOK
<1> HIDE DEF Q
<1>4. LocalInv'
  <2>1. OnlyOf(r) /\ view[r] <= view'[r]
    BY <1>2, <1>3 DEF OnlyOf
  <2> QED
    BY <1>1, <2>1, WishKeepsLocal, LocalSuffices
<1>5. Carries(Sent', net', Q, H)
  <2>1. /\ \A s \in Replica : /\ view[s] <= view'[s]
                              /\ wishFinished[s] \subseteq wishFinished'[s]
        /\ proposed \subseteq proposed'
    BY <1>1, <1>3 DEF HandlerTypeOK, ImplTypeOK, View
  <2>2. CASE net' = n
    BY <1>1, <2>1, <2>2, SilenceKeepsMessages
  <2>3. CASE /\ net' = Multicast(n, r, [type |-> "Timeout", view |-> m.view])
             /\ m.view \in wishFinished'[r]
    <3> PICK x : x = [type |-> "Timeout", view |-> m.view]
      OBVIOUS
    <3> DEFINE D == Replica \ {r}
    <3>1. x.type = "Timeout" /\ x.view = m.view /\ x \in CogsworthMsg
      BY <1>1, <1>2, PacemakerMsgType DEF View
    <3>2. Leader(r)' = r /\ x.view = view'[r] /\ D \in SUBSET Replica
      BY <1>2, <1>3, <3>1 DEF Leader
    <3>3. \A d \in D : IsSent(r, d, x)'
      BY <1>2, <2>3, <3>1 DEF IsSent, ViewChangeType, Leader
    <3>4. net' = Send(n, r, x, D)
      BY <2>3, <3>1, MulticastSends DEF Net
    <3> HIDE DEF D
    <3> QED
      BY <1>1, <2>1, <3>1, <3>2, <3>3, <3>4, SendKeepsMessages
  <2> QED
    BY <1>3, <2>2, <2>3
<1> QED
  BY <1>3, <1>4, <1>5 DEF Handled

\* A replica votes for the timeout certificate.
LEMMA TimeoutMsgKeepsInv ==
    ASSUME NEW r \in Replica, NEW m, NEW n \in Net, NEW q, NEW H,
           Handling(r, m, n, q, H),
           m.type = "Timeout", OnReceiveTimeout(r, m, n, q)
    PROVE  Handled(H) /\ UNCHANGED view
<1> DEFINE Q == [msgQueue EXCEPT ![r] = q]
<1>1. /\ HandlerTypeOK /\ HandlerTypeOK' /\ LocalInv /\ Carries(Sent, n, Q, H)
      /\ proposed \in SUBSET Block /\ UNCHANGED proposed
      /\ Local(r) /\ status[r] = "up"
  BY DEF Handling, LocalInv
<1>2. /\ m.view = view[r] /\ m.view \in View
      /\ Leader(r) \in Replica \ {r} /\ m.view \in wishFinished[Leader(r)]
  BY ViewChangeDue DEF Handling, ViewChangeType, View
<1>3. /\ net' = Unicast(n, r, Leader(r), TimeoutVoteFrom(r, m.view))
      /\ msgQueue' = Q
      /\ UNCHANGED <<view, holding, status, blockChain, highQC, timer>>
      /\ UNCHANGED pacemakerVars
  BY DEF OnReceiveTimeout, viewVars, chainVars
<1> HIDE DEF Q
<1>4. LocalInv'
  <2>1. StaysInView
    BY <1>1, <1>3 DEF StaysInView
  <2>2. Local(r)'
    BY <1>1, <1>3, <2>1, StayKeepsLocal
  <2>3. OnlyOf(r) /\ view[r] <= view'[r]
    BY <1>2, <1>3 DEF OnlyOf, pacemakerVars, View
  <2> QED
    BY <1>1, <2>2, <2>3, LocalSuffices
<1>5. Carries(Sent', net', Q, H)
  <2> PICK x, d : x = TimeoutVoteFrom(r, m.view) /\ d = Leader(r)
    OBVIOUS
  <2>1. /\ \A s \in Replica : /\ view[s] <= view'[s]
                              /\ wishFinished[s] \subseteq wishFinished'[s]
        /\ proposed \subseteq proposed'
    BY <1>1, <1>3 DEF HandlerTypeOK, ImplTypeOK, View, pacemakerVars
  <2>2. /\ x \in CogsworthMsg /\ x.type = "TimeoutVote" /\ x.from = r
        /\ x.view = m.view
    BY <1>1, <1>2, PacemakerMsgType DEF TimeoutVoteFrom
  <2>3. x.type \notin ViewChangeType
    BY <2>2 DEF ViewChangeType
  <2>4. \A e \in {d} : IsSent(r, e, x)'
    BY <1>2, <1>3, <2>2 DEF IsSent, Leader, pacemakerVars
  <2>5. net' = Send(n, r, x, {d}) /\ {d} \in SUBSET Replica
    BY <1>2, <1>3, UnicastSends DEF Net
  <2> QED
    BY <1>1, <2>1, <2>2, <2>3, <2>4, <2>5, SendKeepsMessages
<1> QED
  BY <1>3, <1>4, <1>5 DEF Handled

\* What processNewView does to the replica that runs it, and that it does nothing
\* to the others.
LEMMA ViewIsChanged ==
    ASSUME HandlerTypeOK, NEW r \in Replica, NEW v, NEW tmp, NEW n \in Net,
           ProcessNewView(r, v, tmp, n)
    PROVE  /\ \A s \in Replica \ {r} :
                 /\ highQC'[s] = highQC[s] /\ timer'[s] = timer[s]
                 /\ holding'[s] = holding[s] /\ status'[s] = status[s]
                 /\ timeoutVoteFinished'[s] = timeoutVoteFinished[s]
           /\ net' = n \/ net' = Multicast(n, r, [type |-> "NewView", view |-> v])
           /\ Leader(r) # r =>
                 /\ net' = n /\ status' = status
                 /\ timer' = [timer EXCEPT ![r] = FALSE]
                 /\ timeoutVoteFinished'
                        = [timeoutVoteFinished EXCEPT ![r] = @ \cup {view[r]}]
                 /\ holding'[r] => holding[r]
<1> USE DEF HandlerTypeOK, ImplTypeOK, PacemakerTypeOK
<1>1. CASE Leader(r) = r /\ ~Has(blockChain[r], highQC[r].hash)
  BY <1>1 DEF ProcessNewView
<1>2. CASE Leader(r) # r \/ Has(blockChain[r], highQC[r].hash)
  <2>1. /\ net' = IF Leader(r) = r
                  THEN Multicast(n, r, [type |-> "NewView", view |-> v])
                  ELSE n
        /\ \E qc \in HighestQCs(prepareQC[r], {m.qc : m \in QueuedFor(tmp, view[r])}) :
              highQC' = [highQC EXCEPT ![r] = qc]
        /\ timer' = [timer EXCEPT ![r] = FALSE]
        /\ timeoutVoteFinished' = [timeoutVoteFinished EXCEPT ![r] = @ \cup {view[r]}]
        /\ holding' = [holding EXCEPT ![r] = @ \/ Leader(r) = r]
        /\ status' = IF Leader(r) = r /\ holding[r]
                     THEN [status EXCEPT ![r] = "blocked"]
                     ELSE status
    BY <1>2 DEF ProcessNewView
  <2>2. PICK qc : highQC' = [highQC EXCEPT ![r] = qc]
    BY <2>1
  <2>3. \A s \in Replica \ {r} : highQC'[s] = highQC[s]
    BY <2>2
  <2>4. \A s \in Replica \ {r} : status'[s] = status[s]
    BY <2>1
  <2>5. \A s \in Replica \ {r} : holding'[s] = holding[s]
    BY <2>1
  <2>6. Leader(r) # r => (holding'[r] => holding[r])
    BY <2>1
  <2>7. net' = n \/ net' = Multicast(n, r, [type |-> "NewView", view |-> v])
    BY <2>1
  <2>8. Leader(r) # r => net' = n /\ status' = status
    BY <2>1
  <2>9. \A s \in Replica \ {r} :
            timer'[s] = timer[s] /\ timeoutVoteFinished'[s] = timeoutVoteFinished[s]
    BY <2>1
  <2> QED
    BY <2>1, <2>3, <2>4, <2>5, <2>6, <2>7, <2>8, <2>9
<1> QED
  BY <1>1, <1>2

\* A replica learns that the view change is finished.
LEMMA NewViewMsgKeepsInv ==
    ASSUME NEW r \in Replica, NEW m, NEW n \in Net, NEW q, NEW H,
           Handling(r, m, n, q, H),
           m.type = "NewView", OnReceiveNewView(r, m, n, q)
    PROVE  Handled(H) /\ UNCHANGED view
<1> DEFINE Q == [msgQueue EXCEPT ![r] = q]
<1>1. /\ HandlerTypeOK /\ HandlerTypeOK' /\ LocalInv /\ Carries(Sent, n, Q, H)
      /\ proposed \in SUBSET Block /\ UNCHANGED proposed
      /\ Local(r) /\ status[r] = "up"
  BY DEF Handling, LocalInv
<1>2. Leader(r) # r /\ view[r] \in Nat
  BY <1>1, ViewChangeDue DEF Handling, ViewChangeType, HandlerTypeOK, ImplTypeOK, View
<1>3. /\ net' = n /\ msgQueue' = Q
      /\ UNCHANGED <<view, status, blockChain, wishes, wishFinished, timeoutVotes>>
      /\ timer' = [timer EXCEPT ![r] = FALSE]
      /\ timeoutVoteFinished' = [timeoutVoteFinished EXCEPT ![r] = @ \cup {view[r]}]
      /\ holding'[r] => holding[r]
      /\ \A s \in Replica \ {r} : holding'[s] = holding[s] /\ highQC'[s] = highQC[s]
  <2> PICK tmp : tmp = highQCTmp[r]
    OBVIOUS
  <2>1. /\ ProcessNewView(r, m.view, tmp, n)
        /\ msgQueue' = Q
        /\ UNCHANGED <<view, blockChain, wishes, wishFinished, timeoutVotes>>
    BY DEF OnReceiveNewView, chainVars
  <2>2. HandlerTypeOK /\ Leader(r) # r /\ ProcessNewView(r, m.view, tmp, n)
    BY <1>1, <1>2, <2>1
  <2> HIDE DEF Q
  <2>3. /\ net' = n /\ status' = status
        /\ timer' = [timer EXCEPT ![r] = FALSE]
        /\ timeoutVoteFinished' = [timeoutVoteFinished EXCEPT ![r] = @ \cup {view[r]}]
        /\ holding'[r] => holding[r]
    BY <2>2, ViewIsChanged
  <2>4. \A s \in Replica \ {r} : holding'[s] = holding[s] /\ highQC'[s] = highQC[s]
    BY <2>2, ViewIsChanged
  <2> QED
    BY <2>1, <2>3, <2>4
<1> HIDE DEF Q
<1>4. Leader(r)' = Leader(r) /\ HasProposal(view[r])' = HasProposal(view[r])
  BY <1>1, <1>3 DEF Leader, HasProposal
<1>5. /\ timeoutVoteFinished'[r] = timeoutVoteFinished[r] \cup {view[r]}
      /\ ~timer'[r]
      /\ \A s \in Replica \ {r} : /\ timer'[s] = timer[s]
                                 /\ timeoutVoteFinished'[s] = timeoutVoteFinished[s]
  BY <1>1, <1>3 DEF HandlerTypeOK, ImplTypeOK, PacemakerTypeOK
<1>6. LocalInv'
  <2>1. CountsOwnViews(r)'
    BY <1>1, <1>2, <1>3, <1>4, <1>5 DEF Local, CountsOwnViews, Leader
  <2>2. VotesForItself(r)' /\ Stopped(r)'
    BY <1>1, <1>3, <1>5 DEF Local, VotesForItself, Stopped
  <2>3. TokenOf(r)'
    BY <1>1, <1>2, <1>3, <1>4, <1>5 DEF Local, TokenOf
  <2>4. Local(r)'
    BY <1>1, <1>3, <2>1, <2>2, <2>3 DEF Local
  <2>5. OnlyOf(r) /\ view[r] <= view'[r]
    BY <1>2, <1>3, <1>5 DEF OnlyOf
  <2> QED
    BY <1>1, <2>4, <2>5, LocalSuffices
<1>7. Carries(Sent', n, Q, H)
  <2>1. /\ \A s \in Replica : /\ view[s] <= view'[s]
                              /\ wishFinished[s] \subseteq wishFinished'[s]
        /\ proposed \subseteq proposed'
    BY <1>1, <1>3 DEF HandlerTypeOK, ImplTypeOK, View
  <2> QED
    BY <1>1, <2>1, SilenceKeepsMessages
<1> QED
  BY <1>3, <1>6, <1>7 DEF Handled

LEMMA TimeoutVoteKeepsLocal ==
    ASSUME NEW r \in Replica, NEW m, NEW n \in Net, NEW q, NEW H,
           Handling(r, m, n, q, H),
           m.type = "TimeoutVote", OnReceiveTimeoutVote(r, m, n, q)
    PROVE  Local(r)'
<1> DEFINE counted == timeoutVotes[r] \cup {<<m.view, m.from>>}
           left == counted \ OfView(counted, m.view)
           tmp == highQCTmp[r] \cup {m}
<1>1. /\ HandlerTypeOK /\ HandlerTypeOK' /\ Local(r) /\ status[r] = "up"
      /\ UNCHANGED proposed
  BY DEF Handling, LocalInv
<1>2. /\ m.view = view[r] /\ m.view \in Nat /\ m.view >= 2
      /\ Leader(r) = r /\ m.view \in wishFinished[r]
  BY ViewChangeDue DEF Handling
<1>3. /\ UNCHANGED <<view, proposed, wishes, wishFinished, blockChain>>
      /\ Leader(r)' = r
      /\ HasProposal(view[r])' = HasProposal(view[r])
  BY <1>1, <1>2 DEF OnReceiveTimeoutVote, Leader, HasProposal, chainVars
<1>4. Local(r)' \/ m.view \notin timeoutVoteFinished[r]
  <2>1. CASE m.view \in timeoutVoteFinished[r]
    <3>1. StaysInView /\ UNCHANGED timer
      BY <1>3, <2>1 DEF OnReceiveTimeoutVote, StaysInView, pacemakerVars
    <3> QED
      BY <1>1, <3>1, StayKeepsLocal
  <2> QED
    BY <2>1
<1> SUFFICES ASSUME m.view \notin timeoutVoteFinished[r]
             PROVE  Local(r)'
  BY <1>4
<1>5. /\ <<m.view, r>> \in timeoutVotes[r]
      /\ ~holding[r] /\ ~HasProposal(view[r])
  BY <1>1, <1>2 DEF Local, VotesForItself, TokenOf
<1>6. \A p \in counted : p[1] \in wishFinished[r] /\ <<p[1], r>> \in counted
  BY <1>1, <1>2, <1>5 DEF Local, VotesForItself
<1>7. \A p \in left : p[1] \in wishFinished[r] /\ <<p[1], r>> \in left
  BY <1>6 DEF OfView
<1>8. \A v : v # m.view /\ <<v, r>> \in timeoutVotes[r] => <<v, r>> \in left
  BY DEF OfView
<1>9. CASE /\ timeoutVotes'[r] = counted
           /\ UNCHANGED <<highQC, holding, status, timeoutVoteFinished>>
  <2>1. timeoutVotes[r] \subseteq counted
    OBVIOUS
  <2> HIDE DEF counted, left
  <2>2. CountsOwnViews(r)' /\ Stopped(r)'
    BY <1>1, <1>3, <1>9 DEF Local, CountsOwnViews, Stopped, Leader
  <2>3. VotesForItself(r)'
    BY <1>1, <1>3, <1>6, <1>9, <2>1 DEF Local, VotesForItself
  <2>4. TokenOf(r)'
    BY <1>1, <1>3, <1>5, <1>9 DEF TokenOf
  <2> QED
    BY <1>1, <1>3, <2>2, <2>3, <2>4 DEF Local
<1>10. CASE timeoutVotes'[r] = left /\ ProcessNewView(r, m.view, tmp, n)
  <2> HIDE DEF counted, left, tmp
  <2>1. CASE ~Has(blockChain[r], highQC[r].hash)
    <3>1. /\ status'[r] = "panicked"
          /\ UNCHANGED <<highQC, holding, timer, timeoutVoteFinished>>
      BY <1>1, <1>2, <1>10, <2>1 DEF ProcessNewView, HandlerTypeOK, ImplTypeOK
    <3>2. CountsOwnViews(r)' /\ Stopped(r)'
      BY <1>1, <1>3, <2>1, <3>1 DEF Local, CountsOwnViews, Stopped, Leader
    <3>3. VotesForItself(r)'
      BY <1>3, <1>7, <1>10, <3>1 DEF VotesForItself
    <3>4. TokenOf(r)'
      BY <1>1, <1>3, <1>5, <3>1 DEF TokenOf
    <3> QED
      BY <1>1, <1>3, <3>2, <3>3, <3>4 DEF Local
  <2>2. CASE Has(blockChain[r], highQC[r].hash)
    <3>1. /\ timeoutVoteFinished' = [timeoutVoteFinished EXCEPT ![r] = @ \cup {view[r]}]
          /\ timer' = [timer EXCEPT ![r] = FALSE]
          /\ status' = status
      BY <1>2, <1>5, <1>10, <2>2 DEF ProcessNewView
    <3>2. /\ timeoutVoteFinished'[r] = timeoutVoteFinished[r] \cup {view[r]}
          /\ ~timer'[r] /\ status'[r] = "up"
      BY <1>1, <3>1 DEF HandlerTypeOK, ImplTypeOK, PacemakerTypeOK
    <3>3. CountsOwnViews(r)' /\ Stopped(r)'
      BY <1>1, <1>2, <1>3, <3>2 DEF Local, CountsOwnViews, Stopped, Leader
    <3>4. VotesForItself(r)'
      BY <1>1, <1>2, <1>3, <1>7, <1>8, <1>10, <3>2 DEF Local, VotesForItself
    <3>5. TokenOf(r)'
      BY <1>3, <1>5, <3>2 DEF TokenOf
    <3> QED
      BY <1>1, <1>3, <3>3, <3>4, <3>5 DEF Local
  <2> QED
    BY <2>1, <2>2
<1> QED
  BY <1>1, <1>9, <1>10 DEF OnReceiveTimeoutVote, HandlerTypeOK, PacemakerTypeOK

\* The leader counts a vote for the timeout certificate, finishes the view change
\* and gets the token.
LEMMA TimeoutVoteKeepsInv ==
    ASSUME NEW r \in Replica, NEW m, NEW n \in Net, NEW q, NEW H,
           Handling(r, m, n, q, H),
           m.type = "TimeoutVote", OnReceiveTimeoutVote(r, m, n, q)
    PROVE  Handled(H) /\ UNCHANGED view
<1> DEFINE Q == [msgQueue EXCEPT ![r] = q]
           tmp == highQCTmp[r] \cup {m}
<1>1. /\ HandlerTypeOK /\ HandlerTypeOK' /\ LocalInv /\ Carries(Sent, n, Q, H)
      /\ proposed \in SUBSET Block /\ UNCHANGED proposed
  BY DEF Handling
<1>2. /\ m.view = view[r] /\ m.view \in Nat /\ Leader(r) = r
      /\ m.view \in wishFinished[r]
  BY ViewChangeDue DEF Handling
<1>3. /\ UNCHANGED <<view, blockChain, wishes, wishFinished>>
      /\ msgQueue' = Q
      /\ \A s \in Replica \ {r} : timeoutVotes'[s] = timeoutVotes[s]
      /\ \/ /\ net' = n
            /\ UNCHANGED <<highQC, holding, status, timeoutVoteFinished>>
            /\ UNCHANGED timer \/ timer' = [timer EXCEPT ![r] = TRUE]
         \/ ProcessNewView(r, m.view, tmp, n)
  BY <1>1 DEF OnReceiveTimeoutVote, chainVars, HandlerTypeOK, PacemakerTypeOK
<1> HIDE DEF Q, tmp
<1>4. /\ \A s \in Replica \ {r} :
            /\ highQC'[s] = highQC[s] /\ timer'[s] = timer[s]
            /\ holding'[s] = holding[s] /\ status'[s] = status[s]
            /\ timeoutVoteFinished'[s] = timeoutVoteFinished[s]
      /\ \/ net' = n
         \/ net' = Multicast(n, r, [type |-> "NewView", view |-> m.view])
  <2>1. CASE ProcessNewView(r, m.view, tmp, n)
    BY <1>1, <2>1, ViewIsChanged
  <2>2. CASE /\ net' = n
             /\ UNCHANGED <<highQC, holding, status, timeoutVoteFinished>>
             /\ UNCHANGED timer \/ timer' = [timer EXCEPT ![r] = TRUE]
    BY <1>1, <2>2 DEF HandlerTypeOK, ImplTypeOK
  <2> QED
    BY <1>3, <2>1, <2>2
<1>5. LocalInv'
  <2>1. OnlyOf(r) /\ view[r] <= view'[r]
    BY <1>2, <1>3, <1>4 DEF OnlyOf
  <2> QED
    BY <1>1, <2>1, TimeoutVoteKeepsLocal, LocalSuffices
<1>6. Carries(Sent', net', Q, H)
  <2>1. /\ \A s \in Replica : /\ view[s] <= view'[s]
                              /\ wishFinished[s] \subseteq wishFinished'[s]
        /\ proposed \subseteq proposed'
    BY <1>1, <1>3 DEF HandlerTypeOK, ImplTypeOK, View
  <2>2. CASE net' = n
    BY <1>1, <2>1, <2>2, SilenceKeepsMessages
  <2>3. CASE net' = Multicast(n, r, [type |-> "NewView", view |-> m.view])
    <3> PICK x : x = [type |-> "NewView", view |-> m.view]
      OBVIOUS
    <3> DEFINE D == Replica \ {r}
    <3>1. x.type = "NewView" /\ x.view = m.view /\ x \in CogsworthMsg
      BY <1>1, <1>2, PacemakerMsgType DEF View
    <3>2. Leader(r)' = r /\ x.view = view'[r] /\ D \in SUBSET Replica
      BY <1>2, <1>3, <3>1 DEF Leader
    <3>3. \A d \in D : IsSent(r, d, x)'
      BY <1>2, <1>3, <3>1 DEF IsSent, ViewChangeType, Leader
    <3>4. net' = Send(n, r, x, D)
      BY <2>3, <3>1, MulticastSends DEF Net
    <3> HIDE DEF D
    <3> QED
      BY <1>1, <2>1, <3>1, <3>2, <3>3, <3>4, SendKeepsMessages
  <2> QED
    BY <1>4, <2>2, <2>3
<1> QED
  BY <1>3, <1>5, <1>6 DEF Handled

LEMMA DispatchKeepsInv ==
    ASSUME NEW r \in Replica, NEW m, NEW n \in Net, NEW q, NEW H,
           Handling(r, m, n, q, H), Dispatch(r, m, n, q)
    PROVE  /\ Handled(H)
           /\ \A s \in Replica : view'[s] # view[s] =>
                 s = r /\ m.type \in {"CommitVote", "Decide"}
<1>1. CASE m.type = "WishNextView" /\ OnReceiveWishNextView(r, m, n, q)
  BY <1>1, WishKeepsInv
<1>2. CASE m.type = "Timeout" /\ OnReceiveTimeout(r, m, n, q)
  BY <1>2, TimeoutMsgKeepsInv
<1>3. CASE m.type = "TimeoutVote" /\ OnReceiveTimeoutVote(r, m, n, q)
  BY <1>3, TimeoutVoteKeepsInv
<1>4. CASE m.type = "NewView" /\ OnReceiveNewView(r, m, n, q)
  BY <1>4, NewViewMsgKeepsInv
<1>5. CASE OnReceivePhaseMsg(r, m, n, q) /\ UNCHANGED pacemakerVars
  BY <1>5, PhaseKeepsInv
<1>6. CASE \/ m.type = "CommitVote" /\ OnReceiveCommitVote(r, m, n, q)
           \/ m.type = "Decide" /\ OnReceiveDecide(r, m, n, q)
  BY <1>6, DecisionKeepsInv
<1> QED
  BY <1>1, <1>2, <1>3, <1>4, <1>5, <1>6 DEF Dispatch

-----------------------------------------------------------------------------
(* Every step keeps the invariant. *)

\* The leader proposes and uses up the token.
LEMMA ProposeKeepsInv ==
    ASSUME HandlerTypeOK, OtherTypeOK, HandlerTypeOK', IInv,
           NEW r \in Replica, HandleReq(r), UNCHANGED pacemakerVars
    PROVE  IInv'
<1>1. PICK c \in Cmd : SendPrepare(r, c)
  BY DEF HandleReq
<1>2. /\ LocalInv /\ HeldIsCurrent /\ Carries(Sent, net, msgQueue, hand)
      /\ Local(r) /\ holding[r] /\ status[r] = "up"
      /\ view[r] \in View /\ view[r] >= 1 /\ highQC[r] \in QuorumCert
      /\ Leader(r) = r /\ ~HasProposal(view[r])
  BY DEF HandleReq, IInv, LocalInv, Local, TokenOf, HandlerTypeOK, ImplTypeOK
<1> PICK b, x : /\ b = CreateLeaf(r, c)
                /\ x = PhaseMsg("Prepare", view[r], b, highQC[r])
  OBVIOUS
<1>3. /\ proposed' = proposed \cup {b}
      /\ net' = Multicast(net, r, x)
      /\ \A s \in Replica \ {r} : timer'[s] = timer[s]
  BY <1>1, <1>2 DEF SendPrepare, HandlerTypeOK, ImplTypeOK
<1>4. b.view = view[r] /\ b.proposer = r /\ b \in Block
  BY <1>2 DEF CreateLeaf, Block, Hash, Replica, HandlerTypeOK, ImplTypeOK,
              OtherTypeOK, RestTypeOK
<1>5. /\ UNCHANGED <<view, wishes, wishFinished, timeoutVotes, timeoutVoteFinished,
                     status, blockChain, highQC, msgQueue, hand>>
      /\ ~holding'[r]
      /\ \A s \in Replica \ {r} : holding'[s] = holding[s]
  BY DEF HandleReq, handVars, chainVars, pacemakerVars, HandlerTypeOK, ImplTypeOK
<1>6. \A v : HasProposal(v)' <=> HasProposal(v) \/ v = view[r]
  BY <1>3, <1>4 DEF HasProposal
<1>7. ProposedByLeader'
  BY <1>2, <1>3, <1>4, <1>5 DEF LocalInv, ProposedByLeader, Leader, View
<1>8. OneProposalPerView'
  BY <1>2, <1>3, <1>4 DEF LocalInv, OneProposalPerView, HasProposal
<1>9. Local(r)'
  <2>1. Leader(r)' = Leader(r)
    BY <1>5 DEF Leader
  <2>2. CountsOwnViews(r)' /\ VotesForItself(r)' /\ Stopped(r)'
    BY <1>2, <1>5, <2>1 DEF Local, CountsOwnViews, VotesForItself, Stopped
  <2>3. view[r] >= 2 => view[r] \in timeoutVoteFinished[r]
    BY <1>2 DEF Local, TokenOf
  <2>4. TokenOf(r)'
    BY <1>5, <2>3 DEF TokenOf
  <2> QED
    BY <1>2, <1>5, <2>2, <2>4 DEF Local
<1>10. ASSUME NEW s \in Replica \ {r}
       PROVE  Local(s)'
  <2>1. Leader(s) = s => view[s] # view[r]
    BY <1>2 DEF Leader
  <2>2. Leader(s) = s => HasProposal(view[s])' = HasProposal(view[s])
    BY <1>5, <1>6, <2>1 DEF HasProposal
  <2>3. Local(s)
    BY <1>2 DEF LocalInv
  <2> QED
    BY <1>3, <1>5, <2>2, <2>3, OthersKeepLocal
<1>11. LocalInv'
  BY <1>7, <1>8, <1>9, <1>10 DEF LocalInv
<1>12. HeldIsCurrent'
  BY <1>2, <1>5 DEF HeldIsCurrent
<1>13. Carries(Sent', net', msgQueue, hand)
  <2> DEFINE D == Replica \ {r}
  <2>1. /\ \A s \in Replica : /\ view[s] <= view'[s]
                              /\ wishFinished[s] \subseteq wishFinished'[s]
        /\ proposed \subseteq proposed'
    BY <1>3, <1>5 DEF HandlerTypeOK, ImplTypeOK, View
  <2>2. x \in CogsworthMsg /\ x.type = "Prepare"
    BY <1>2, <1>4, LeaderMsgType DEF LeaderType, CogsworthMsg, PhaseMsg
  <2>3. x.type \notin ViewChangeType /\ D \in SUBSET Replica
    BY <2>2 DEF ViewChangeType
  <2>4. \A d \in D : IsSent(r, d, x)'
    <3>1. x.view = view[r] /\ x.block = b /\ x.type = "Prepare"
      BY DEF PhaseMsg
    <3> QED
      BY <1>2, <1>3, <1>4, <1>5, <3>1 DEF IsSent, Leader, LeaderType
  <2>5. net' = Send(net, r, x, D) /\ net \in Net
    BY <1>3, MulticastSends DEF Net, HandlerTypeOK, ImplTypeOK
  <2> HIDE DEF D
  <2> QED
    BY <1>2, <2>1, <2>2, <2>3, <2>4, <2>5, SendKeepsMessages
<1> QED
  BY <1>5, <1>11, <1>12, <1>13 DEF IInv

\* Nothing happens to the replicas but that they take messages.
LEMMA QuietKeepsInv ==
    ASSUME HandlerTypeOK, HandlerTypeOK', IInv, UNCHANGED pacemakerVars,
           UNCHANGED <<view, holding, timer, status, blockChain, highQC, proposed>>,
           HeldIsCurrent', Carries(Sent, net', msgQueue', hand')
    PROVE  IInv'
<1>1. ASSUME NEW s \in Replica
      PROVE  Local(s)'
  <2>1. HasProposal(view[s])' = HasProposal(view[s]) /\ Local(s)
    BY DEF HasProposal, IInv, LocalInv
  <2> QED
    BY <2>1, OthersKeepLocal DEF pacemakerVars
<1>2. ProposedByLeader' /\ OneProposalPerView'
  BY DEF IInv, LocalInv, ProposedByLeader, OneProposalPerView
<1>3. Carries(Sent', net', msgQueue', hand')
  <2>1. /\ \A s \in Replica : /\ view[s] <= view'[s]
                              /\ wishFinished[s] \subseteq wishFinished'[s]
        /\ proposed \subseteq proposed' /\ net' \in Net
    BY DEF pacemakerVars, HandlerTypeOK, ImplTypeOK, View, Net
  <2> PICK n, Q, H : n = net' /\ Q = msgQueue' /\ H = hand'
    OBVIOUS
  <2> QED
    BY <2>1, SilenceKeepsMessages
<1> QED
  BY <1>1, <1>2, <1>3 DEF IInv, LocalInv

\* A message of another view is put aside or dropped, one of this view is held, or
\* one is lost.
LEMMA AsideKeepsInv ==
    ASSUME HandlerTypeOK, OtherTypeOK, HandlerTypeOK', IInv,
           NEW r \in Replica, NEW s \in Replica, UNCHANGED pacemakerVars,
           \/ ReceiveFuture(r, s) \/ ReceiveStale(r, s) \/ HoldCurrent(r, s)
           \/ Lose(r, s)
    PROVE  IInv'
<1> DEFINE m == Head(net[s][r])
<1>1. /\ net[s][r] # <<>> /\ net' = Taken(r, s)
      /\ UNCHANGED <<view, holding, timer, status, blockChain, highQC, proposed>>
  BY DEF ReceiveFuture, ReceiveStale, HoldCurrent, Lose, CanReceive, viewVars,
         chainVars, requestVars
<1>2. /\ LocalInv /\ HeldIsCurrent /\ Carries(Sent, net, msgQueue, hand)
      /\ hand \in [Replica -> SUBSET CogsworthMsg] /\ proposed \in SUBSET Block
  BY DEF IInv, OtherTypeOK, RestTypeOK
<1>3. /\ m \in Sent[r][s]
      /\ Carries(Sent, Taken(r, s), msgQueue, hand)
      /\ hand[r] = {} /\ m.type \notin VoteType \cup {"TimeoutVote"} =>
             Carries(Sent, Taken(r, s), [msgQueue EXCEPT ![r] = Put(@, m)], hand)
      /\ Carries(Sent, Taken(r, s), msgQueue, [hand EXCEPT ![r] = {m}])
  <2> PICK A, H : A = Sent /\ H = hand
    OBVIOUS
  <2>1. FromLeaders(A) /\ Carries(A, net, msgQueue, H)
    BY <1>2, SentFacts
  <2> QED
    BY <1>1, <1>2, <2>1, CarriesTaken
<1>4. m \in CogsworthMsg /\ IsSent(s, r, m)
  BY <1>3, SentFacts
<1> HIDE DEF m
<1>5. CASE ReceiveFuture(r, s)
  <2>1. /\ m.view > view[r] /\ hand[r] = {}
        /\ msgQueue' = [msgQueue EXCEPT ![r] = Put(@, m)] /\ hand' = hand
    BY <1>5 DEF ReceiveFuture, CanReceive, Idle, m
  <2>2. m.type \notin VoteType
    <3> SUFFICES ASSUME m.type \in VoteType
                 PROVE  FALSE
      OBVIOUS
    <3>1. /\ GetLeaderByView(m.view) = r
          /\ m.block \in proposed /\ m.block.view = m.view
      BY <1>4 DEF IsSent, VoteType, LeaderType, ViewChangeType
    <3>2. m.view <= view[r]
      BY <1>2, <3>1 DEF LocalInv, ProposedByLeader
    <3> QED
      BY <1>4, <2>1, <3>2, MsgFields DEF HandlerTypeOK, ImplTypeOK, View
  <2>3. m.type # "TimeoutVote"
    <3> SUFFICES ASSUME m.type = "TimeoutVote"
                 PROVE  FALSE
      OBVIOUS
    <3>1. m.view \in wishFinished[r]
      BY <1>4 DEF IsSent, VoteType, LeaderType, ViewChangeType
    <3>2. m.view <= view[r]
      BY <1>2, <3>1 DEF LocalInv, Local, CountsOwnViews
    <3> QED
      BY <1>4, <2>1, <3>2, MsgFields DEF HandlerTypeOK, ImplTypeOK, View
  <2>4. Carries(Sent, net', msgQueue', hand')
    BY <1>1, <1>3, <2>1, <2>2, <2>3
  <2>5. HeldIsCurrent'
    BY <1>1, <1>2, <2>1 DEF HeldIsCurrent
  <2> QED
    BY <1>1, <2>4, <2>5, QuietKeepsInv
<1>6. CASE ReceiveStale(r, s) \/ Lose(r, s)
  <2>1. msgQueue' = msgQueue /\ hand' = hand
    BY <1>6 DEF ReceiveStale, Lose, handVars
  <2>2. Carries(Sent, net', msgQueue', hand')
    BY <1>1, <1>3, <2>1
  <2>3. HeldIsCurrent'
    BY <1>1, <1>2, <2>1 DEF HeldIsCurrent
  <2> QED
    BY <1>1, <2>2, <2>3, QuietKeepsInv
<1>7. CASE HoldCurrent(r, s)
  <2>1. m.view = view[r] /\ hand' = [hand EXCEPT ![r] = {m}] /\ msgQueue' = msgQueue
    BY <1>7 DEF HoldCurrent, m
  <2>2. Carries(Sent, net', msgQueue', hand')
    BY <1>1, <1>3, <2>1
  <2>3. HeldIsCurrent'
    BY <1>1, <1>2, <2>1 DEF HeldIsCurrent
  <2> QED
    BY <1>1, <2>2, <2>3, QuietKeepsInv
<1> QED
  BY <1>5, <1>6, <1>7

\* A message is handled when it is received.
LEMMA CurrentKeepsInv ==
    ASSUME HandlerTypeOK, OtherTypeOK, HandlerTypeOK', IInv,
           NEW r \in Replica, NEW s \in Replica, ReceiveCurrent(r, s)
    PROVE  IInv'
<1> PICK m, n : m = Head(net[s][r]) /\ n = Taken(r, s)
  OBVIOUS
<1>1. /\ net[s][r] # <<>> /\ m.view = view[r] /\ status[r] = "up" /\ hand[r] = {}
      /\ Dispatch(r, m, n, msgQueue[r])
      /\ UNCHANGED <<proposed, hand>>
  BY DEF ReceiveCurrent, CanReceive, Idle, requestVars, handVars
<1>2. /\ LocalInv /\ HeldIsCurrent /\ Carries(Sent, net, msgQueue, hand)
      /\ proposed \in SUBSET Block /\ msgQueue = [msgQueue EXCEPT ![r] = msgQueue[r]]
  BY DEF IInv, OtherTypeOK, RestTypeOK, HandlerTypeOK, ImplTypeOK
<1>3. m \in Sent[r][s] /\ Carries(Sent, n, msgQueue, hand) /\ n \in Net
  <2> PICK A, H : A = Sent /\ H = hand
    OBVIOUS
  <2>1. FromLeaders(A) /\ Carries(A, net, msgQueue, H)
    BY <1>2, SentFacts
  <2>2. m \in A[r][s] /\ Carries(A, n, msgQueue, H)
    BY <1>1, <2>1, CarriesTaken
  <2> QED
    BY <1>1, <2>2, TakenType
<1>4. Due(r, m)
  BY <1>1, <1>3, SentFacts DEF Due
<1> PICK q, H : q = msgQueue[r] /\ H = hand
  OBVIOUS
<1>5. Handling(r, m, n, q, H)
  BY <1>1, <1>2, <1>3, <1>4 DEF Handling
<1>6. Handled(H) /\ \A t \in Replica : view'[t] # view[t] => t = r
  BY <1>1, <1>3, <1>5, DispatchKeepsInv
<1>7. HeldIsCurrent'
  BY <1>1, <1>2, <1>6 DEF HeldIsCurrent
<1> QED
  BY <1>1, <1>6, <1>7 DEF IInv, Handled

\* The most advanced message of the queue is handled.  If it decides a block, what
\* the replica holds is neither for the leader of the view nor about the change to
\* the view, for that a decision does not overtake.
LEMMA ChaseKeepsInv ==
    ASSUME HandlerTypeOK, OtherTypeOK, HandlerTypeOK', IInv,
           NEW r \in Replica, Chase(r)
    PROVE  IInv'
<1>0. PICK m, q : /\ m \in Last(msgQueue[r], view[r])
                  /\ q = Pop(msgQueue[r], view[r], m)
                  /\ Dispatch(r, m, net, q)
  BY DEF Chase
<1>1. /\ m \in msgQueue[r] /\ m.view = view[r] /\ status[r] = "up"
      /\ q \subseteq msgQueue[r] /\ UNCHANGED <<proposed, hand>>
  BY <1>0 DEF Chase, Last, QueuedFor, Pop, requestVars
<1>2. /\ LocalInv /\ HeldIsCurrent /\ Carries(Sent, net, msgQueue, hand)
      /\ proposed \in SUBSET Block /\ net \in Net
      /\ msgQueue \in [Replica -> SUBSET CogsworthMsg]
  BY DEF IInv, OtherTypeOK, RestTypeOK, HandlerTypeOK, ImplTypeOK, Net
<1>3. Behind(Sent, net, r, msgQueue[r], hand[r])
  BY <1>2 DEF Carries
<1>4. Due(r, m)
  BY <1>1, <1>3, SentFacts DEF Due, Behind
<1>5. Carries(Sent, net, [msgQueue EXCEPT ![r] = q], hand)
  <2>1. \A d \in Replica :
            /\ [msgQueue EXCEPT ![r] = q][d] \subseteq msgQueue[d]
            /\ hand[d] \subseteq hand[d]
    BY <1>1, <1>2
  <2> PICK A, n, Q, H, p : /\ A = Sent /\ n = net /\ Q = msgQueue /\ H = hand
                           /\ p = [msgQueue EXCEPT ![r] = q]
    OBVIOUS
  <2>2. Carries(A, n, Q, H) /\ \A d \in Replica : p[d] \subseteq Q[d] /\ H[d] \subseteq H[d]
    BY <1>2, <2>1
  <2>3. Carries(A, n, p, H)
    BY <1>2, <2>2, CarriesMore
  <2> QED
    BY <2>3
<1>6. PICK n, H : n = net /\ H = hand
  OBVIOUS
<1>7. Handling(r, m, n, q, H) /\ Dispatch(r, m, n, q) /\ n \in Net
  <2>1. Handling(r, m, n, q, H)
    BY <1>1, <1>2, <1>4, <1>5, <1>6 DEF Handling
  <2>2. Dispatch(r, m, n, q) /\ n \in Net
    BY <1>0, <1>2, <1>6
  <2> QED
    BY <2>1, <2>2
<1>8. /\ Handled(H)
      /\ \A s \in Replica : view'[s] # view[s] =>
            s = r /\ m.type \in {"CommitVote", "Decide"}
  BY <1>7, DispatchKeepsInv
<1>9. HeldIsCurrent'
  <2> SUFFICES ASSUME NEW s \in Replica, NEW h \in hand[s],
                      GetLeaderByView(h.view) = s \/ h.type \in ViewChangeType
               PROVE  h.view = view'[s]
    BY <1>1 DEF HeldIsCurrent
  <2>1. h.view = view[s]
    BY <1>2 DEF HeldIsCurrent
  <2>2. ASSUME view'[s] # view[s]
        PROVE  FALSE
    <3>1. s = r /\ m.type = "Decide"
      BY <1>1, <1>3, <1>8, <2>2 DEF Behind, VoteType
    <3>2. PICK t \in Replica : IsSent(t, r, m)
      BY <1>4 DEF Due
    <3>3. GetLeaderByView(view[r]) # r
      BY <1>1, <3>1, <3>2 DEF IsSent, VoteType, LeaderType, ViewChangeType
    <3>4. h.type \in ViewChangeType /\ h.view = m.view
      BY <1>1, <2>1, <3>1, <3>3
    <3> QED
      BY <1>1, <1>3, <3>1, <3>4 DEF Behind, Overtakes
  <2> QED
    BY <2>1, <2>2
<1> QED
  BY <1>1, <1>6, <1>8, <1>9 DEF IInv, Handled

\* The message held is handled.
LEMMA HeldKeepsInv ==
    ASSUME HandlerTypeOK, OtherTypeOK, HandlerTypeOK', IInv,
           NEW r \in Replica, HandleHeld(r)
    PROVE  IInv'
<1> PICK m : m \in hand[r] /\ Dispatch(r, m, net, msgQueue[r])
  BY DEF HandleHeld
<1>1. /\ status[r] = "up" /\ UNCHANGED proposed
      /\ hand' = [hand EXCEPT ![r] = {}]
  BY DEF HandleHeld, requestVars
<1>2. /\ LocalInv /\ HeldIsCurrent /\ Carries(Sent, net, msgQueue, hand)
      /\ proposed \in SUBSET Block /\ net \in Net
      /\ msgQueue = [msgQueue EXCEPT ![r] = msgQueue[r]]
      /\ hand \in [Replica -> SUBSET CogsworthMsg]
  BY DEF IInv, OtherTypeOK, RestTypeOK, HandlerTypeOK, ImplTypeOK, Net
<1>3. Behind(Sent, net, r, msgQueue[r], hand[r])
  BY <1>2 DEF Carries
<1>4. Due(r, m)
  BY <1>2, <1>3, SentFacts DEF Due, Behind, HeldIsCurrent
<1> PICK H : H = [hand EXCEPT ![r] = {}]
  OBVIOUS
<1>5. /\ H[r] = {} /\ \A d \in Replica \ {r} : H[d] = hand[d]
      /\ H = hand'
  BY <1>1, <1>2
<1>6. Carries(Sent, net, msgQueue, H)
  <2> PICK A, n, Q, G : A = Sent /\ n = net /\ Q = msgQueue /\ G = hand
    OBVIOUS
  <2>1. /\ Carries(A, n, Q, G)
        /\ \A d \in Replica : Q[d] \subseteq Q[d] /\ H[d] \subseteq G[d]
    BY <1>2, <1>5
  <2>2. Carries(A, n, Q, H)
    BY <1>2, <2>1, CarriesMore
  <2> QED
    BY <2>2
<1> PICK n, q : n = net /\ q = msgQueue[r]
  OBVIOUS
<1>7. Handling(r, m, n, q, H)
  BY <1>1, <1>2, <1>4, <1>6 DEF Handling
<1>8. Handled(H) /\ \A s \in Replica : view'[s] # view[s] => s = r
  BY <1>2, <1>7, DispatchKeepsInv
<1>9. HeldIsCurrent'
  <2> SUFFICES ASSUME NEW s \in Replica, NEW y \in hand'[s],
                      GetLeaderByView(y.view) = s \/ y.type \in ViewChangeType
               PROVE  y.view = view'[s]
    BY DEF HeldIsCurrent
  <2>1. s # r /\ y \in hand[s]
    BY <1>5
  <2>2. view'[s] = view[s]
    BY <1>8, <2>1
  <2> QED
    BY <1>2, <2>1, <2>2 DEF HeldIsCurrent
<1> QED
  BY <1>5, <1>8, <1>9 DEF IInv, Handled

\* The timeout fires.
LEMMA TimeoutKeepsInv ==
    ASSUME HandlerTypeOK, OtherTypeOK, HandlerTypeOK', IInv,
           NEW r \in Replica, Timeout(r)
    PROVE  IInv'
<1>1. /\ status[r] = "up" /\ hand[r] = {} /\ timer[r]
      /\ WishToAdvance(r, net, msgQueue[r], votes[r], highQC[r])
      /\ UNCHANGED <<blockChain, proposed, hand>>
  BY DEF Timeout, Idle, chainVars, requestVars, handVars
<1>2. /\ LocalInv /\ HeldIsCurrent /\ Carries(Sent, net, msgQueue, hand)
      /\ proposed \in SUBSET Block /\ net \in Net
      /\ msgQueue = [msgQueue EXCEPT ![r] = msgQueue[r]]
  BY DEF IInv, OtherTypeOK, RestTypeOK, HandlerTypeOK, ImplTypeOK, Net
<1>3. ~holding[r]
  BY <1>1, <1>2 DEF LocalInv, Local, TokenOf
<1>4. \A s \in Replica \ {r} : blockChain'[s] = blockChain[s]
  BY <1>1
<1> PICK n, q, vs, hqc, H : /\ n = net /\ q = msgQueue[r] /\ vs = votes[r]
                            /\ hqc = highQC[r] /\ H = hand
  OBVIOUS
<1>5. Handled(H)
  <2>1. WishToAdvance(r, n, q, vs, hqc) /\ n \in Net
    BY <1>1, <1>2
  <2>2. Carries(Sent, n, [msgQueue EXCEPT ![r] = q], H)
    BY <1>2
  <2> QED
    BY <1>1, <1>2, <1>3, <1>4, <2>1, <2>2, AdvanceKeepsInv
<1>6. HeldIsCurrent'
  <2>1. \A s \in Replica \ {r} : view'[s] = view[s]
    BY <1>1 DEF WishToAdvance, HandlerTypeOK, ImplTypeOK
  <2> QED
    BY <1>1, <1>2, <2>1 DEF HeldIsCurrent
<1> QED
  BY <1>1, <1>5, <1>6 DEF IInv, Handled

LEMMA NextInv ==
    CogsworthTypeOK /\ CogsworthTypeOK' /\ IInv /\ [CogsworthNext]_cogsworthVars => IInv'
<1> SUFFICES ASSUME HandlerTypeOK, OtherTypeOK, HandlerTypeOK', IInv,
                    [CogsworthNext]_cogsworthVars
             PROVE  IInv'
  BY TypeByParts
<1>1. ASSUME NEW r \in Replica, HandleMsg(r)
      PROVE  IInv'
  BY <1>1, AsideKeepsInv, CurrentKeepsInv, ChaseKeepsInv, HeldKeepsInv,
     TimeoutKeepsInv DEF HandleMsg, Receive, ReceiveAside
<1>2. ASSUME NEW r \in Replica, OnBeat(r)
      PROVE  IInv'
  BY <1>2, ProposeKeepsInv DEF OnBeat
<1>3. ASSUME NEW r \in Replica, NEW s \in Replica, Lose(r, s), UNCHANGED pacemakerVars
      PROVE  IInv'
  BY <1>3, AsideKeepsInv
<1>4. CASE UNCHANGED cogsworthVars
  <2>1. /\ UNCHANGED pacemakerVars
        /\ UNCHANGED <<view, holding, timer, status, blockChain, highQC, proposed>>
        /\ UNCHANGED <<net, msgQueue, hand>>
    BY <1>4 DEF cogsworthVars, vars, viewVars, chainVars, requestVars, handVars
  <2>2. HeldIsCurrent'
    BY <2>1 DEF IInv, HeldIsCurrent
  <2>3. Carries(Sent, net', msgQueue', hand')
    BY <2>1 DEF IInv
  <2> QED
    BY <2>1, <2>2, <2>3, QuietKeepsInv
<1> QED
  BY <1>1, <1>2, <1>3, <1>4 DEF CogsworthNext

\* The pacemaker keeps its books: a leader counts wishes and votes only about
\* views it leads and has reached, its own first; it has the token only where its
\* view is changed and nothing is proposed; it proposes once in a view; and the
\* only way to stop is to lack the block of the HighQC.
THEOREM CogsworthInvCorrect == CogsworthSpec => []CogsworthInv
<1>1. CogsworthInit => IInv
  BY InitInv
<1>2. CogsworthTypeOK /\ CogsworthTypeOK' /\ IInv /\ [CogsworthNext]_cogsworthVars
      => IInv'
  BY NextInv
<1>3. CogsworthTypeOK /\ IInv => CogsworthInv
  BY InvByParts
<1> QED
  BY <1>1, <1>2, <1>3, CogsworthTypeCorrect, PTL DEF CogsworthSpec

\* A leader in the view wished for has counted its own wish before any other, so
\* WishToAdvance never forms a certificate.
THEOREM OwnWishFirstCorrect == CogsworthSpec => []OwnWishFirst
<1>1. CogsworthInv => OwnWishFirst
  BY DEF CogsworthInv
<1> QED
  BY <1>1, CogsworthInvCorrect, PTL

\* A vote for a timeout certificate is counted only where the leader has cast its
\* own, and never waits in a queue.
THEOREM OwnVoteFirstCorrect == CogsworthSpec => []OwnVoteFirst
<1>1. CogsworthInv => OwnVoteFirst
  BY DEF CogsworthInv
<1> QED
  BY <1>1, CogsworthInvCorrect, PTL

\* With the pacemaker, too, OnBeat has the token only in a view that its replica
\* leads, has no timeout for, and has proposed nothing in.
THEOREM CogsworthTokenDiscipline == CogsworthSpec => []TokenDiscipline
<1>1. CogsworthInv => TokenDiscipline
  BY DEF CogsworthInv
<1> QED
  BY <1>1, CogsworthInvCorrect, PTL

\* With the pacemaker, too, a view has one proposal.
THEOREM CogsworthOneProposal == CogsworthSpec => []OneProposalPerView
<1>1. CogsworthInv => OneProposalPerView
  BY DEF CogsworthInv
<1> QED
  BY <1>1, CogsworthInvCorrect, PTL

\* HandleMsg never panics on a vote, never locks the mutex it holds and never
\* waits for the token to be taken: it stops only in a leader that lacks the block
\* of its HighQC.
THEOREM StopsOnlyWithoutBlockCorrect == CogsworthSpec => []StopsOnlyWithoutBlock
<1>1. CogsworthInv => StopsOnlyWithoutBlock
  BY DEF CogsworthInv
<1> QED
  BY <1>1, CogsworthInvCorrect, PTL

-----------------------------------------------------------------------------
(* Agreement: Safety_proofs, with the steps of this module. *)

Before == CogsworthTypeOK /\ CogsworthInv /\ VotesReported /\ SafetyInv

Afterwards == After /\ VotesReported'

LEMMA TypesForSafety ==
    /\ CogsworthTypeOK => SafetyTypeOK
    /\ CogsworthTypeOK' => SafetyTypeOK'
<1>1. TimeoutVoteMsg \subseteq ReportMsg
  BY DEF TimeoutVoteMsg, ReportMsg
<1>2. CogsworthTypeOK => SafetyTypeOK
  BY <1>1 DEF CogsworthTypeOK, SafetyTypeOK
<1>3. CogsworthTypeOK' => SafetyTypeOK'
  BY <1>1 DEF CogsworthTypeOK, SafetyTypeOK
<1> QED
  BY <1>2, <1>3

LEMMA BeforeIsSafe ==
    /\ Before => SafeState
    /\ Before' => SafeState'
<1>1. Before => SafeState
  BY TypesForSafety DEF Before, SafeState, CogsworthInv
<1>2. Before' => SafeState'
  BY TypesForSafety DEF Before, SafeState, CogsworthInv
<1> QED
  BY <1>1, <1>2

\* Replica r handles message m; n and q carry messages that were there.
Handles(r, m, n, q) ==
    /\ Due(r, m)
    /\ m \in Transit
    /\ n \in Net
    /\ Given(n, q)

LEMMA NetIsNet == \A n \in Net : IsNet(n)
BY DEF Net, IsNet

LEMMA HandledMsg ==
    ASSUME Before, NEW r \in Replica, NEW m, NEW n, NEW q, Handles(r, m, n, q)
    PROVE  /\ m.view \in View /\ view[r] \in Nat
           /\ m.type \in VoteType \cup LeaderType => AboutBlock(r, m)
           /\ m.type \in {"WishNextView", "TimeoutVote"} =>
                  /\ Leader(r) = r /\ m.view = view[r]
                  /\ view[r] >= 2
                  /\ m.from \in Replica
           /\ m.type \in ViewChangeType =>
                  m.view = view[r] /\ view[r] >= 2 /\ Leader(r) # r
           /\ m.type = "TimeoutVote" => m \in Reports
<1>1. m \in CogsworthMsg /\ m \in Transit
  BY DEF Handles, Due
<1>2. PICK s \in Replica : IsSent(s, r, m)
  BY DEF Handles, Due
<1>3. GetLeaderByView(m.view) = r \/ m.type \in ViewChangeType => m.view = view[r]
  BY DEF Handles, Due
<1>4. \A d \in Replica : \A v \in wishFinished[d] : 2 <= v
  BY DEF Before, CogsworthInv, LeadsWhatItCounts
<1>5. m.type \in VoteType \cup LeaderType => AboutBlock(r, m)
  BY <1>1, <1>2, <1>3, MsgFields
     DEF AboutBlock, IsSent, VoteType, LeaderType, ViewChangeType
<1>6. m.type \in {"WishNextView", "TimeoutVote"} =>
          GetLeaderByView(m.view) = r /\ 2 <= m.view
  BY <1>2, <1>4 DEF IsSent, VoteType, LeaderType, ViewChangeType
<1>7. m.type \in ViewChangeType => GetLeaderByView(m.view) # r /\ 2 <= m.view
  BY <1>2, <1>4 DEF IsSent, VoteType, LeaderType, ViewChangeType
<1>8. m.type = "TimeoutVote" => m \in Reports
  BY <1>1, MsgFields DEF Reports, TimeoutVoteMsg, ReportMsg
<1>9. m.view \in View /\ view[r] \in Nat
  BY <1>1, MsgFields DEF Before, CogsworthTypeOK, View
<1> QED
  BY <1>1, <1>3, <1>5, <1>6, <1>7, <1>8, <1>9, MsgFields DEF Leader, View

-----------------------------------------------------------------------------
(* The reports behind the votes for a certificate. *)

LEMMA BooksKept ==
    ASSUME Before, NEW r \in Replica,
           \A s \in Replica \ {r} :
              /\ view'[s] = view[s] /\ viewChanged'[s] = viewChanged[s]
              /\ timeoutVotes'[s] = timeoutVotes[s] /\ highQCTmp'[s] = highQCTmp[s]
              /\ timeoutVoteFinished'[s] = timeoutVoteFinished[s],
           \A p \in timeoutVotes'[r] :
              \E m \in highQCTmp'[r] : m.view = p[1] /\ m.from = p[2],
           GetLeaderByView(view'[r]) = r /\ view'[r] \in timeoutVoteFinished'[r]
              => viewChanged'[r]
    PROVE  VotesReported'
BY DEF Before, VotesReported, Leader

LEMMA SameBooks ==
    ASSUME Before,
           UNCHANGED <<view, viewChanged, timeoutVotes, highQCTmp, timeoutVoteFinished>>
    PROVE  VotesReported'
BY DEF Before, VotesReported, Leader

-----------------------------------------------------------------------------
(* The handlers of the view change. *)

\* r sends the messages of new, which are about views, and may pick a HighQC.
LEMMA PaceKeepsSafety ==
    ASSUME TotalNumber # 6, Before, SafetyTypeOK', NEW r \in Replica,
           NEW n, NEW q, Given(n, q), NEW new,
           UNCHANGED <<view, prepareQC, preCommitQC, executed>>,
           msgQueue' = [msgQueue EXCEPT ![r] = q],
           \A x \in Carried(net') : x \in Carried(n) \/ x \in new,
           \A x \in new : x.type \notin VoteType \cup LeaderType,
           \A x \in new : x \in ReportMsg => Fresh(x),
           \A s \in Replica : votes'[s] \subseteq votes[s],
           \A s \in Replica \ {r} : /\ highQC'[s] = highQC[s]
                                    /\ highQCTmp'[s] = highQCTmp[s]
                                    /\ viewChanged'[s] = viewChanged[s],
           \A x \in highQCTmp'[r] : Reported(x),
           view[r] >= 2, PickStep(r)
    PROVE  After
<1>1. SafeState /\ SafetyTypeOK /\ ViewsPositive /\ SafetyInv
  BY BeforeIsSafe DEF SafeState
<1>2. Touches(r, new, {})
  <2>1. \A x \in Carried(net') : x \in Transit \/ x \in new
    BY DEF Given
  <2>2. \A d \in Replica : \A x \in msgQueue'[d] : x \in Transit \/ x \in new
    BY <1>1, TransitParts DEF Given, SafetyTypeOK
  <2>3. \A d \in Replica : \A x \in hand'[d] : x \in Transit \/ x \in new
    BY DEF Given
  <2>4. \A x \in Transit' : x \in Transit \/ x \in new
                               \/ \E d \in Replica : x \in msgQueue'[d] \/ x \in hand'[d]
    BY <2>1, <2>2, <2>3, TransitAfter
  <2>5. \A x \in Transit' : x \in Transit \/ x \in new
    BY <2>2, <2>3, <2>4
  <2> QED
    BY <2>5 DEF Touches, Given
<1>3. CertStep(r)
  BY <1>1 DEF CertStep, SafetyTypeOK, View
<1>4. ReportStep(r, new)
  BY DEF ReportStep
<1>5. /\ ExecStep(r) /\ MsgStep(r, new)
      /\ VoteStep(r, new, {}) /\ LockStep(r, new, {})
  BY <1>1, NoBlockSteps
<1> QED
  BY <1>1, <1>2, <1>3, <1>4, <1>5, TouchedKeepsSafety

\* The new-view message of this module is no report.
LEMMA ViewChangedIsNoReport ==
    ASSUME NEW v
    PROVE  /\ [type |-> "NewView", view |-> v] \notin ReportMsg
           /\ [type |-> "NewView", view |-> v].type = "NewView"
<1>1. ASSUME NEW m \in ReportMsg PROVE "from" \in DOMAIN m
  BY DEF ReportMsg
<1>2. "from" \notin DOMAIN [type |-> "NewView", view |-> v]
  OBVIOUS
<1> QED
  BY <1>1, <1>2

\* The reports in tmp about the view of r are those of a quorum.
QuorumReports(r, tmp) ==
    \E Q \in Quorums : \A s \in Q : \E x \in QueuedFor(tmp, view[r]) : x.from = s

\* processNewView, where the leader has the reports of a quorum.
LEMMA ViewChangeKeepsSafety ==
    ASSUME TotalNumber # 6, Before, SafetyTypeOK', NEW r \in Replica,
           NEW n \in Net, NEW q, Given(n, q), NEW tmp,
           ProcessNewView(r, view[r], tmp, n),
           UNCHANGED <<view, prepareQC, preCommitQC, executed>>,
           msgQueue' = [msgQueue EXCEPT ![r] = q],
           \A x \in tmp : x \in Reports,
           view[r] >= 2,
           Leader(r) = r => ~HasProposal(view[r]) /\ QuorumReports(r, tmp)
    PROVE  After
<1> DEFINE m == [type |-> "NewView", view |-> view[r]]
           S == QueuedFor(tmp, view[r])
<1>1. SafeState /\ SafetyTypeOK /\ SafetyInv /\ view[r] \in View
  BY BeforeIsSafe DEF SafeState, SafetyTypeOK
<1>2. CASE Leader(r) = r /\ ~Has(blockChain[r], highQC[r].hash)
  <2>1. /\ net' = n
        /\ UNCHANGED <<highQC, highQCTmp, votes, viewChanged>>
    BY <1>2 DEF ProcessNewView
  <2>2. \A x \in highQCTmp'[r] : Reported(x)
    BY <2>1 DEF Reported, Reports
  <2>3. PickStep(r)
    BY <2>1 DEF PickStep
  <2> PICK new : new = {}
    OBVIOUS
  <2>4. /\ \A x \in Carried(net') : x \in Carried(n) \/ x \in new
        /\ \A x \in new : x.type \notin VoteType \cup LeaderType
        /\ \A x \in new : x \in ReportMsg => Fresh(x)
        /\ \A s \in Replica : votes'[s] \subseteq votes[s]
        /\ \A s \in Replica \ {r} : /\ highQC'[s] = highQC[s]
                                     /\ highQCTmp'[s] = highQCTmp[s]
                                     /\ viewChanged'[s] = viewChanged[s]
    BY <2>1
  <2> QED
    BY <2>2, <2>3, <2>4, PaceKeepsSafety
<1>3. CASE ~(Leader(r) = r /\ ~Has(blockChain[r], highQC[r].hash))
  <2>1. PICK qc \in HighestQCs(prepareQC[r], {x.qc : x \in S}) :
          highQC' = [highQC EXCEPT ![r] = qc]
    BY <1>3 DEF ProcessNewView
  <2>2. /\ net' = IF Leader(r) = r THEN Multicast(n, r, m) ELSE n
        /\ highQCTmp' = [highQCTmp EXCEPT ![r] = tmp \ S]
        /\ votes' = [votes EXCEPT ![r] = {}]
        /\ viewChanged' = [viewChanged EXCEPT ![r] = TRUE]
    BY <1>3 DEF ProcessNewView
  <2> PICK new : new = {m}
    OBVIOUS
  <2>3. \A x \in Carried(net') : x \in Carried(n) \/ x \in new
    BY <2>2, NetIsNet, MulticastCarried
  <2>4. /\ \A x \in new : x.type \notin VoteType \cup LeaderType
        /\ \A x \in new : x \in ReportMsg => Fresh(x)
    BY ViewChangedIsNoReport DEF VoteType, LeaderType
  <2>5. \A s \in Replica : votes'[s] \subseteq votes[s]
    BY <1>1, <2>2 DEF SafetyTypeOK
  <2>6. \A s \in Replica \ {r} : /\ highQC'[s] = highQC[s]
                                 /\ highQCTmp'[s] = highQCTmp[s]
                                 /\ viewChanged'[s] = viewChanged[s]
    BY <1>1, <2>1, <2>2 DEF SafetyTypeOK
  <2>7. \A x \in highQCTmp'[r] : Reported(x)
    BY <1>1, <2>2 DEF SafetyTypeOK, Reported
  <2>8. PickStep(r)
    <3> SUFFICES ASSUME GetLeaderByView(view[r]) = r
                 PROVE  PickedFrom(<<view[r], highQC'[r]>>)
      BY DEF PickStep
    <3>1. highQC'[r] = qc
      BY <1>1, <2>1 DEF SafetyTypeOK
    <3>2. ~HasProposal(view[r])
      BY DEF Leader
    <3>3. PICK Q \in Quorums : \A s \in Q : \E x \in S : x.from = s
      BY DEF Leader, QuorumReports
    <3>4. \A x \in S : Reported(x) /\ x.view = view[r]
      BY DEF QueuedFor, Reported
    <3>5. prepareQC[r] \in Certs /\ prepareQC[r].view <= view[r]
      BY <1>1 DEF SafetyInv, CertsKnown
    <3> HIDE DEF S
    <3> QED
      BY <1>1, <2>1, <3>1, <3>2, <3>3, <3>4, <3>5, Picked
  <2> QED
    BY <2>3, <2>4, <2>5, <2>6, <2>7, <2>8, PaceKeepsSafety
<1> QED
  BY <1>2, <1>3

\* A vote of r for the certificate of its view is a report.
LEMMA OwnVoteIsFresh ==
    ASSUME Before, NEW r \in Replica, NEW v, v = view[r], UNCHANGED view
    PROVE  /\ Fresh(TimeoutVoteFrom(r, v))
           /\ TimeoutVoteFrom(r, v).type = "TimeoutVote"
           /\ TimeoutVoteFrom(r, v).from = r /\ TimeoutVoteFrom(r, v).view = v
BY DEF Fresh, TimeoutVoteFrom, ReportMsg, Before, CogsworthTypeOK, View

LEMMA WishKeepsSafety ==
    ASSUME TotalNumber # 6, Before, SafetyTypeOK', NEW r \in Replica,
           NEW m, NEW n, NEW q, Handles(r, m, n, q),
           m.type = "WishNextView", OnReceiveWishNextView(r, m, n, q)
    PROVE  Afterwards
<1> DEFINE own == TimeoutVoteFrom(r, m.view)
           cert == [type |-> "Timeout", view |-> m.view]
<1>1. Leader(r) = r /\ m.view = view[r] /\ view[r] >= 2
  BY HandledMsg
<1>2. n \in Net /\ Given(n, q) /\ SafetyTypeOK
  BY BeforeIsSafe DEF Handles, SafeState
<1>3. /\ msgQueue' = [msgQueue EXCEPT ![r] = q]
      /\ UNCHANGED <<view, prepareQC, preCommitQC, executed, votes, highQC,
                     viewChanged, timeoutVoteFinished>>
      /\ net' = n \/ net' = Multicast(n, r, cert)
      /\ \/ UNCHANGED <<highQCTmp, timeoutVotes>>
         \/ /\ highQCTmp' = [highQCTmp EXCEPT ![r] = @ \cup {own}]
            /\ timeoutVotes' = [timeoutVotes EXCEPT ![r] = @ \cup {<<m.view, r>>}]
  BY DEF OnReceiveWishNextView, leaderVars, chainVars, pacemakerVars
<1>4. Fresh(own) /\ own.view = m.view /\ own.from = r
  BY <1>1, <1>3, OwnVoteIsFresh
<1> PICK new : new = {cert}
  OBVIOUS
<1>5. \A x \in Carried(net') : x \in Carried(n) \/ x \in new
  BY <1>2, <1>3, NetIsNet, MulticastCarried
<1>6. /\ \A x \in new : x.type \notin VoteType \cup LeaderType
      /\ \A x \in new : x \in ReportMsg => Fresh(x)
  BY DEF VoteType, LeaderType, ReportMsg
<1> HIDE DEF own, cert
<1>7. /\ \A s \in Replica : votes'[s] \subseteq votes[s]
      /\ \A s \in Replica \ {r} : /\ highQC'[s] = highQC[s]
                                  /\ highQCTmp'[s] = highQCTmp[s]
                                  /\ viewChanged'[s] = viewChanged[s]
  BY <1>2, <1>3 DEF SafetyTypeOK
<1>8. \A x \in highQCTmp'[r] : Reported(x)
  BY <1>2, <1>3, <1>4 DEF SafetyTypeOK, Reported, Reports
<1>9. PickStep(r)
  BY <1>3 DEF PickStep
<1>10. After
  BY <1>1, <1>2, <1>3, <1>5, <1>6, <1>7, <1>8, <1>9, PaceKeepsSafety
<1>11. VotesReported'
  <2>1. CASE UNCHANGED <<highQCTmp, timeoutVotes>>
    BY <1>3, <2>1, SameBooks
  <2>2. CASE /\ highQCTmp' = [highQCTmp EXCEPT ![r] = @ \cup {own}]
             /\ timeoutVotes' = [timeoutVotes EXCEPT ![r] = @ \cup {<<m.view, r>>}]
    <3>1. /\ highQCTmp'[r] = highQCTmp[r] \cup {own}
          /\ timeoutVotes'[r] = timeoutVotes[r] \cup {<<m.view, r>>}
          /\ \A s \in Replica \ {r} : timeoutVotes'[s] = timeoutVotes[s]
      BY <2>2 DEF Before, CogsworthTypeOK
    <3>2. \A p \in timeoutVotes'[r] :
              \E x \in highQCTmp'[r] : x.view = p[1] /\ x.from = p[2]
      BY <1>4, <3>1 DEF Before, VotesReported
    <3>3. GetLeaderByView(view'[r]) = r /\ view'[r] \in timeoutVoteFinished'[r]
              => viewChanged'[r]
      BY <1>3 DEF Before, VotesReported, Leader
    <3>4. \A s \in Replica \ {r} :
              /\ view'[s] = view[s] /\ viewChanged'[s] = viewChanged[s]
              /\ timeoutVotes'[s] = timeoutVotes[s] /\ highQCTmp'[s] = highQCTmp[s]
              /\ timeoutVoteFinished'[s] = timeoutVoteFinished[s]
      BY <1>3, <1>7, <3>1
    <3> QED
      BY <3>2, <3>3, <3>4, BooksKept
  <2> QED
    BY <1>3, <2>1, <2>2
<1> QED
  BY <1>10, <1>11 DEF Afterwards

LEMMA TimeoutMsgKeepsSafety ==
    ASSUME TotalNumber # 6, Before, SafetyTypeOK', NEW r \in Replica,
           NEW m, NEW n, NEW q, Handles(r, m, n, q),
           m.type = "Timeout", OnReceiveTimeout(r, m, n, q)
    PROVE  Afterwards
<1> DEFINE own == TimeoutVoteFrom(r, m.view)
<1>1. m.view = view[r] /\ view[r] >= 2
  BY HandledMsg DEF ViewChangeType
<1>2. n \in Net /\ Given(n, q)
  BY DEF Handles
<1>3. /\ msgQueue' = [msgQueue EXCEPT ![r] = q]
      /\ UNCHANGED <<view, prepareQC, preCommitQC, executed, votes, highQC,
                     highQCTmp, viewChanged, timeoutVotes, timeoutVoteFinished>>
      /\ net' = Unicast(n, r, Leader(r), own)
  BY DEF OnReceiveTimeout, leaderVars, viewVars, chainVars, pacemakerVars
<1>4. Fresh(own) /\ own.type = "TimeoutVote"
  BY <1>1, <1>3, OwnVoteIsFresh
<1> PICK new : new = {own}
  OBVIOUS
<1>5. \A x \in Carried(net') : x \in Carried(n) \/ x \in new
  <2>1. Leader(r) \in Replica
    BY LeaderIsReplica DEF Leader, Before, CogsworthTypeOK
  <2> QED
    BY <1>2, <1>3, <2>1, NetIsNet, UnicastCarried
<1>6. /\ \A x \in new : x.type \notin VoteType \cup LeaderType
      /\ \A x \in new : x \in ReportMsg => Fresh(x)
  BY <1>4 DEF VoteType, LeaderType
<1> HIDE DEF own
<1>7. /\ \A s \in Replica : votes'[s] \subseteq votes[s]
      /\ \A s \in Replica \ {r} : /\ highQC'[s] = highQC[s]
                                  /\ highQCTmp'[s] = highQCTmp[s]
                                  /\ viewChanged'[s] = viewChanged[s]
      /\ \A x \in highQCTmp'[r] : Reported(x)
  BY <1>3 DEF Reported, Reports
<1>8. PickStep(r)
  BY <1>3 DEF PickStep
<1>9. After
  BY <1>1, <1>2, <1>3, <1>5, <1>6, <1>7, <1>8, PaceKeepsSafety
<1> QED
  BY <1>3, <1>9, SameBooks DEF Afterwards

LEMMA NewViewMsgKeepsSafety ==
    ASSUME TotalNumber # 6, Before, SafetyTypeOK', NEW r \in Replica,
           NEW m, NEW n, NEW q, Handles(r, m, n, q),
           m.type = "NewView", OnReceiveNewView(r, m, n, q)
    PROVE  Afterwards
<1>1. m.view = view[r] /\ view[r] >= 2 /\ Leader(r) # r
  BY HandledMsg DEF ViewChangeType
<1>2. n \in Net /\ Given(n, q)
  BY DEF Handles
<1>3. /\ ProcessNewView(r, view[r], highQCTmp[r], n)
      /\ msgQueue' = [msgQueue EXCEPT ![r] = q]
      /\ UNCHANGED <<view, prepareQC, preCommitQC, executed, timeoutVotes>>
  BY <1>1 DEF OnReceiveNewView, chainVars
<1>4. \A x \in highQCTmp[r] : x \in Reports
  BY DEF Reports
<1>5. After
  BY <1>1, <1>2, <1>3, <1>4, ViewChangeKeepsSafety
<1>6. VotesReported'
  <2>1. /\ \A s \in Replica \ {r} :
               /\ viewChanged'[s] = viewChanged[s]
               /\ highQCTmp'[s] = highQCTmp[s]
               /\ timeoutVoteFinished'[s] = timeoutVoteFinished[s]
        /\ highQCTmp'[r] = highQCTmp[r] \ QueuedFor(highQCTmp[r], view[r])
    BY <1>1, <1>3 DEF ProcessNewView, Before, CogsworthTypeOK
  <2>2. ASSUME NEW p \in timeoutVotes[r]
        PROVE  \E x \in highQCTmp'[r] : x.view = p[1] /\ x.from = p[2]
    <3>1. GetLeaderByView(p[1]) = r
      BY DEF Before, CogsworthInv, OwnVoteFirst, LeadsWhatItCounts
    <3>2. PICK x \in highQCTmp[r] : x.view = p[1] /\ x.from = p[2]
      BY DEF Before, VotesReported
    <3>3. x.view # view[r]
      BY <1>1, <3>1, <3>2 DEF Leader
    <3> QED
      BY <2>1, <3>2, <3>3 DEF QueuedFor
  <2>3. GetLeaderByView(view'[r]) # r
    BY <1>1, <1>3 DEF Leader
  <2> QED
    BY <1>3, <2>1, <2>2, <2>3, BooksKept
<1> QED
  BY <1>5, <1>6 DEF Afterwards

\* Enough votes for the certificate come with the reports of a quorum.
LEMMA CountedReports ==
    ASSUME Before, NEW r \in Replica, NEW m, m.view = view[r], m.from \in Replica,
           NEW counted, counted = timeoutVotes[r] \cup {<<m.view, m.from>>},
           Cardinality(OfView(counted, m.view)) >= QuorumSize
    PROVE  QuorumReports(r, highQCTmp[r] \cup {m})
<1> DEFINE P == OfView(counted, m.view)
           f == [p \in P |-> p[2]]
<1>1. \A p \in P : p \in counted /\ p[1] = view[r]
  BY DEF OfView
<1>2. \A p \in counted : p = <<p[1], p[2]>> /\ p[2] \in Replica
  BY DEF Before, CogsworthTypeOK
<1>3. f \in [P -> Replica]
  BY <1>1, <1>2
<1>4. ASSUME NEW x \in P, NEW y \in P, f[x] = f[y]
      PROVE  x = y
  <2>1. x[1] = y[1] /\ x[2] = y[2]
    BY <1>1, <1>4
  <2>2. x = <<x[1], x[2]>> /\ y = <<y[1], y[2]>>
    BY <1>1, <1>2
  <2> QED
    BY <2>1, <2>2
<1>5. {f[p] : p \in P} \in Quorums
  <2> HIDE DEF f, P
  <2>1. Cardinality(P) >= QuorumSize
    BY DEF P
  <2> QED
    BY <1>3, <1>4, <2>1, SendersAreQuorum
<1>6. ASSUME NEW p \in P
      PROVE  \E x \in QueuedFor(highQCTmp[r] \cup {m}, view[r]) : x.from = f[p]
  <2>1. \E x \in highQCTmp[r] \cup {m} : x.view = p[1] /\ x.from = p[2]
    <3>1. CASE p \in timeoutVotes[r]
      BY <3>1 DEF Before, VotesReported
    <3>2. CASE p = <<m.view, m.from>>
      BY <3>2
    <3> QED
      BY <1>1, <3>1, <3>2
  <2> QED
    BY <1>1, <2>1 DEF QueuedFor
<1>7. ASSUME NEW s \in {f[p] : p \in P}
      PROVE  \E x \in QueuedFor(highQCTmp[r] \cup {m}, view[r]) : x.from = s
  <2>1. PICK p \in P : s = f[p]
    OBVIOUS
  <2> QED
    BY <1>6, <2>1
<1> HIDE DEF f, P
<1> QED
  BY <1>5, <1>7 DEF QuorumReports

LEMMA TimeoutVoteKeepsSafety ==
    ASSUME TotalNumber # 6, Before, SafetyTypeOK', NEW r \in Replica,
           NEW m, NEW n, NEW q, Handles(r, m, n, q),
           m.type = "TimeoutVote", OnReceiveTimeoutVote(r, m, n, q)
    PROVE  Afterwards
<1> PICK counted, tmp : /\ counted = timeoutVotes[r] \cup {<<m.view, m.from>>}
                        /\ tmp = highQCTmp[r] \cup {m}
  OBVIOUS
<1>1. /\ Leader(r) = r /\ m.view = view[r] /\ view[r] >= 2
      /\ m.from \in Replica /\ m \in Reports
  BY HandledMsg
<1>2. n \in Net /\ Given(n, q) /\ SafetyTypeOK
  BY BeforeIsSafe DEF Handles, SafeState
<1>3. \A x \in tmp : x \in Reports
  BY <1>1 DEF Reports
<1>4. /\ msgQueue' = [msgQueue EXCEPT ![r] = q]
      /\ UNCHANGED <<view, prepareQC, preCommitQC, executed>>
  BY DEF OnReceiveTimeoutVote, chainVars
<1>5. CASE /\ net' = n
           /\ UNCHANGED <<votes, highQC, viewChanged, timeoutVoteFinished>>
           /\ \/ UNCHANGED <<highQCTmp, timeoutVotes>>
              \/ /\ highQCTmp' = [highQCTmp EXCEPT ![r] = tmp]
                 /\ timeoutVotes' = [timeoutVotes EXCEPT ![r] = counted]
  <2> PICK new : new = {}
    OBVIOUS
  <2>1. /\ \A x \in Carried(net') : x \in Carried(n) \/ x \in new
        /\ \A x \in new : x.type \notin VoteType \cup LeaderType
        /\ \A x \in new : x \in ReportMsg => Fresh(x)
        /\ \A s \in Replica : votes'[s] \subseteq votes[s]
    BY <1>5
  <2>2. /\ \A s \in Replica \ {r} : /\ highQC'[s] = highQC[s]
                                    /\ highQCTmp'[s] = highQCTmp[s]
                                    /\ viewChanged'[s] = viewChanged[s]
        /\ \A x \in highQCTmp'[r] : Reported(x)
    BY <1>2, <1>3, <1>5 DEF SafetyTypeOK, Reported, Reports
  <2>3. PickStep(r)
    BY <1>4, <1>5 DEF PickStep
  <2>4. After
    BY <1>1, <1>2, <1>4, <2>1, <2>2, <2>3, PaceKeepsSafety
  <2>5. CASE UNCHANGED <<highQCTmp, timeoutVotes>>
    BY <1>4, <1>5, <2>4, <2>5, SameBooks DEF Afterwards
  <2>6. CASE /\ highQCTmp' = [highQCTmp EXCEPT ![r] = tmp]
             /\ timeoutVotes' = [timeoutVotes EXCEPT ![r] = counted]
    <3>1. /\ highQCTmp'[r] = tmp /\ timeoutVotes'[r] = counted
          /\ \A s \in Replica \ {r} : timeoutVotes'[s] = timeoutVotes[s]
      BY <2>6 DEF Before, CogsworthTypeOK
    <3>2. \A p \in timeoutVotes'[r] :
              \E x \in highQCTmp'[r] : x.view = p[1] /\ x.from = p[2]
      BY <3>1 DEF Before, VotesReported
    <3>3. GetLeaderByView(view'[r]) = r /\ view'[r] \in timeoutVoteFinished'[r]
              => viewChanged'[r]
      BY <1>4, <1>5 DEF Before, VotesReported, Leader
    <3>4. VotesReported'
      BY <1>4, <1>5, <2>2, <3>1, <3>2, <3>3, BooksKept
    <3> QED
      BY <2>4, <3>4 DEF Afterwards
  <2> QED
    BY <1>5, <2>5, <2>6
<1>6. CASE /\ m.view \notin timeoutVoteFinished[r]
           /\ Cardinality(OfView(counted, m.view)) >= QuorumSize
           /\ ProcessNewView(r, m.view, tmp, n)
           /\ timeoutVotes' = [timeoutVotes EXCEPT
                                 ![r] = counted \ OfView(counted, m.view)]
  <2>1. ~HasProposal(view[r])
    BY <1>1, <1>6 DEF Before, CogsworthInv, TokenAfterViewChange
  <2>2. QuorumReports(r, tmp)
    BY <1>1, <1>6, CountedReports
  <2>3. After
    <3>1. ProcessNewView(r, view[r], tmp, n)
      BY <1>1, <1>6
    <3>2. ~HasProposal(view[r]) /\ QuorumReports(r, tmp)
      BY <2>1, <2>2
    <3> QED
      BY <1>1, <1>2, <1>3, <1>4, <3>1, <3>2, ViewChangeKeepsSafety
  <2>4. /\ \A s \in Replica \ {r} :
               /\ viewChanged'[s] = viewChanged[s]
               /\ highQCTmp'[s] = highQCTmp[s]
               /\ timeoutVoteFinished'[s] = timeoutVoteFinished[s]
        /\ \/ highQCTmp'[r] = tmp \ QueuedFor(tmp, view[r]) /\ viewChanged'[r]
           \/ /\ highQCTmp'[r] = highQCTmp[r] /\ viewChanged'[r] = viewChanged[r]
              /\ timeoutVoteFinished'[r] = timeoutVoteFinished[r]
    <3>1. CASE Has(blockChain[r], highQC[r].hash)
      <4>1. /\ highQCTmp' = [highQCTmp EXCEPT ![r] = tmp \ QueuedFor(tmp, view[r])]
            /\ viewChanged' = [viewChanged EXCEPT ![r] = TRUE]
            /\ timeoutVoteFinished' =
                  [timeoutVoteFinished EXCEPT ![r] = @ \cup {view[r]}]
        BY <1>6, <3>1 DEF ProcessNewView
      <4> QED
        BY <4>1 DEF Before, CogsworthTypeOK
    <3>2. CASE ~Has(blockChain[r], highQC[r].hash)
      <4>1. UNCHANGED <<highQCTmp, viewChanged, timeoutVoteFinished>>
        BY <1>1, <1>6, <3>2 DEF ProcessNewView
      <4> QED
        BY <4>1
    <3> QED
      BY <3>1, <3>2
  <2>5. /\ \A s \in Replica \ {r} : timeoutVotes'[s] = timeoutVotes[s]
        /\ timeoutVotes'[r] = counted \ OfView(counted, m.view)
    BY <1>6 DEF Before, CogsworthTypeOK
  <2>6. ASSUME NEW p \in timeoutVotes'[r]
        PROVE  \E x \in highQCTmp'[r] : x.view = p[1] /\ x.from = p[2]
    <3>1. p \in timeoutVotes[r] /\ p[1] # view[r]
      BY <1>1, <2>5 DEF OfView
    <3>2. PICK x \in highQCTmp[r] : x.view = p[1] /\ x.from = p[2]
      BY <3>1 DEF Before, VotesReported
    <3> QED
      BY <2>4, <3>1, <3>2 DEF QueuedFor
  <2>7. GetLeaderByView(view'[r]) = r /\ view'[r] \in timeoutVoteFinished'[r]
            => viewChanged'[r]
    BY <1>4, <2>4 DEF Before, VotesReported, Leader
  <2>8. VotesReported'
    BY <1>4, <2>4, <2>5, <2>6, <2>7, BooksKept
  <2> QED
    BY <2>3, <2>8 DEF Afterwards
<1> QED
  BY <1>5, <1>6 DEF OnReceiveTimeoutVote

\* r leaves its view, after it has sent the messages of new0 and counted the votes
\* of recs.
Advances(r, n, q, new0, recs, vs, hqc) ==
    /\ n \in Net
    /\ \A x \in Carried(n) : x \in Transit \/ x \in new0
    /\ \A x \in q : x \in Transit
    /\ \A d \in Replica : \A x \in hand'[d] : x \in Transit
    /\ \A x \in vs : x \in votes[r] \/ x \in recs
    /\ \A x \in recs : \E b \in proposed : b.hash = x.hash
    /\ \A x \in new0 : x.type \notin {"NewView", "TimeoutVote"}
    /\ WishToAdvance(r, n, q, vs, hqc)
    /\ UNCHANGED <<prepareQC, preCommitQC, proposed, clock>>
    /\ \A s \in Replica \ {r} : executed'[s] = executed[s]

LEMMA AdvanceKeepsSafety ==
    ASSUME TotalNumber # 6, Before, SafetyTypeOK', NEW r \in Replica,
           NEW n, NEW q, NEW new0, NEW recs, NEW vs, NEW hqc,
           Advances(r, n, q, new0, recs, vs, hqc),
           ExecStep(r), MsgStep(r, new0),
           VoteStep(r, new0, recs), LockStep(r, new0, recs)
    PROVE  Afterwards
<1> DEFINE next == view[r] + 1
           wish == WishFrom(r, next)
           new == new0 \cup {wish}
<1>1. /\ SafetyTypeOK /\ ViewsPositive /\ SafetyInv
      /\ view[r] \in Nat /\ view[r] >= 1
  BY BeforeIsSafe DEF SafeState, SafetyTypeOK, View, ViewsPositive
<1>2. /\ view' = [view EXCEPT ![r] = next]
      /\ highQC' = [highQC EXCEPT ![r] = hqc]
      /\ votes' = [votes EXCEPT ![r] = vs]
      /\ viewChanged' = [viewChanged EXCEPT ![r] = FALSE]
      /\ msgQueue' = [msgQueue EXCEPT ![r] = q]
      /\ UNCHANGED <<highQCTmp, timeoutVotes, timeoutVoteFinished>>
      /\ \/ /\ GetLeaderByView(next) # r
            /\ net' = Unicast(n, r, GetLeaderByView(next), wish)
         \/ net' = n
  BY DEF Advances, WishToAdvance
<1>3. wish.type = "WishNextView"
  BY DEF WishFrom
<1>4. next \in Nat /\ next > view[r] /\ next >= 2
  BY <1>1
<1> HIDE DEF next, wish
<1>5. \A x \in Carried(net') : x \in Transit \/ x \in new
  <2>1. GetLeaderByView(next) \in Replica
    BY <1>4, LeaderIsReplica DEF View
  <2>2. CASE net' = Unicast(n, r, GetLeaderByView(next), wish)
    <3>1. \A x \in Carried(net') : x \in Carried(n) \/ x = wish
      BY <2>1, <2>2, NetIsNet, UnicastCarried DEF Advances
    <3> QED
      BY <3>1 DEF Advances
  <2>3. CASE net' = n
    BY <2>3 DEF Advances
  <2> QED
    BY <1>2, <2>2, <2>3
<1>6. /\ view'[r] = next /\ ~viewChanged'[r] /\ votes'[r] = vs /\ msgQueue'[r] = q
      /\ \A s \in Replica \ {r} :
            /\ view'[s] = view[s] /\ highQC'[s] = highQC[s] /\ votes'[s] = votes[s]
            /\ viewChanged'[s] = viewChanged[s] /\ msgQueue'[s] = msgQueue[s]
  BY <1>1, <1>2 DEF SafetyTypeOK
<1>7. Touches(r, new, recs)
  <2>1. \A d \in Replica : \A x \in msgQueue'[d] : x \in Transit \/ x \in new
    BY <1>6, TransitParts DEF Advances
  <2>2. \A d \in Replica : \A x \in hand'[d] : x \in Transit \/ x \in new
    BY DEF Advances
  <2> HIDE DEF new
  <2>3. \A x \in Transit' : x \in Transit \/ x \in new
    BY <1>5, <2>1, <2>2, TransitAfter
  <2> QED
    BY <1>2, <1>6, <2>3 DEF Touches, Advances
<1>8. CertStep(r)
  BY <1>1, <1>4, <1>6 DEF CertStep, Advances
<1>9. ReportStep(r, new)
  <2>1. \A x \in new : x \notin ReportMsg
    BY <1>3 DEF Advances, ReportMsg
  <2> QED
    BY <1>2, <2>1 DEF ReportStep, Reported, Reports
<1>10. PickStep(r)
  BY <1>6 DEF PickStep
<1>11. MsgStep(r, new)
  BY <1>3 DEF MsgStep
<1>12. \A type, s, w : type # "WishNextView" /\ NewVote(new, recs, type, s, w) =>
                          NewVote(new0, recs, type, s, w)
  BY <1>3 DEF NewVote
<1>13. VoteStep(r, new, recs)
  BY <1>12 DEF VoteStep
<1>14. LockStep(r, new, recs)
  <2>1. /\ \A w : (\E x \in new : x.type \in {"Commit", "Decide"} /\ x.view = w) =>
                     \E x \in new0 : x.type \in {"Commit", "Decide"} /\ x.view = w
        /\ \A w : (\E x \in new : x.type = "Decide" /\ x.view = w) =>
                     \E x \in new0 : x.type = "Decide" /\ x.view = w
    BY <1>3
  <2>2. \A s, w : NewVote(new, recs, "CommitVote", s, w) =>
                      NewVote(new0, recs, "CommitVote", s, w)
    BY <1>12
  <2> HIDE DEF new
  <2> QED
    BY <2>1, <2>2 DEF LockStep
<1>15. After
  <2> HIDE DEF new
  <2> QED
    BY <1>1, <1>7, <1>8, <1>9, <1>10, <1>11, <1>13, <1>14, TouchedKeepsSafety
<1>16. VotesReported'
  <2>1. \A p \in timeoutVotes'[r] :
            \E x \in highQCTmp'[r] : x.view = p[1] /\ x.from = p[2]
    BY <1>2 DEF Before, VotesReported
  <2>2. GetLeaderByView(next) = r => next \notin timeoutVoteFinished[r]
    <3>1. \A v \in timeoutVoteFinished[r] :
              GetLeaderByView(v) = r => v \in wishFinished[r]
      BY DEF Before, CogsworthInv, LeadsWhatItCounts
    <3>2. \A v \in wishFinished[r] : v <= view[r]
      BY DEF Before, CogsworthInv, LeadsWhatItCounts
    <3>3. ~(next <= view[r])
      BY <1>1, <1>4
    <3> QED
      BY <3>1, <3>2, <3>3
  <2>3. \A s \in Replica \ {r} :
            /\ view'[s] = view[s] /\ viewChanged'[s] = viewChanged[s]
            /\ timeoutVotes'[s] = timeoutVotes[s] /\ highQCTmp'[s] = highQCTmp[s]
            /\ timeoutVoteFinished'[s] = timeoutVoteFinished[s]
    BY <1>2, <1>6
  <2>4. GetLeaderByView(view'[r]) = r /\ view'[r] \in timeoutVoteFinished'[r]
            => viewChanged'[r]
    BY <1>2, <1>6, <2>2
  <2> QED
    BY <2>1, <2>3, <2>4, BooksKept
<1> QED
  BY <1>15, <1>16 DEF Afterwards

LEMMA TimeoutKeepsSafety ==
    ASSUME TotalNumber # 6, Before, SafetyTypeOK', NEW r \in Replica, Timeout(r)
    PROVE  Afterwards
<1>1. /\ WishToAdvance(r, net, msgQueue[r], votes[r], highQC[r])
      /\ UNCHANGED <<prepareQC, preCommitQC, proposed, clock, executed, hand>>
  BY DEF Timeout, chainVars, requestVars, handVars
<1> PICK new : new = {}
  OBVIOUS
<1>2. Advances(r, net, msgQueue[r], new, {}, votes[r], highQC[r])
  <2>1. net \in Net
    BY DEF Before, CogsworthTypeOK, Net, NetOf
  <2> QED
    BY <1>1, <2>1, TransitParts DEF Advances
<1>3. /\ ExecStep(r) /\ MsgStep(r, new)
      /\ VoteStep(r, new, {}) /\ LockStep(r, new, {})
  <2>1. SafeState /\ UNCHANGED <<executed, preCommitQC>>
    BY <1>1, BeforeIsSafe
  <2>2. \A x \in new : x.type \notin VoteType \cup LeaderType
    OBVIOUS
  <2> QED
    BY <2>1, <2>2, NoBlockSteps
<1> QED
  BY <1>2, <1>3, AdvanceKeepsSafety

\* A leader executes its block.
LEMMA DecideKeepsSafety ==
    ASSUME TotalNumber # 6, Before, SafetyTypeOK', NEW r \in Replica,
           NEW m, NEW n, NEW q, Handles(r, m, n, q),
           m.type = "CommitVote", IsFresh(r, m), HasQuorum(r, m),
           Execute(r, m.block),
           WishToAdvance(r, Multicast(n, r, DecideMsg(r, m.block)), q,
                         LeftVotes(r, m), CreateQuorumCert(m.block)),
           UNCHANGED <<prepareQC, preCommitQC>>
    PROVE  Afterwards
<1> PICK x, p, qc : /\ x = DecideMsg(r, m.block)
                    /\ p = Multicast(n, r, x)
                    /\ qc = CreateQuorumCert(m.block)
  OBVIOUS
<1> PICK new, recs : /\ new = {x}
                     /\ recs = {OwnVote(m.from, m.type, m.block)}
  OBVIOUS
<1>1. /\ AboutBlock(r, m) /\ SafeState
      /\ view'[r] = view[r] + 1
      /\ n \in Net /\ Given(n, q)
  <2>1. AboutBlock(r, m)
    BY HandledMsg DEF VoteType
  <2>2. SafeState
    BY BeforeIsSafe
  <2>3. view' = [view EXCEPT ![r] = view[r] + 1]
    BY DEF WishToAdvance
  <2>4. view \in [Replica -> View]
    BY DEF Before, CogsworthTypeOK
  <2> QED
    BY <2>1, <2>2, <2>3, <2>4 DEF Handles
<1>2. /\ ExecStep(r) /\ MsgStep(r, new)
      /\ VoteStep(r, new, recs) /\ LockStep(r, new, recs)
      /\ \A y \in recs : \E b \in proposed : b.hash = y.hash
      /\ \A y \in LeftVotes(r, m) : y \in votes[r] \/ y \in recs
      /\ \A s \in Replica \ {r} : executed'[s] = executed[s]
      /\ x.type = "Decide"
  BY <1>1, DecideSteps
<1>3. x \in CogsworthMsg
  <2>1. /\ view[r] \in View /\ m.block \in Block
        /\ qc \in QuorumCert
    BY <1>1, BlockOfMsg, QuorumCertType DEF SafeState
  <2> QED
    BY <2>1, LeaderMsgType DEF DecideMsg, LeaderType, CogsworthMsg, PhaseMsg
<1>4. p \in Net /\ \A y \in Carried(p) : y \in Transit \/ y \in new
  <2>1. p \in Net
    BY <1>1, <1>3, MulticastTypeOf DEF Net
  <2>2. \A y \in Carried(p) : y \in Carried(n) \/ y = x
    BY <1>1, NetIsNet, MulticastCarried
  <2> QED
    BY <1>1, <2>1, <2>2 DEF Given
<1>5. WishToAdvance(r, p, q, LeftVotes(r, m), qc)
  OBVIOUS
<1>6. Advances(r, p, q, new, recs, LeftVotes(r, m), qc)
  BY <1>1, <1>2, <1>4, <1>5 DEF Advances, Given
<1> QED
  BY <1>2, <1>6, AdvanceKeepsSafety

\* A follower executes a decided block.
LEMMA LearnKeepsSafety ==
    ASSUME TotalNumber # 6, Before, SafetyTypeOK', NEW r \in Replica,
           NEW m, NEW n, NEW q, Handles(r, m, n, q),
           m.type = "Decide", AcceptQC(r, m),
           Execute(r, m.block), WishToAdvance(r, n, q, votes[r], m.qc),
           UNCHANGED <<prepareQC, preCommitQC>>
    PROVE  Afterwards
<1>1. /\ AboutBlock(r, m) /\ SafeState
      /\ MatchingMsg(r, m) /\ view'[r] = view[r] + 1
      /\ n \in Net /\ Given(n, q)
  <2>1. AboutBlock(r, m)
    BY HandledMsg DEF LeaderType
  <2>2. SafeState /\ MatchingMsg(r, m)
    BY BeforeIsSafe DEF AcceptQC
  <2>3. view' = [view EXCEPT ![r] = view[r] + 1]
    BY DEF WishToAdvance
  <2>4. view \in [Replica -> View]
    BY DEF Before, CogsworthTypeOK
  <2> QED
    BY <2>1, <2>2, <2>3, <2>4 DEF Handles
<1> PICK new : new = {}
  OBVIOUS
<1>2. /\ ExecStep(r) /\ MsgStep(r, new)
      /\ VoteStep(r, new, {}) /\ LockStep(r, new, {})
      /\ \A s \in Replica \ {r} : executed'[s] = executed[s]
  BY <1>1, LearnSteps
<1>3. Advances(r, n, q, new, {}, votes[r], m.qc)
  <2>1. /\ \A x \in Carried(n) : x \in Transit
        /\ \A x \in q : x \in Transit
        /\ \A d \in Replica : \A x \in hand'[d] : x \in Transit
        /\ UNCHANGED <<proposed, clock>>
    BY <1>1 DEF Given
  <2> QED
    BY <1>1, <1>2, <2>1 DEF Advances
<1> QED
  BY <1>2, <1>3, AdvanceKeepsSafety

-----------------------------------------------------------------------------
(* Every handler. *)

LEMMA IgnoringKeepsSafety ==
    ASSUME TotalNumber # 6, Before, SafetyTypeOK', NEW r \in Replica,
           NEW m, NEW n, NEW q, Handles(r, m, n, q), Ignore(r, n, q),
           UNCHANGED pacemakerVars
    PROVE  Afterwards
<1>1. SafeState /\ Given(n, q)
  BY BeforeIsSafe DEF Handles
<1>2. After
  BY <1>1, IgnoreKeepsSafety
<1>3. VotesReported'
  BY SameBooks DEF Ignore, viewVars, pacemakerVars
<1> QED
  BY <1>2, <1>3 DEF Afterwards

LEMMA PhaseMsgKeepsSafety ==
    ASSUME TotalNumber # 6, Before, SafetyTypeOK', NEW r \in Replica,
           NEW m, NEW n, NEW q, Handles(r, m, n, q), OnReceivePhaseMsg(r, m, n, q),
           UNCHANGED pacemakerVars
    PROVE  Afterwards
<1>1. SafeState /\ Given(n, q) /\ AboutBlock(r, m)
  BY BeforeIsSafe, HandledMsg DEF Handles, OnReceivePhaseMsg, VoteType, LeaderType
<1>2. After /\ Unreported
  BY <1>1, PhaseKeepsSafety DEF OnReceivePhaseMsg
<1>3. UNCHANGED viewChanged
  BY DEF OnReceivePhaseMsg, OnReceivePrepare, OnReceivePrepareVote,
         OnReceivePreCommit, OnReceivePreCommitVote, OnReceiveCommit,
         Vote, StoreVote, StartPhase, Ignore, Panic, viewVars
<1>4. VotesReported'
  BY <1>2, <1>3, SameBooks DEF Unreported, pacemakerVars
<1> QED
  BY <1>2, <1>4 DEF Afterwards

LEMMA CommitVoteKeepsSafety ==
    ASSUME TotalNumber # 6, Before, SafetyTypeOK', NEW r \in Replica,
           NEW m, NEW n, NEW q, Handles(r, m, n, q),
           m.type = "CommitVote", OnReceiveCommitVote(r, m, n, q)
    PROVE  Afterwards
<1>1. CASE StoreVote(r, m, n, q) /\ UNCHANGED pacemakerVars
  <2>1. SafeState /\ Given(n, q) /\ AboutBlock(r, m) /\ m.type \in VoteType
    BY BeforeIsSafe, HandledMsg DEF Handles, VoteType
  <2>2. After
    BY <1>1, <2>1, StoreVoteKeepsSafety
  <2>3. VotesReported'
    BY <1>1, SameBooks DEF StoreVote, viewVars, pacemakerVars
  <2> QED
    BY <2>2, <2>3 DEF Afterwards
<1>2. CASE Ignore(r, n, q) /\ UNCHANGED pacemakerVars
  BY <1>2, IgnoringKeepsSafety
<1> QED
  BY <1>1, <1>2, DecideKeepsSafety DEF OnReceiveCommitVote, DecideMsg

LEMMA DecideMsgKeepsSafety ==
    ASSUME TotalNumber # 6, Before, SafetyTypeOK', NEW r \in Replica,
           NEW m, NEW n, NEW q, Handles(r, m, n, q),
           m.type = "Decide", OnReceiveDecide(r, m, n, q)
    PROVE  Afterwards
BY IgnoringKeepsSafety, LearnKeepsSafety DEF OnReceiveDecide

LEMMA DispatchKeepsSafety ==
    ASSUME TotalNumber # 6, Before, SafetyTypeOK', NEW r \in Replica,
           NEW m, NEW n, NEW q, Handles(r, m, n, q), Dispatch(r, m, n, q)
    PROVE  Afterwards
BY WishKeepsSafety, TimeoutMsgKeepsSafety, TimeoutVoteKeepsSafety,
   NewViewMsgKeepsSafety, PhaseMsgKeepsSafety, CommitVoteKeepsSafety,
   DecideMsgKeepsSafety DEF Dispatch

-----------------------------------------------------------------------------
(* Every step. *)

\* A message is handled.
SomeHandled ==
    \E r \in Replica : \E m, n, q : Handles(r, m, n, q) /\ Dispatch(r, m, n, q)

LEMMA BeforeParts ==
    ASSUME Before
    PROVE  /\ net \in Net /\ IsNet(net) /\ DOMAIN hand = Replica
           /\ SafetyTypeOK /\ HandlerTypeOK
           /\ msgQueue \in [Replica -> SUBSET CogsworthMsg]
           /\ hand \in [Replica -> SUBSET CogsworthMsg]
<1>1. HandlerTypeOK /\ SafetyTypeOK
  BY TypeByParts, TypesForSafety DEF Before
<1>2. net \in Net
  BY DEF Before, CogsworthTypeOK, Net, NetOf
<1>3. /\ msgQueue \in [Replica -> SUBSET CogsworthMsg]
      /\ hand \in [Replica -> SUBSET CogsworthMsg]
  BY DEF Before, CogsworthTypeOK
<1> QED
  BY <1>1, <1>2, <1>3, NetIsNet

LEMMA AsideKept ==
    ASSUME Before, NEW r \in Replica, NEW s \in Replica,
           \/ ReceiveFuture(r, s) \/ ReceiveStale(r, s) \/ HoldCurrent(r, s)
           \/ Lose(r, s) \/ UNCHANGED vars
    PROVE  Quiet
BY BeforeParts, AsideIsQuiet

LEMMA ReceiveHandles ==
    ASSUME Before, NEW r \in Replica, NEW s \in Replica, ReceiveCurrent(r, s)
    PROVE  SomeHandled
<1> PICK m, n : m = Head(net[s][r]) /\ n = Taken(r, s)
  OBVIOUS
<1>1. /\ net[s][r] # <<>> /\ m.view = view[r]
      /\ Dispatch(r, m, n, msgQueue[r])
      /\ UNCHANGED <<proposed, clock, hand>>
  BY DEF ReceiveCurrent, CanReceive, requestVars, handVars
<1>2. m \in CogsworthMsg /\ n \in Net
  BY <1>1, BeforeParts, TakenType
<1>3. m \in Transit /\ \A x \in Carried(n) : x \in Transit
  BY <1>1, BeforeParts, TakenCarried, TransitParts
<1>4. IsSent(s, r, m)
  <2>1. net[s][r] \in Seq(CogsworthMsg)
    BY BeforeParts DEF Net, NetOf
  <2>2. 1 \in DOMAIN net[s][r] /\ m = net[s][r][1]
    BY <1>1, <2>1
  <2>3. m \in OnTheWay(r, s)
    BY <2>2 DEF OnTheWay
  <2> QED
    BY <2>3 DEF Before, CogsworthInv, MessagesSent
<1>5. Handles(r, m, n, msgQueue[r])
  BY <1>1, <1>2, <1>3, <1>4, NetIsNet, TransitParts DEF Handles, Due, Given
<1> QED
  BY <1>1, <1>5 DEF SomeHandled

LEMMA ChaseHandles ==
    ASSUME Before, NEW r \in Replica, Chase(r)
    PROVE  SomeHandled
<1> PICK m, n, q : /\ m \in Last(msgQueue[r], view[r])
                   /\ n = net
                   /\ q = Pop(msgQueue[r], view[r], m)
                   /\ Dispatch(r, m, n, q)
  BY DEF Chase
<1>1. /\ m \in msgQueue[r] /\ m.view = view[r] /\ q \subseteq msgQueue[r]
      /\ UNCHANGED <<proposed, clock, hand>>
  BY DEF Chase, Last, QueuedFor, Pop, requestVars
<1>2. \E s \in Replica : IsSent(s, r, m)
  BY <1>1 DEF Before, CogsworthInv, MessagesSent
<1>3. m \in CogsworthMsg /\ n \in Net /\ IsNet(n)
  BY <1>1, BeforeParts
<1>4. Handles(r, m, n, q)
  BY <1>1, <1>2, <1>3, TransitParts DEF Handles, Due, Given
<1> QED
  BY <1>4 DEF SomeHandled

LEMMA HeldHandles ==
    ASSUME Before, NEW r \in Replica, HandleHeld(r)
    PROVE  SomeHandled
<1> PICK m, n, q : m \in hand[r] /\ n = net /\ q = msgQueue[r] /\ Dispatch(r, m, n, q)
  BY DEF HandleHeld
<1>1. hand' = [hand EXCEPT ![r] = {}] /\ UNCHANGED <<proposed, clock>>
  BY DEF HandleHeld, requestVars
<1>2. \A d \in Replica : \A x \in hand'[d] : x \in Transit
  BY <1>1, BeforeParts, TransitParts
<1>3. /\ \E s \in Replica : IsSent(s, r, m)
      /\ GetLeaderByView(m.view) = r \/ m.type \in ViewChangeType => m.view = view[r]
  BY DEF Before, CogsworthInv, MessagesSent, HeldIsCurrent
<1>4. m \in CogsworthMsg /\ n \in Net /\ IsNet(n)
  BY BeforeParts
<1>5. Handles(r, m, n, q)
  BY <1>1, <1>2, <1>3, <1>4, TransitParts DEF Handles, Due, Given
<1> QED
  BY <1>5 DEF SomeHandled

\* Every step handles a message, times out, proposes, or is quiet.
LEMMA NextHandles ==
    ASSUME Before, [CogsworthNext]_cogsworthVars
    PROVE  \/ SomeHandled
           \/ Quiet /\ UNCHANGED pacemakerVars
           \/ \E r \in Replica : Timeout(r) \/ OnBeat(r)
<1>1. ASSUME NEW r \in Replica, NEW s \in Replica, ReceiveAside(r, s)
      PROVE  Quiet /\ UNCHANGED pacemakerVars
  BY <1>1, AsideKept DEF ReceiveAside
<1>2. ASSUME NEW r \in Replica, NEW s \in Replica, Lose(r, s), UNCHANGED pacemakerVars
      PROVE  Quiet /\ UNCHANGED pacemakerVars
  BY <1>2, AsideKept
<1>3. CASE UNCHANGED cogsworthVars
  <2>1. 0 \in Replica
    BY TotalNumberAssumption DEF Replica
  <2>2. UNCHANGED vars /\ UNCHANGED pacemakerVars
    BY <1>3 DEF cogsworthVars
  <2> QED
    BY <2>1, <2>2, AsideKept
<1> QED
  BY <1>1, <1>2, <1>3, ReceiveHandles, ChaseHandles, HeldHandles
     DEF CogsworthNext, HandleMsg, Receive

LEMMA NextSafety ==
    ASSUME TotalNumber # 6, Before, SafetyTypeOK', [CogsworthNext]_cogsworthVars
    PROVE  Afterwards
<1>1. SafeState /\ IsNet(net)
  BY BeforeIsSafe, BeforeParts
<1>2. CASE Quiet /\ UNCHANGED pacemakerVars
  <2>1. After
    BY <1>1, <1>2, QuietKeepsSafety DEF SafeState
  <2>2. VotesReported'
    BY <1>2, SameBooks DEF Quiet, pacemakerVars
  <2> QED
    BY <2>1, <2>2 DEF Afterwards
<1>3. CASE SomeHandled
  BY <1>3, DispatchKeepsSafety DEF SomeHandled
<1>4. ASSUME NEW r \in Replica, OnBeat(r)
      PROVE  Afterwards
  <2>1. holding[r] /\ HandleReq(r) /\ UNCHANGED pacemakerVars
    BY <1>4 DEF OnBeat, HandleReq
  <2>2. Leader(r) = r
    BY <2>1 DEF Before, CogsworthInv, TokenDiscipline
  <2>3. view[r] >= 2 => view[r] \in timeoutVoteFinished[r]
    BY <2>1, <2>2 DEF Before, CogsworthInv, TokenAfterViewChange
  <2>4. view[r] >= 2 => viewChanged[r]
    BY <2>2, <2>3 DEF Before, VotesReported
  <2>5. After
    BY <1>1, <2>1, <2>4, ProposeKeepsSafety
  <2>6. VotesReported'
    BY <2>1, SameBooks DEF HandleReq, pacemakerVars
  <2> QED
    BY <2>5, <2>6 DEF Afterwards
<1> QED
  BY <1>2, <1>3, <1>4, NextHandles, TimeoutKeepsSafety

-----------------------------------------------------------------------------
(* The theorems. *)

\* The invariant behind agreement.  A leader that changes to its view has the
\* PrepareQCs of a quorum, so its HighQC is not older than what a quorum locked.
\* With six replicas two quorums may have no replica in common, as in Basic
\* HotStuff.
THEOREM CogsworthSafetyInv ==
    ASSUME TotalNumber # 6
    PROVE  CogsworthSpec => []Before
<1>1. CogsworthInit => VotesReported /\ SafetyInv
  BY InitSafety, TotalNumberAssumption DEF CogsworthInit, Init, VotesReported, Replica
<1>2. /\ CogsworthTypeOK /\ CogsworthTypeOK' /\ CogsworthInv
      /\ VotesReported /\ SafetyInv
      /\ [CogsworthNext]_cogsworthVars
      => VotesReported' /\ SafetyInv'
  BY NextSafety, TypesForSafety DEF Before, Afterwards, After
<1> QED
  BY <1>1, <1>2, CogsworthTypeCorrect, CogsworthInvCorrect, PTL
     DEF CogsworthSpec, Before

\* A leader changes to its view on the PrepareQCs of a quorum: they stay in
\* highQCTmp as long as the votes they came with stay in verifiedTimeoutVotes.
THEOREM VotesReportedCorrect ==
    ASSUME TotalNumber # 6
    PROVE  CogsworthSpec => []VotesReported
<1>1. Before => VotesReported
  BY DEF Before
<1> QED
  BY <1>1, CogsworthSafetyInv, PTL

\* Agreement with the pacemaker.  Of any two blocks that replicas execute one
\* extends the other.
THEOREM CogsworthConsistency ==
    ASSUME TotalNumber # 6
    PROVE  CogsworthSpec => []Consistency
BY CogsworthSafetyInv, SafetyGivesConsistency, BeforeIsSafe, PTL

\* With the pacemaker, too, no leader proposes a block that SafeNode would have
\* to refuse: every proposal extends what any replica has locked in earlier views.
THEOREM CogsworthProposalsExtendLocks ==
    ASSUME TotalNumber # 6
    PROVE  CogsworthSpec => []ProposalsExtendLocks
BY CogsworthSafetyInv, SafetyGivesExtension, BeforeIsSafe, PTL

\* With the pacemaker, too, what is executed is locked by a quorum.
THEOREM CogsworthExecutedIsLocked ==
    ASSUME TotalNumber # 6
    PROVE  CogsworthSpec => []ExecutedIsLocked
BY CogsworthSafetyInv, SafetyGivesLocks, BeforeIsSafe, PTL

\* The step that LocksNeverRegress is about.
NoLockRegresses ==
    \A r \in Replica :
        /\ prepareQC'[r].view >= prepareQC[r].view
        /\ preCommitQC'[r].view >= preCommitQC[r].view
        /\ holding'[r] =>
              \A s \in Replica : preCommitQC'[s].view < view'[r] =>
                  highQC'[r].view >= preCommitQC'[s].view

\* Who has the token has changed to its view on the reports of a quorum, and one
\* of them comes from a replica that had voted for what is locked.
LEMMA TokenKnowsLocks ==
    ASSUME Before, NEW r \in Replica, holding[r], NEW s \in Replica,
           preCommitQC[s].view < view[r]
    PROVE  highQC[r].view >= preCommitQC[s].view
<1>1. /\ view[r] \in Nat /\ view[r] >= 1
      /\ preCommitQC[s].view \in Nat /\ highQC[r].view \in Nat
  BY BeforeIsSafe DEF Before, CogsworthTypeOK, View, QuorumCert, SafeState, ViewsPositive
<1>w. PICK w \in View : w = preCommitQC[s].view
  BY <1>1 DEF View
<1>2. CASE w = 0
  BY <1>1, <1>w, <1>2
<1>3. CASE w >= 1
  <2>1. Leader(r) = r
    BY DEF Before, CogsworthInv, TokenDiscipline
  <2>2. view[r] >= 2
    BY <1>1, <1>w, <1>3
  <2>3. view[r] \in timeoutVoteFinished[r]
    BY <2>1, <2>2 DEF Before, CogsworthInv, TokenAfterViewChange
  <2>4. viewChanged[r]
    BY <2>1, <2>3 DEF Before, VotesReported
  <2>5. <<view[r], highQC[r]>> \in Candidates
    BY <2>1, <2>4 DEF Candidates
  <2>6. LockedIn(w)
    BY <1>w DEF LockedIn
  <2>7. \A p \in Candidates : p[1] > w => p[2].view >= w
    BY <1>3, <2>6 DEF Before, SafetyInv, LocksChosen
  <2>8. view[r] > w
    BY <1>1, <1>w
  <2> QED
    BY <1>w, <2>5, <2>7, <2>8
<1> QED
  BY <1>1, <1>w, <1>2, <1>3

TokensKnowLocks ==
    \A r \in Replica : holding[r] =>
        \A s \in Replica : preCommitQC[s].view < view[r] =>
            highQC[r].view >= preCommitQC[s].view

LEMMA TokensAreInformed == Before => TokensKnowLocks
BY TokenKnowsLocks DEF TokensKnowLocks

LEMMA NextNeverRegresses ==
    ASSUME TotalNumber # 6, Before, Before', [CogsworthNext]_cogsworthVars
    PROVE  NoLockRegresses
<1>1. SafetyTypeOK /\ SafetyTypeOK'
  BY BeforeIsSafe, TypesForSafety DEF Before
<1>2. CertEffect
  BY <1>1, NextSafety DEF Afterwards, After
<1>3. \A r \in Replica : /\ prepareQC'[r].view >= prepareQC[r].view
                        /\ preCommitQC'[r].view >= preCommitQC[r].view
  BY <1>1, <1>2, CertsGrow DEF Before, SafetyInv
<1>4. TokensKnowLocks'
  BY TokensAreInformed, PTL
<1> QED
  BY <1>3, <1>4 DEF NoLockRegresses, TokensKnowLocks

\* With the pacemaker, too, neither what a replica prepared nor what it locked gives
\* way to something older, and the certificate that the next proposal will carry is
\* not older than any lock of the views before it.
THEOREM LocksNeverRegressCorrect ==
    ASSUME TotalNumber # 6
    PROVE  CogsworthSpec => LocksNeverRegress
<1>1. Before /\ Before' /\ [CogsworthNext]_cogsworthVars
      => [NoLockRegresses]_cogsworthVars
  BY NextNeverRegresses
<1> QED
  BY <1>1, CogsworthSafetyInv, PTL
     DEF CogsworthSpec, LocksNeverRegress, NoLockRegresses

-----------------------------------------------------------------------------
(* Refinement. *)

LEMMA DispatchRefines ==
    ASSUME Before, NEW r \in Replica, NEW m, NEW n, NEW q, Handles(r, m, n, q),
           Dispatch(r, m, n, q)
    PROVE  BlockStep
<1> USE DEF chainVars
<1>1. SafeState /\ UNCHANGED proposed
  BY BeforeIsSafe DEF Handles, Given
<1>2. CASE UNCHANGED executed
  BY <1>1, <1>2 DEF BlockStep
<1>3. CASE m.type = "CommitVote" /\ OnReceiveCommitVote(r, m, n, q)
  <2>1. CASE IsFresh(r, m) /\ HasQuorum(r, m) /\ Execute(r, m.block)
    <3>1. AboutBlock(r, m)
      BY <1>3, HandledMsg DEF VoteType
    <3>2. MayDecide(r, m.block)
      BY <1>1, <1>3, <2>1, <3>1, DecideRefines
    <3> QED
      BY <3>2 DEF BlockStep, MayDecide, MayExecute
  <2> QED
    BY <1>2, <1>3, <2>1 DEF OnReceiveCommitVote, Ignore, StoreVote
<1>4. CASE m.type = "Decide" /\ OnReceiveDecide(r, m, n, q)
  <2>1. CASE AcceptQC(r, m) /\ Execute(r, m.block)
    <3>1. AboutBlock(r, m)
      BY <1>4, HandledMsg DEF LeaderType
    <3>2. MayLearn(r, m.block)
      BY <1>1, <1>4, <2>1, <3>1, LearnRefines DEF AcceptQC
    <3> QED
      BY <3>2 DEF BlockStep, MayLearn, MayExecute
  <2> QED
    BY <1>2, <1>4, <2>1 DEF OnReceiveDecide, Ignore
<1>5. CASE \/ OnReceiveWishNextView(r, m, n, q) \/ OnReceiveTimeout(r, m, n, q)
           \/ OnReceiveTimeoutVote(r, m, n, q) \/ OnReceiveNewView(r, m, n, q)
  BY <1>2, <1>5 DEF OnReceiveWishNextView, OnReceiveTimeout, OnReceiveTimeoutVote,
                    OnReceiveNewView
<1>6. CASE OnReceivePhaseMsg(r, m, n, q)
  <2>1. UNCHANGED executed
    BY <1>6 DEF OnReceivePhaseMsg, OnReceivePrepare, OnReceivePrepareVote,
                OnReceivePreCommit, OnReceivePreCommitVote, OnReceiveCommit,
                Vote, StoreVote, StartPhase, Ignore, Panic
  <2> QED
    BY <1>2, <2>1
<1> QED
  BY <1>3, <1>4, <1>5, <1>6 DEF Dispatch

LEMMA NextRefines ==
    ASSUME Before, Before', [CogsworthNext]_cogsworthVars
    PROVE  BlockStep
<1>1. ASSUME NEW r \in Replica, Timeout(r) PROVE BlockStep
  BY <1>1 DEF Timeout, chainVars, requestVars, BlockStep
<1>2. ASSUME NEW r \in Replica, OnBeat(r) PROVE BlockStep
  BY <1>2, ProposeRefines, BeforeIsSafe DEF BlockStep, OnBeat
<1>3. CASE Quiet
  BY <1>3 DEF Quiet, BlockStep
<1> QED
  BY <1>1, <1>2, <1>3, DispatchRefines, NextHandles DEF SomeHandled

\* HotStuff with the Cogsworth pacemaker keeps the promise of Agreement: however
\* views are changed, blocks are proposed and executed as it says.
THEOREM CogsworthImplementsAgreement ==
    ASSUME TotalNumber # 6
    PROVE  CogsworthSpec => ImplementsAgreement
<1>1. CogsworthInit => Promise!Init
  BY SameData DEF CogsworthInit, Init, Promise!Init
<1>2. Before /\ Before' /\ [CogsworthNext]_cogsworthVars
      => [Promise!Next]_<<proposed, executed>>
  BY NextRefines, BlockStepIsAgreement
<1> QED
  BY <1>1, <1>2, CogsworthSafetyInv, PTL
     DEF CogsworthSpec, ImplementsAgreement, Promise!Spec

-----------------------------------------------------------------------------
(* No vote and no wish is counted twice. *)

\* A wish that is counted was made by a replica that had reached its view.
WishesReached == \A r \in Replica : \A p \in wishes[r] : p[1] <= view[p[2]]

WishesOnce ==
    \A r \in Replica : \A m \in InTransit(r) :
        m.type = "WishNextView" => <<m.view, m.from>> \notin wishes[r]

\* Who is still to be asked for a vote for a certificate has not voted for it.
CertifiedOnce ==
    \A s \in Replica : \A x \in InTransit(s) : x.type = "Timeout" =>
        \A d \in Replica :
            /\ <<x.view, s>> \notin timeoutVotes[d]
            /\ \A y \in InTransit(d) :
                  ~(y.type = "TimeoutVote" /\ y.from = s /\ y.view = x.view)

TimeoutVotedOnce ==
    \A d, e \in Replica : \A x \in InTransit(d), y \in InTransit(e) :
        /\ x.type = "TimeoutVote" /\ y.type = "TimeoutVote"
        /\ x.from = y.from /\ x.view = y.view
        => x = y

TimeoutVotesOnce ==
    \A r \in Replica : \A m \in InTransit(r) :
        m.type = "TimeoutVote" => <<m.view, m.from>> \notin timeoutVotes[r]

\* The leader that says that the view is changed has noted it.
ViewChangesMarked ==
    \A d \in Replica : \A x \in InTransit(d) :
        x.type = "NewView" => x.view \in timeoutVoteFinished[GetLeaderByView(x.view)]

WishInv == WishesReached /\ WishesOnce
CertificateInv == CertifiedOnce /\ TimeoutVotedOnce /\ TimeoutVotesOnce
PaceInv == WishInv /\ CertificateInv /\ ViewChangesMarked

\* What messages say, from MessagesSent.
PaceSent ==
    \A d \in Replica : \A x \in InTransit(d) :
        /\ x \in CogsworthMsg
        /\ x.type = "WishNextView" => x.from # d /\ x.view <= view[x.from]
        /\ x.type \in ViewChangeType =>
              /\ GetLeaderByView(x.view) # d
              /\ x.view \in wishFinished[GetLeaderByView(x.view)]
        /\ x.type = "TimeoutVote" =>
              /\ x.from # d /\ GetLeaderByView(x.view) = d
              /\ x.view \in wishFinished[d]

PaceBefore ==
    /\ Before /\ Before'
    /\ CountingBefore /\ PaceInv
    /\ PaceSent /\ PaceSent'

PaceAfter == CountingInv' /\ PaceInv'

LEMMA PaceTypes ==
    ASSUME PaceBefore
    PROVE  /\ view \in [Replica -> Nat] /\ view' \in [Replica -> Nat]
           /\ votes \in [Replica -> SUBSET VoteRecord]
           /\ wishes \in [Replica -> SUBSET (Nat \X Replica)]
           /\ timeoutVotes \in [Replica -> SUBSET (Nat \X Replica)]
           /\ timeoutVoteFinished \in [Replica -> SUBSET Nat]
<1>1. CogsworthTypeOK /\ CogsworthTypeOK'
  BY DEF PaceBefore, Before
<1>2. /\ view \in [Replica -> Nat]
      /\ votes \in [Replica -> SUBSET VoteRecord]
      /\ wishes \in [Replica -> SUBSET (Nat \X Replica)]
      /\ timeoutVotes \in [Replica -> SUBSET (Nat \X Replica)]
      /\ timeoutVoteFinished \in [Replica -> SUBSET Nat]
  BY <1>1 DEF CogsworthTypeOK, View
<1>3. view' \in [Replica -> Nat]
  BY <1>1 DEF CogsworthTypeOK, View
<1> QED
  BY <1>2, <1>3

LEMMA BeforeIsSent ==
    ASSUME Before, NEW d \in Replica, NEW x \in InTransit(d)
    PROVE  x \in CogsworthMsg /\ \E s \in Replica : IsSent(s, d, x)
<1>1. x \in CogsworthMsg
  <2>1. \A s \in Replica : net[s][d] \in Seq(CogsworthMsg)
    BY BeforeParts DEF Net, NetOf
  <2>2. \A s \in Replica : \A i \in DOMAIN net[s][d] : net[s][d][i] \in CogsworthMsg
    BY <2>1
  <2> QED
    BY <2>2, BeforeParts DEF InTransit, OnTheWay
<1>2. \/ \E s \in Replica : x \in OnTheWay(d, s)
      \/ x \in msgQueue[d] \cup hand[d]
  BY DEF InTransit
<1>3. \E s \in Replica : IsSent(s, d, x)
  BY <1>2 DEF Before, CogsworthInv, MessagesSent
<1> QED
  BY <1>1, <1>3

LEMMA BeforeIsPaceSent == Before => PaceSent
<1> SUFFICES ASSUME Before, NEW d \in Replica, NEW x \in InTransit(d)
             PROVE  /\ x \in CogsworthMsg
                    /\ x.type = "WishNextView" => x.from # d /\ x.view <= view[x.from]
                    /\ x.type \in ViewChangeType =>
                          /\ GetLeaderByView(x.view) # d
                          /\ x.view \in wishFinished[GetLeaderByView(x.view)]
                    /\ x.type = "TimeoutVote" =>
                          /\ x.from # d /\ GetLeaderByView(x.view) = d
                          /\ x.view \in wishFinished[d]
  BY DEF PaceSent
<1>1. PICK s \in Replica : x \in CogsworthMsg /\ IsSent(s, d, x)
  BY BeforeIsSent
<1> QED
  BY <1>1 DEF IsSent, VoteType, LeaderType, ViewChangeType

LEMMA BeforeIsShaped == Before => Shaped
BY BeforeParts DEF Shaped, Before, CogsworthTypeOK

LEMMA BeforeAsksBlocks == Before => BlocksAsked
<1> SUFFICES ASSUME Before, NEW d \in Replica, NEW x \in InTransit(d),
                    x.type \in VoteType \cup LeaderType
             PROVE  /\ x \in VoteMsg \cup LeaderMsg
                    /\ x.block \in proposed
                    /\ x.block.view = x.view
                    /\ x.type \in VoteType <=> GetLeaderByView(x.view) = d
  BY DEF BlocksAsked
<1>1. PICK s \in Replica : x \in CogsworthMsg /\ IsSent(s, d, x)
  BY BeforeIsSent
<1> QED
  BY <1>1, MsgFields DEF IsSent, VoteType, LeaderType, ViewChangeType

\* No message of these types is new.
NoNew(types) ==
    \A d \in Replica : \A x \in InTransit(d)' : x.type \in types => x \in InTransit(d)

LEMMA WishInvKept ==
    ASSUME PaceBefore, NoNew({"WishNextView"}),
           \A s \in Replica : view[s] <= view'[s],
           \A d \in Replica : wishes'[d] \subseteq wishes[d]
    PROVE  WishInv'
<1>1. WishesReached'
  <2> SUFFICES ASSUME NEW r \in Replica, NEW p \in wishes'[r]
               PROVE  p[1] <= view'[p[2]]
    BY DEF WishesReached
  <2>1. p \in wishes[r] /\ p \in View \X Replica
    BY PaceTypes DEF View
  <2>2. /\ p[1] \in Nat /\ p[2] \in Replica /\ view[p[2]] \in Nat
        /\ view'[p[2]] \in Nat
    BY <2>1, PaceTypes
  <2>3. p[1] <= view[p[2]]
    BY <2>1 DEF PaceBefore, PaceInv, WishInv, WishesReached
  <2> QED
    BY <2>2, <2>3
<1>2. WishesOnce'
  BY DEF WishesOnce, PaceBefore, PaceInv, WishInv, NoNew
<1> QED
  BY <1>1, <1>2 DEF WishInv

LEMMA CertificateInvKept ==
    ASSUME PaceBefore, NoNew({"Timeout", "TimeoutVote"}),
           \A d \in Replica : timeoutVotes'[d] \subseteq timeoutVotes[d]
    PROVE  CertificateInv'
<1>1. CertifiedOnce'
  BY DEF CertifiedOnce, PaceBefore, PaceInv, CertificateInv, NoNew
<1>2. TimeoutVotedOnce'
  BY DEF TimeoutVotedOnce, PaceBefore, PaceInv, CertificateInv, NoNew
<1>3. TimeoutVotesOnce'
  BY DEF TimeoutVotesOnce, PaceBefore, PaceInv, CertificateInv, NoNew
<1> QED
  BY <1>1, <1>2, <1>3 DEF CertificateInv

LEMMA MarkedKept ==
    ASSUME PaceBefore, NoNew({"NewView"}),
           \A d \in Replica : timeoutVoteFinished[d] \subseteq timeoutVoteFinished'[d]
    PROVE  ViewChangesMarked'
<1> SUFFICES ASSUME NEW d \in Replica, NEW x \in InTransit(d)', x.type = "NewView"
             PROVE  x.view \in timeoutVoteFinished'[GetLeaderByView(x.view)]
  BY DEF ViewChangesMarked
<1>1. x \in InTransit(d)
  BY DEF NoNew
<1>2. x.view \in View
  BY <1>1, MsgFields DEF PaceBefore, PaceSent
<1>3. x.view \in timeoutVoteFinished[GetLeaderByView(x.view)]
  BY <1>1 DEF PaceBefore, PaceInv, ViewChangesMarked
<1> QED
  BY <1>2, <1>3, LeaderIsReplica

LEMMA PaceKept ==
    ASSUME PaceBefore,
           NoNew({"WishNextView", "Timeout", "TimeoutVote", "NewView"}),
           UNCHANGED <<view, pacemakerVars>>
    PROVE  PaceInv'
<1>1. /\ NoNew({"WishNextView"}) /\ NoNew({"Timeout", "TimeoutVote"})
      /\ NoNew({"NewView"})
  BY DEF NoNew
<1>2. \A s \in Replica : view[s] <= view'[s]
  BY PaceTypes
<1> QED
  BY <1>1, <1>2, WishInvKept, CertificateInvKept, MarkedKept
     DEF PaceInv, pacemakerVars

\* A handler of both kinds of replica, or one that sends nothing.
LEMMA CountsKeepPace ==
    ASSUME PaceBefore, Counts, UNCHANGED <<view, pacemakerVars>>
    PROVE  PaceAfter
<1>1. NoNew({"WishNextView", "Timeout", "TimeoutVote", "NewView"})
  BY DEF Counts, NoNew, VoteType, LeaderType
<1> QED
  BY <1>1, PaceKept DEF PaceAfter, Counts

LEMMA DueMsg ==
    ASSUME PaceBefore, NEW r \in Replica, NEW m \in InTransit(r), Due(r, m)
    PROVE  /\ m \in CogsworthMsg /\ m.view \in View
           /\ m.type \in {"WishNextView", "TimeoutVote"} =>
                 Leader(r) = r /\ m.view = view[r] /\ m.from # r
           /\ m.type \in ViewChangeType => m.view = view[r] /\ Leader(r) # r
<1>1. m \in CogsworthMsg /\ m.view \in View
  BY MsgFields DEF Due
<1>2. m.type \in {"WishNextView", "TimeoutVote"} =>
          GetLeaderByView(m.view) = r /\ m.from # r
  BY DEF Due, IsSent, VoteType, LeaderType, ViewChangeType
<1>3. m.type \in ViewChangeType => GetLeaderByView(m.view) # r
  BY DEF PaceBefore, PaceSent
<1> QED
  BY <1>1, <1>2, <1>3 DEF Due, Leader

\* r has left its view and wishes for the next one.
LEMMA AdvanceCounts ==
    ASSUME PaceBefore, NEW r \in Replica, NEW n, NEW q, NEW vs, vs \subseteq votes[r],
           NEW hqc, NEW new, Departs(r, n, q, new),
           WishToAdvance(r, n, q, vs, hqc)
    PROVE  PaceAfter
<1> DEFINE next == view[r] + 1
           x == WishFrom(r, next)
<1>1. /\ x.type = "WishNextView" /\ x.view = next /\ x.from = r
      /\ view[r] \in Nat /\ next \in Nat /\ next \in View /\ next > view[r]
  BY PaceTypes DEF WishFrom, View
<1>2. /\ view' = [view EXCEPT ![r] = next] /\ votes' = [votes EXCEPT ![r] = vs]
      /\ msgQueue' = [msgQueue EXCEPT ![r] = q]
      /\ UNCHANGED <<timeoutVotes, timeoutVoteFinished>>
  BY DEF WishToAdvance
<1> HIDE DEF x, next
<1>3. /\ \A d \in Replica : x \notin InTransit(d)
      /\ x \notin new /\ Shaped
  BY <1>1 DEF PaceBefore, PaceSent, Departs, CountingBefore
<1>4. /\ \A d \in Replica : votes'[d] \subseteq votes[d]
      /\ \A s \in Replica : view[s] <= view'[s]
      /\ view'[r] = next
  BY <1>1, <1>2, PaceTypes
<1>5. ASSUME Alone',
             \A d \in Replica : \A y \in InTransit(d)' :
                y \in InTransit(d) \/ y \in new \/ y = x
      PROVE  CountingInv' /\ CertificateInv' /\ ViewChangesMarked'
  <2>1. Voteless(new \cup {x})
    BY <1>1, <1>4, <1>5 DEF Voteless, Departs, VoteType, LeaderType
  <2>2. CountingInv'
    BY <2>1, VotelessKeepsCounting DEF PaceBefore
  <2>3. NoNew({"Timeout", "TimeoutVote"}) /\ NoNew({"NewView"})
    BY <1>1, <1>5 DEF NoNew, Departs
  <2> QED
    BY <1>2, <2>2, <2>3, CertificateInvKept, MarkedKept
<1>6. CASE /\ GetLeaderByView(next) # r
           /\ net' = Unicast(n, r, GetLeaderByView(next), x)
           /\ UNCHANGED wishes
  <2>1. GetLeaderByView(next) \in Replica
    BY <1>1, LeaderIsReplica
  <2>2. /\ Alone'
        /\ \A d \in Replica : \A y \in InTransit(d)' :
              y \in InTransit(d) \/ y \in new \/ (y = x /\ d = GetLeaderByView(next))
    BY <1>2, <1>3, <1>6, <2>1, DepartedUnicast
  <2>3. WishesReached'
    <3> SUFFICES ASSUME NEW s \in Replica, NEW p \in wishes[s]
                 PROVE  p[1] <= view'[p[2]]
      BY <1>6 DEF WishesReached
    <3>1. /\ p[1] \in Nat /\ p[2] \in Replica /\ view[p[2]] \in Nat
          /\ view'[p[2]] \in Nat
      BY PaceTypes
    <3> QED
      BY <1>4, <3>1 DEF PaceBefore, PaceInv, WishInv, WishesReached
  <2>4. WishesOnce'
    <3> SUFFICES ASSUME NEW s \in Replica, NEW y \in InTransit(s)',
                        y.type = "WishNextView", <<y.view, y.from>> \in wishes[s]
                 PROVE  FALSE
      BY <1>6 DEF WishesOnce
    <3>1. y.view <= view[y.from]
      BY DEF PaceBefore, PaceInv, WishInv, WishesReached
    <3>2. y # x
      BY <1>1, <3>1
    <3>3. y \in InTransit(s)
      BY <2>2, <3>2 DEF Departs
    <3> QED
      BY <3>3 DEF PaceBefore, PaceInv, WishInv, WishesOnce
  <2> QED
    BY <1>5, <2>2, <2>3, <2>4 DEF PaceAfter, PaceInv, WishInv
<1>7. CASE /\ GetLeaderByView(next) = r
           /\ wishes' = [wishes EXCEPT ![r] = @ \cup {<<next, r>>}]
           /\ net' = n
  <2>1. /\ Alone'
        /\ \A d \in Replica : \A y \in InTransit(d)' : y \in InTransit(d) \/ y \in new
    <3>1. Shaped /\ q \subseteq q
      BY <1>3
    <3>2. net' = n /\ msgQueue' = [msgQueue EXCEPT ![r] = q]
      BY <1>2, <1>7
    <3> QED
      BY <3>1, <3>2, DepartedSilent
  <2>2. \A s \in Replica : \A p \in wishes'[s] :
            p \in wishes[s] \/ (s = r /\ p = <<next, r>>)
    BY <1>7, PaceTypes
  <2>3. WishesReached'
    <3> SUFFICES ASSUME NEW s \in Replica, NEW p \in wishes'[s]
                 PROVE  p[1] <= view'[p[2]]
      BY DEF WishesReached
    <3>1. CASE p = <<next, r>>
      BY <1>1, <1>4, <3>1
    <3>2. CASE p \in wishes[s]
      <4>1. /\ p[1] \in Nat /\ p[2] \in Replica /\ view[p[2]] \in Nat
            /\ view'[p[2]] \in Nat
        BY <3>2, PaceTypes
      <4> QED
        BY <1>4, <3>2, <4>1 DEF PaceBefore, PaceInv, WishInv, WishesReached
    <3> QED
      BY <2>2, <3>1, <3>2
  <2>4. WishesOnce'
    <3> SUFFICES ASSUME NEW s \in Replica, NEW y \in InTransit(s)',
                        y.type = "WishNextView", <<y.view, y.from>> \in wishes'[s]
                 PROVE  FALSE
      BY DEF WishesOnce
    <3>1. y \in InTransit(s) /\ y.from # s
      BY <2>1 DEF Departs, PaceBefore, PaceSent
    <3>2. <<y.view, y.from>> \in wishes[s]
      BY <2>2, <3>1
    <3> QED
      BY <3>1, <3>2 DEF PaceBefore, PaceInv, WishInv, WishesOnce
  <2> QED
    BY <1>5, <2>1, <2>3, <2>4 DEF PaceAfter, PaceInv, WishInv
<1> QED
  BY <1>6, <1>7 DEF WishToAdvance, next, x

\* What a message about views that is handled or sent does to the counting.
LEMMA PaceMoves ==
    ASSUME PaceBefore, NEW r \in Replica, NEW m, NEW new, Moved(r, m, new),
           \A x \in new : x.type \notin VoteType \cup LeaderType,
           \A d \in Replica : votes'[d] \subseteq votes[d], UNCHANGED finishedVotes
    PROVE  /\ CountingInv'
           /\ \A types : (\A x \in new : x.type \notin types) => NoNew(types)
<1>1. Voteless(new)
  BY DEF Voteless, Moved
<1> QED
  BY <1>1, VotelessKeepsCounting DEF PaceBefore, NoNew, Moved

\* A leader counts a wish and, if there are enough, its own vote for the
\* certificate.
LEMMA WishCounts ==
    ASSUME PaceBefore, NEW r \in Replica, NEW m, NEW n, NEW q,
           Delivers(r, m, n, q), Due(r, m),
           m.type = "WishNextView", OnReceiveWishNextView(r, m, n, q)
    PROVE  PaceAfter
<1> DEFINE cert == [type |-> "Timeout", view |-> m.view]
           counted == wishes[r] \cup {<<m.view, m.from>>}
           left == counted \ OfView(counted, m.view)
<1>1. /\ m \in InTransit(r) /\ m \in CogsworthMsg /\ Shaped
      /\ Leader(r) = r /\ m.view = view[r]
  BY DueMsg DEF Delivers, PaceBefore, CountingBefore
<1>2. /\ msgQueue' = [msgQueue EXCEPT ![r] = q]
      /\ UNCHANGED <<view, votes, finishedVotes, timeoutVoteFinished>>
  BY DEF OnReceiveWishNextView, leaderVars, pacemakerVars
<1>3. /\ \A d \in Replica : votes'[d] \subseteq votes[d]
      /\ \A s \in Replica : view[s] <= view'[s]
  BY <1>2, PaceTypes
<1>4. CASE net' = n /\ UNCHANGED pacemakerVars
  <2>1. Counts
    BY <1>2, <1>4, RestCounts DEF PaceBefore
  <2> QED
    BY <1>2, <1>4, <2>1, CountsKeepPace
<1>5. CASE /\ net' = n /\ wishes' = [wishes EXCEPT ![r] = counted]
           /\ UNCHANGED timeoutVotes
  <2> HIDE DEF counted
  <2>1. Moved(r, m, {})
    BY <1>1, <1>2, <1>5, RestMoves
  <2>2. /\ CountingInv' /\ NoNew({"WishNextView"})
        /\ NoNew({"Timeout", "TimeoutVote"}) /\ NoNew({"NewView"})
    BY <1>2, <1>3, <2>1, PaceMoves
  <2>3. CertificateInv' /\ ViewChangesMarked'
    BY <1>2, <1>5, <2>2, CertificateInvKept, MarkedKept
  <2>4. \A s \in Replica : \A p \in wishes'[s] :
            p \in wishes[s] \/ (s = r /\ p = <<m.view, m.from>>)
    BY <1>5, PaceTypes DEF counted
  <2>5. WishesReached'
    <3>1. m.view <= view[m.from]
      BY <1>1 DEF PaceBefore, PaceSent
    <3> QED
      BY <1>2, <2>4, <3>1 DEF PaceBefore, PaceInv, WishInv, WishesReached
  <2>6. WishesOnce'
    <3> SUFFICES ASSUME NEW s \in Replica, NEW y \in InTransit(s)',
                        y.type = "WishNextView", <<y.view, y.from>> \in wishes'[s]
                 PROVE  FALSE
      BY DEF WishesOnce
    <3>1. y \in InTransit(s) /\ y \in CogsworthMsg
      BY <2>2 DEF NoNew, PaceBefore, PaceSent
    <3>2. CASE s = r /\ y.view = m.view /\ y.from = m.from
      <4>1. y = m
        BY <1>1, <3>1, <3>2, MsgFields DEF WishMsg
      <4> QED
        BY <2>1, <3>2, <4>1 DEF Moved
    <3>3. CASE <<y.view, y.from>> \in wishes[s]
      BY <3>1, <3>3 DEF PaceBefore, PaceInv, WishInv, WishesOnce
    <3> QED
      BY <2>4, <3>2, <3>3
  <2> QED
    BY <2>2, <2>3, <2>5, <2>6 DEF PaceAfter, PaceInv, WishInv
<1>6. CASE /\ m.view \notin wishFinished[r]
           /\ net' = Multicast(n, r, cert)
           /\ wishes' = [wishes EXCEPT ![r] = left]
           /\ timeoutVotes' = [timeoutVotes EXCEPT ![r] = @ \cup {<<m.view, r>>}]
  <2>1. cert.type = "Timeout" /\ cert.view = m.view
    OBVIOUS
  <2>2. \A d \in Replica : \A y \in InTransit(d) :
            y.type \in {"Timeout", "TimeoutVote"} => y.view # m.view
    BY <1>1, <1>6 DEF PaceBefore, PaceSent, ViewChangeType, Leader
  <2>3. left \subseteq wishes[r]
    BY DEF OfView
  <2> HIDE DEF cert, left, counted
  <2>4. \A d \in Replica : cert \notin InTransit(d)
    BY <2>1, <2>2
  <2>5. Moved(r, m, {cert})
    BY <1>1, <1>2, <1>6, <2>4, MulticastMoves
  <2>6. CountingInv' /\ NoNew({"WishNextView"}) /\ NoNew({"NewView"})
    BY <1>2, <1>3, <2>1, <2>5, PaceMoves DEF VoteType, LeaderType
  <2>7. WishInv' /\ ViewChangesMarked'
    <3>1. \A d \in Replica : wishes'[d] \subseteq wishes[d]
      BY <1>6, <2>3, PaceTypes
    <3> QED
      BY <1>2, <1>3, <2>6, <3>1, WishInvKept, MarkedKept
  <2>8. \A s \in Replica : \A p \in timeoutVotes'[s] :
            p \in timeoutVotes[s] \/ (s = r /\ p = <<m.view, r>>)
    BY <1>6, PaceTypes
  <2>9. \A d \in Replica : \A y \in InTransit(d)' :
            y \in InTransit(d) \/ (y = cert /\ d # r)
    <3>1. \A d \in Replica : \A y \in InTransit(d)' : y \in InTransit(d) \/ y = cert
      BY <2>5 DEF Moved
    <3>2. cert \notin InTransit(r)'
      BY <1>1, <2>1 DEF PaceBefore, PaceSent, ViewChangeType, Leader
    <3> QED
      BY <3>1, <3>2
  <2>10. \A d \in Replica : \A s \in Replica : <<m.view, s>> \notin timeoutVotes[d]
    <3> SUFFICES ASSUME NEW d \in Replica, NEW s \in Replica,
                        <<m.view, s>> \in timeoutVotes[d]
                 PROVE  FALSE
      OBVIOUS
    <3>1. m.view \in wishFinished[d]
      BY DEF PaceBefore, Before, CogsworthInv, OwnVoteFirst
    <3>2. GetLeaderByView(m.view) = d
      BY <3>1 DEF PaceBefore, Before, CogsworthInv, LeadsWhatItCounts
    <3> QED
      BY <1>1, <1>6, <3>1, <3>2 DEF Leader
  <2>11. CertifiedOnce'
    <3> SUFFICES ASSUME NEW s \in Replica, NEW x \in InTransit(s)', x.type = "Timeout",
                        NEW d \in Replica
                 PROVE  /\ <<x.view, s>> \notin timeoutVotes'[d]
                        /\ \A y \in InTransit(d)' :
                              ~(y.type = "TimeoutVote" /\ y.from = s /\ y.view = x.view)
      BY DEF CertifiedOnce
    <3>1. \A y \in InTransit(d)' : y.type = "TimeoutVote" => y \in InTransit(d)
      BY <2>1, <2>9
    <3>2. CASE x = cert /\ s # r
      BY <2>1, <2>2, <2>8, <2>10, <3>1, <3>2
    <3>3. CASE x \in InTransit(s)
      <4>1. x.view # m.view
        BY <2>2, <3>3
      <4> QED
        BY <2>8, <3>1, <3>3, <4>1 DEF PaceBefore, PaceInv, CertificateInv, CertifiedOnce
    <3> QED
      BY <2>9, <3>2, <3>3
  <2>12. NoNew({"TimeoutVote"})
    BY <2>1, <2>9 DEF NoNew
  <2>13. TimeoutVotedOnce'
    BY <2>12 DEF NoNew, TimeoutVotedOnce, PaceBefore, PaceInv, CertificateInv
  <2>14. TimeoutVotesOnce'
    BY <2>2, <2>8, <2>12
       DEF NoNew, TimeoutVotesOnce, PaceBefore, PaceInv, CertificateInv
  <2> QED
    BY <2>6, <2>7, <2>11, <2>13, <2>14 DEF PaceAfter, PaceInv, CertificateInv
<1>7. /\ OnReceiveWishNextView(r, m, n, q)
      /\ counted = wishes[r] \cup {<<m.view, m.from>>}
      /\ left = counted \ OfView(counted, m.view)
  OBVIOUS
<1> HIDE DEF counted, left
<1> QED
  BY <1>4, <1>5, <1>6, <1>7 DEF OnReceiveWishNextView

\* A replica votes for a certificate.
LEMMA TimeoutMsgCounts ==
    ASSUME PaceBefore, NEW r \in Replica, NEW m, NEW n, NEW q,
           Delivers(r, m, n, q), Due(r, m),
           m.type = "Timeout", OnReceiveTimeout(r, m, n, q)
    PROVE  PaceAfter
<1> DEFINE own == TimeoutVoteFrom(r, m.view)
<1>1. /\ m \in InTransit(r) /\ m \in CogsworthMsg /\ Shaped
      /\ m.view = view[r] /\ Leader(r) \in Replica
  BY DueMsg, LeaderIsReplica
     DEF Delivers, PaceBefore, CountingBefore, ViewChangeType, Leader
<1>2. /\ msgQueue' = [msgQueue EXCEPT ![r] = q]
      /\ net' = Unicast(n, r, Leader(r), own)
      /\ UNCHANGED <<view, votes, finishedVotes, pacemakerVars>>
  BY DEF OnReceiveTimeout, leaderVars, viewVars
<1>3. own.type = "TimeoutVote" /\ own.from = r /\ own.view = m.view
  BY DEF TimeoutVoteFrom
<1> HIDE DEF own
<1>4. \A d \in Replica :
          /\ <<m.view, r>> \notin timeoutVotes[d]
          /\ \A y \in InTransit(d) :
                ~(y.type = "TimeoutVote" /\ y.from = r /\ y.view = m.view)
  BY <1>1 DEF PaceBefore, PaceInv, CertificateInv, CertifiedOnce
<1>5. Moved(r, m, {own})
  <2>1. own \notin InTransit(Leader(r))
    BY <1>1, <1>3, <1>4
  <2> QED
    BY <1>1, <1>2, <2>1, UnicastMoves
<1>6. own \notin InTransit(Leader(r))
  BY <1>1, <1>3, <1>4
<1>7. /\ CountingInv' /\ NoNew({"WishNextView"}) /\ NoNew({"NewView"})
      /\ NoNew({"Timeout"})
  <2>1. \A d \in Replica : votes'[d] \subseteq votes[d]
    BY <1>2
  <2> QED
    BY <1>2, <1>3, <1>5, <2>1, PaceMoves DEF VoteType, LeaderType
<1>8. WishInv' /\ ViewChangesMarked'
  <2>1. \A s \in Replica : view[s] <= view'[s]
    BY <1>2, PaceTypes
  <2> QED
    BY <1>2, <1>7, <2>1, WishInvKept, MarkedKept DEF pacemakerVars
<1>9. \A d \in Replica : \A y \in InTransit(d)' :
          /\ y = own \/ y \in InTransit(d)
          /\ d = r => y # m
  <2>1. m \notin InTransit(r)'
    <3>1. m # own
      BY <1>3
    <3> QED
      BY <1>5, <3>1 DEF Moved
  <2> QED
    BY <1>5, <2>1 DEF Moved
<1>10. CertifiedOnce'
  <2> SUFFICES ASSUME NEW s \in Replica, NEW x \in InTransit(s)', x.type = "Timeout",
                      NEW d \in Replica
               PROVE  /\ <<x.view, s>> \notin timeoutVotes[d]
                      /\ \A y \in InTransit(d)' :
                            ~(y.type = "TimeoutVote" /\ y.from = s /\ y.view = x.view)
    BY <1>2 DEF CertifiedOnce, pacemakerVars
  <2>1. x \in InTransit(s)
    BY <1>3, <1>9
  <2>2. s = r => x.view # m.view
    <3>1. ASSUME s = r, x.view = m.view PROVE x = m
      <4>1. x \in CogsworthMsg
        BY <2>1 DEF PaceBefore, PaceSent
      <4>2. x \in TimeoutMsg /\ m \in TimeoutMsg
        BY <1>1, <4>1 DEF CogsworthMsg, VoteMsg, LeaderMsg, WishMsg, TimeoutMsg,
                          TimeoutVoteMsg, ViewChangedMsg, VoteType, LeaderType
      <4> QED
        BY <3>1, <4>2 DEF TimeoutMsg
    <3> QED
      BY <1>9, <3>1
  <2> QED
    BY <1>3, <1>9, <2>1, <2>2 DEF PaceBefore, PaceInv, CertificateInv, CertifiedOnce
<1>11. \A d \in Replica : \A y \in InTransit(d)' : y = own => d = Leader(r)
  BY <1>1, <1>3 DEF PaceBefore, PaceSent, Leader
<1>12. TimeoutVotedOnce'
  BY <1>3, <1>4, <1>9
     DEF TimeoutVotedOnce, PaceBefore, PaceInv, CertificateInv
<1>13. TimeoutVotesOnce'
  BY <1>2, <1>3, <1>4, <1>9
     DEF TimeoutVotesOnce, PaceBefore, PaceInv, CertificateInv, pacemakerVars
<1> QED
  BY <1>7, <1>8, <1>10, <1>12, <1>13 DEF PaceAfter, PaceInv, CertificateInv

\* processNewView, which the leader runs on a quorum of votes for its view.
LEMMA ViewChangeCounts ==
    ASSUME PaceBefore, NEW r \in Replica, NEW m, NEW n, NEW q,
           Delivers(r, m, n, q), NEW tmp, ProcessNewView(r, view[r], tmp, n),
           Leader(r) = r => view[r] \notin timeoutVoteFinished[r],
           msgQueue' = [msgQueue EXCEPT ![r] = q],
           UNCHANGED <<view, finishedVotes, wishes>>,
           \A d \in Replica : timeoutVotes'[d] \subseteq timeoutVotes[d]
    PROVE  PaceAfter
<1> DEFINE x == [type |-> "NewView", view |-> view[r]]
<1>1. Shaped
  BY DEF PaceBefore, CountingBefore
<1>2. x.type = "NewView" /\ x.view = view[r]
  OBVIOUS
<1>3. \/ net' = n /\ UNCHANGED <<votes, timeoutVoteFinished>>
      \/ /\ net' = IF Leader(r) = r THEN Multicast(n, r, x) ELSE n
         /\ votes' = [votes EXCEPT ![r] = {}]
         /\ timeoutVoteFinished'
                = [timeoutVoteFinished EXCEPT ![r] = @ \cup {view[r]}]
  BY DEF ProcessNewView
<1> HIDE DEF x
<1>4. /\ \A d \in Replica : votes'[d] \subseteq votes[d]
      /\ \A d \in Replica : timeoutVoteFinished[d] \subseteq timeoutVoteFinished'[d]
      /\ \A s \in Replica : view[s] <= view'[s]
  BY <1>3, PaceTypes
<1>5. CASE net' = n
  <2>1. Moved(r, m, {})
    BY <1>1, <1>5, RestMoves
  <2>2. /\ CountingInv' /\ NoNew({"WishNextView"})
        /\ NoNew({"Timeout", "TimeoutVote"}) /\ NoNew({"NewView"})
    BY <1>4, <2>1, PaceMoves
  <2> QED
    BY <1>4, <2>2, WishInvKept, CertificateInvKept, MarkedKept DEF PaceAfter, PaceInv
<1>6. CASE /\ Leader(r) = r /\ net' = Multicast(n, r, x)
           /\ timeoutVoteFinished'
                = [timeoutVoteFinished EXCEPT ![r] = @ \cup {view[r]}]
  <2>1. \A d \in Replica : x \notin InTransit(d)
    BY <1>2, <1>6 DEF PaceBefore, PaceInv, ViewChangesMarked, Leader
  <2>2. Moved(r, m, {x})
    BY <1>1, <1>6, <2>1, MulticastMoves
  <2>3. /\ CountingInv' /\ NoNew({"WishNextView"})
        /\ NoNew({"Timeout", "TimeoutVote"})
    BY <1>2, <1>4, <2>2, PaceMoves DEF VoteType, LeaderType
  <2>4. ViewChangesMarked'
    <3> SUFFICES ASSUME NEW d \in Replica, NEW y \in InTransit(d)', y.type = "NewView"
                 PROVE  y.view \in timeoutVoteFinished'[GetLeaderByView(y.view)]
      BY DEF ViewChangesMarked
    <3>1. CASE y = x
      BY <1>2, <1>6, <3>1, PaceTypes DEF Leader
    <3>2. CASE y \in InTransit(d)
      <4>1. y.view \in View
        BY <3>2, MsgFields DEF PaceBefore, PaceSent
      <4>2. y.view \in timeoutVoteFinished[GetLeaderByView(y.view)]
        BY <3>2 DEF PaceBefore, PaceInv, ViewChangesMarked
      <4> QED
        BY <1>4, <4>1, <4>2, LeaderIsReplica
    <3> QED
      BY <2>2, <3>1, <3>2 DEF Moved
  <2> QED
    BY <1>4, <2>3, <2>4, WishInvKept, CertificateInvKept DEF PaceAfter, PaceInv
<1> QED
  BY <1>3, <1>5, <1>6

LEMMA NewViewCounts ==
    ASSUME PaceBefore, NEW r \in Replica, NEW m, NEW n, NEW q,
           Delivers(r, m, n, q), Due(r, m),
           m.type = "NewView", OnReceiveNewView(r, m, n, q)
    PROVE  PaceAfter
<1>1. m.view = view[r] /\ Leader(r) # r
  BY DueMsg DEF Delivers, ViewChangeType
<1>2. /\ ProcessNewView(r, view[r], highQCTmp[r], n)
      /\ msgQueue' = [msgQueue EXCEPT ![r] = q]
      /\ UNCHANGED <<view, finishedVotes, wishes, timeoutVotes>>
  BY <1>1 DEF OnReceiveNewView
<1> QED
  BY <1>1, <1>2, ViewChangeCounts

LEMMA TimeoutVoteCounts ==
    ASSUME PaceBefore, NEW r \in Replica, NEW m, NEW n, NEW q,
           Delivers(r, m, n, q), Due(r, m),
           m.type = "TimeoutVote", OnReceiveTimeoutVote(r, m, n, q)
    PROVE  PaceAfter
<1> DEFINE counted == timeoutVotes[r] \cup {<<m.view, m.from>>}
           left == counted \ OfView(counted, m.view)
           tmp == highQCTmp[r] \cup {m}
<1>1. /\ m \in InTransit(r) /\ m.view = view[r] /\ Shaped
  BY DueMsg DEF Delivers, PaceBefore, CountingBefore
<1>2. /\ msgQueue' = [msgQueue EXCEPT ![r] = q]
      /\ UNCHANGED <<view, finishedVotes, wishes, wishFinished>>
  BY DEF OnReceiveTimeoutVote
<1>3. CASE /\ net' = n
           /\ UNCHANGED <<votes, timeoutVotes, timeoutVoteFinished>>
  <2>1. Counts
    BY <1>2, <1>3, RestCounts DEF PaceBefore
  <2> QED
    BY <1>2, <1>3, <2>1, CountsKeepPace DEF pacemakerVars
<1>4. CASE /\ net' = n /\ UNCHANGED <<votes, timeoutVoteFinished>>
           /\ timeoutVotes' = [timeoutVotes EXCEPT ![r] = counted]
  <2> HIDE DEF counted
  <2>1. Moved(r, m, {})
    BY <1>1, <1>2, <1>4, RestMoves
  <2>2. /\ CountingInv' /\ NoNew({"WishNextView"}) /\ NoNew({"NewView"})
        /\ WishInv' /\ ViewChangesMarked'
    <3>1. /\ \A d \in Replica : votes'[d] \subseteq votes[d]
          /\ \A s \in Replica : view[s] <= view'[s]
      BY <1>2, <1>4, PaceTypes
    <3>2. CountingInv' /\ NoNew({"WishNextView"}) /\ NoNew({"NewView"})
      BY <1>2, <2>1, <3>1, PaceMoves
    <3> QED
      BY <1>2, <1>4, <3>1, <3>2, WishInvKept, MarkedKept
  <2>3. \A s \in Replica : \A p \in timeoutVotes'[s] :
            p \in timeoutVotes[s] \/ (s = r /\ p = <<m.view, m.from>>)
    BY <1>4, PaceTypes DEF counted
  <2>4. \A d \in Replica : \A y \in InTransit(d)' :
            y \in InTransit(d) /\ (d = r => y # m)
    BY <2>1 DEF Moved
  <2>5. CertifiedOnce'
    BY <1>1, <2>3, <2>4 DEF CertifiedOnce, PaceBefore, PaceInv, CertificateInv
  <2>6. TimeoutVotedOnce'
    BY <2>4 DEF TimeoutVotedOnce, PaceBefore, PaceInv, CertificateInv
  <2>7. TimeoutVotesOnce'
    <3> SUFFICES ASSUME NEW s \in Replica, NEW y \in InTransit(s)',
                        y.type = "TimeoutVote", <<y.view, y.from>> \in timeoutVotes'[s]
                 PROVE  FALSE
      BY DEF TimeoutVotesOnce
    <3>1. CASE s = r /\ y.view = m.view /\ y.from = m.from
      BY <1>1, <2>4, <3>1 DEF TimeoutVotedOnce, PaceBefore, PaceInv, CertificateInv
    <3>2. CASE <<y.view, y.from>> \in timeoutVotes[s]
      BY <2>4, <3>2 DEF TimeoutVotesOnce, PaceBefore, PaceInv, CertificateInv
    <3> QED
      BY <2>3, <3>1, <3>2
  <2> QED
    BY <2>2, <2>5, <2>6, <2>7 DEF PaceAfter, PaceInv, CertificateInv
<1>5. CASE /\ m.view \notin timeoutVoteFinished[r]
           /\ ProcessNewView(r, m.view, tmp, n)
           /\ timeoutVotes' = [timeoutVotes EXCEPT ![r] = left]
  <2>1. left \subseteq timeoutVotes[r]
    BY DEF OfView
  <2> HIDE DEF left, tmp, counted
  <2>2. \A d \in Replica : timeoutVotes'[d] \subseteq timeoutVotes[d]
    BY <1>5, <2>1, PaceTypes
  <2> QED
    BY <1>1, <1>2, <1>5, <2>2, ViewChangeCounts
<1>6. /\ OnReceiveTimeoutVote(r, m, n, q)
      /\ counted = timeoutVotes[r] \cup {<<m.view, m.from>>}
      /\ left = counted \ OfView(counted, m.view)
      /\ tmp = highQCTmp[r] \cup {m}
  OBVIOUS
<1> HIDE DEF counted, left, tmp
<1> QED
  BY <1>3, <1>4, <1>5, <1>6 DEF OnReceiveTimeoutVote

LEMMA CommitVoteCounts ==
    ASSUME PaceBefore, NEW r \in Replica, NEW m, NEW n, NEW q, Delivers(r, m, n, q),
           m.type = "CommitVote", OnReceiveCommitVote(r, m, n, q)
    PROVE  PaceAfter
<1> DEFINE x == PhaseMsg("Decide", view[r], m.block, CreateQuorumCert(m.block))
           p == Multicast(n, r, x)
           vs == LeftVotes(r, m)
           hqc == CreateQuorumCert(m.block)
<1>1. CASE Ignore(r, n, q) /\ UNCHANGED pacemakerVars
  BY <1>1, RestCounts, CountsKeepPace DEF Ignore, leaderVars, viewVars, PaceBefore
<1>2. CASE StoreVote(r, m, n, q) /\ UNCHANGED pacemakerVars
  <2>1. Counts
    BY <1>2, StoreVoteCounts DEF PaceBefore, VoteType
  <2> QED
    BY <1>2, <2>1, CountsKeepPace DEF StoreVote, viewVars
<1>3. CASE IsFresh(r, m) /\ FinishVotes(r, m) /\ WishToAdvance(r, p, q, vs, hqc)
  <2>1. Departs(r, p, q, {x})
    BY <1>3, DecideDeparts DEF PaceBefore
  <2>2. vs \subseteq votes[r] /\ WishToAdvance(r, p, q, vs, hqc)
    BY <1>3, LeftVotesOld
  <2> HIDE DEF x, p, vs, hqc
  <2> QED
    BY <2>1, <2>2, AdvanceCounts
<1> QED
  BY <1>1, <1>2, <1>3 DEF OnReceiveCommitVote

LEMMA DecideMsgCounts ==
    ASSUME PaceBefore, NEW r \in Replica, NEW m, NEW n, NEW q, Delivers(r, m, n, q),
           m.type = "Decide", OnReceiveDecide(r, m, n, q)
    PROVE  PaceAfter
<1>1. CASE Ignore(r, n, q) /\ UNCHANGED pacemakerVars
  BY <1>1, RestCounts, CountsKeepPace DEF Ignore, leaderVars, viewVars, PaceBefore
<1>2. CASE WishToAdvance(r, n, q, votes[r], m.qc) /\ UNCHANGED finishedVotes
  BY <1>2, LearnDeparts, AdvanceCounts
<1> QED
  BY <1>1, <1>2 DEF OnReceiveDecide

LEMMA TimeoutCounts ==
    ASSUME PaceBefore, NEW r \in Replica, Timeout(r)
    PROVE  PaceAfter
<1>1. /\ UNCHANGED <<finishedVotes, hand>>
      /\ WishToAdvance(r, net, msgQueue[r], votes[r], highQC[r])
  BY DEF Timeout, handVars
<1> QED
  BY <1>1, TimeoutDeparts, AdvanceCounts DEF PaceBefore

LEMMA PhaseMsgCounts ==
    ASSUME PaceBefore, NEW r \in Replica, NEW m, NEW n, NEW q, Delivers(r, m, n, q),
           OnReceivePhaseMsg(r, m, n, q), UNCHANGED pacemakerVars
    PROVE  PaceAfter
<1>1. Counts
  BY PhaseCounts DEF OnReceivePhaseMsg, PaceBefore
<1>2. UNCHANGED view
  BY DEF OnReceivePhaseMsg, OnReceivePrepare, OnReceivePrepareVote,
         OnReceivePreCommit, OnReceivePreCommitVote, OnReceiveCommit,
         Vote, StoreVote, StartPhase, Ignore, Panic, viewVars
<1> QED
  BY <1>1, <1>2, CountsKeepPace

LEMMA DispatchCounts ==
    ASSUME PaceBefore, NEW r \in Replica, NEW m, NEW n, NEW q,
           Delivers(r, m, n, q), Due(r, m), Dispatch(r, m, n, q)
    PROVE  PaceAfter
BY WishCounts, TimeoutMsgCounts, TimeoutVoteCounts, NewViewCounts, PhaseMsgCounts,
   CommitVoteCounts, DecideMsgCounts DEF Dispatch

\* Every step handles a message that is due, times out, proposes, or is calm.
LEMMA NextDelivers ==
    ASSUME PaceBefore, [CogsworthNext]_cogsworthVars
    PROVE  \/ Calm /\ UNCHANGED pacemakerVars
           \/ \E r \in Replica : \E m, n, q :
                 Delivers(r, m, n, q) /\ Due(r, m) /\ Dispatch(r, m, n, q)
           \/ \E r \in Replica : Timeout(r) \/ OnBeat(r)
<1>1. Shaped /\ Alone
  BY DEF PaceBefore, CountingBefore, CountingInv
<1>2. ASSUME NEW r \in Replica, NEW m \in InTransit(r),
             m.view = view[r] \/ m \in hand[r]
      PROVE  Due(r, m)
  <2>1. m \in CogsworthMsg /\ \E s \in Replica : IsSent(s, r, m)
    BY BeforeIsSent DEF PaceBefore
  <2>2. m \in hand[r] =>
           (GetLeaderByView(m.view) = r \/ m.type \in ViewChangeType => m.view = view[r])
    BY DEF PaceBefore, Before, CogsworthInv, HeldIsCurrent
  <2> QED
    BY <1>2, <2>1, <2>2 DEF Due
<1>3. ASSUME NEW r \in Replica, NEW s \in Replica, ReceiveCurrent(r, s)
      PROVE  \E m, n, q : Delivers(r, m, n, q) /\ Due(r, m) /\ Dispatch(r, m, n, q)
  <2> DEFINE m == Head(net[s][r])
             n == Taken(r, s)
             q == msgQueue[r]
  <2>1. Delivers(r, m, n, q) /\ m.view = view[r] /\ Dispatch(r, m, n, q)
    BY <1>1, <1>3, CurrentDelivers
       DEF ReceiveCurrent, CanReceive, handVars, requestVars
  <2> HIDE DEF m, n, q
  <2> QED
    BY <1>2, <2>1 DEF Delivers
<1>4. ASSUME NEW r \in Replica, Chase(r)
      PROVE  \E m, n, q : Delivers(r, m, n, q) /\ Due(r, m) /\ Dispatch(r, m, n, q)
  <2>1. PICK m \in Last(msgQueue[r], view[r]) :
          Dispatch(r, m, net, Pop(msgQueue[r], view[r], m))
    BY <1>4 DEF Chase
  <2>2. Delivers(r, m, net, Pop(msgQueue[r], view[r], m))
    BY <1>1, <1>4, QueuedDelivers DEF Chase, requestVars
  <2>3. m.view = view[r] /\ m \in InTransit(r)
    BY <2>2 DEF Last, QueuedFor, Delivers
  <2> QED
    BY <1>2, <2>1, <2>2, <2>3
<1>5. ASSUME NEW r \in Replica, HandleHeld(r)
      PROVE  \E m, n, q : Delivers(r, m, n, q) /\ Due(r, m) /\ Dispatch(r, m, n, q)
  <2>1. PICK m \in hand[r] : Dispatch(r, m, net, msgQueue[r])
    BY <1>5 DEF HandleHeld
  <2>2. Delivers(r, m, net, msgQueue[r])
    BY <1>1, <1>5, HeldDelivers DEF HandleHeld, requestVars
  <2> QED
    BY <1>2, <2>1, <2>2 DEF Delivers
<1>6. CASE UNCHANGED cogsworthVars
  BY <1>1, <1>6, StutterIsCalm DEF cogsworthVars
<1> QED
  BY <1>1, <1>3, <1>4, <1>5, <1>6, AsideIsCalm, LossIsCalm
     DEF CogsworthNext, HandleMsg, Receive, ReceiveAside

LEMMA NextCounts ==
    ASSUME PaceBefore, [CogsworthNext]_cogsworthVars
    PROVE  PaceAfter
<1>1. CASE Calm /\ UNCHANGED pacemakerVars
  BY <1>1, CalmCounts, CountsKeepPace DEF Calm, PaceBefore
<1>2. ASSUME NEW r \in Replica, OnBeat(r) PROVE PaceAfter
  <2>1. Counts
    BY <1>2, ProposeCounts DEF OnBeat, PaceBefore
  <2> QED
    BY <1>2, <2>1, CountsKeepPace DEF OnBeat, HandleReq, SendPrepare
<1> QED
  BY <1>1, <1>2, NextDelivers, DispatchCounts, TimeoutCounts

LEMMA InitPace == CogsworthInit => CountingInv /\ PaceInv
<1> SUFFICES ASSUME CogsworthInit PROVE CountingInv /\ PaceInv
  OBVIOUS
<1>1. CountingInv
  BY InitCounting DEF CogsworthInit
<1>2. \A d \in Replica : InTransit(d) = {} /\ wishes[d] = {}
  BY DEF CogsworthInit, Init, InTransit, OnTheWay
<1> QED
  BY <1>1, <1>2
     DEF PaceInv, WishInv, CertificateInv, WishesReached, WishesOnce, CertifiedOnce,
         TimeoutVotedOnce, TimeoutVotesOnce, ViewChangesMarked

LEMMA PaceCorrect ==
    ASSUME TotalNumber # 6
    PROVE  CogsworthSpec => [](CountingInv /\ PaceInv)
<1>1. Before => BlocksAsked /\ PaceSent
  BY BeforeAsksBlocks, BeforeIsPaceSent
<1>2. Before /\ Before' /\ CountingInv /\ PaceInv /\ [CogsworthNext]_cogsworthVars
      => PaceAfter
  <2>1. Before' => BlocksAsked' /\ PaceSent'
    BY <1>1, PTL
  <2> QED
    BY <1>1, <2>1, NextCounts, BeforeIsSafe, BeforeIsShaped
       DEF PaceBefore, CountingBefore
<1>3. PaceAfter => CountingInv' /\ PaceInv'
  BY DEF PaceAfter
<1> QED
  BY <1>2, <1>3, InitPace, CogsworthSafetyInv, PTL DEF CogsworthSpec

\* No vote, wish or vote for a timeout certificate is counted twice: each is sent
\* once, the wish when its view is entered and the vote when the only certificate
\* of its view is handled.  With six replicas two blocks may be decided in
\* conflict, and nothing is claimed.
THEOREM WishesCountedOnceCorrect ==
    ASSUME TotalNumber # 6
    PROVE  CogsworthSpec => []WishesCountedOnce
<1>1. CountingInv /\ PaceInv => WishesCountedOnce
  BY DEF CountingInv, VotesCountedOnce, PaceInv, WishInv, CertificateInv,
         WishesOnce, TimeoutVotesOnce, WishesCountedOnce
<1> QED
  BY <1>1, PaceCorrect, PTL

-----------------------------------------------------------------------------
(* Lists of votes end once. *)

LEMMA AdvanceKeepsLists ==
    ASSUME PaceBefore, ListsInv, NEW r \in Replica, NEW n, NEW q, NEW hqc,
           WishToAdvance(r, n, q, votes[r], hqc),
           UNCHANGED <<proposed, finishedVotes>>
    PROVE  ListsInv'
<1>1. \A d \in Replica : votes'[d] \subseteq votes[d]
  BY PaceTypes DEF WishToAdvance
<1> QED
  BY <1>1, FewerVotesKeepLists

LEMMA ViewChangeKeepsLists ==
    ASSUME PaceBefore, ListsInv, NEW r \in Replica, NEW v, NEW tmp, NEW n,
           ProcessNewView(r, v, tmp, n), UNCHANGED <<proposed, finishedVotes>>
    PROVE  ListsInv'
<1>1. \A d \in Replica : votes'[d] \subseteq votes[d]
  BY PaceTypes DEF ProcessNewView
<1> QED
  BY <1>1, FewerVotesKeepLists

LEMMA DispatchKeepsLists ==
    ASSUME PaceBefore, ListsInv, NEW r \in Replica, NEW m \in InTransit(r),
           NEW n, NEW q, Dispatch(r, m, n, q), UNCHANGED proposed
    PROVE  ListsInv'
<1>1. CASE UNCHANGED <<votes, finishedVotes>>
  BY <1>1, FewerVotesKeepLists
<1>2. CASE OnReceiveWishNextView(r, m, n, q) \/ OnReceiveTimeout(r, m, n, q)
  BY <1>1, <1>2 DEF OnReceiveWishNextView, OnReceiveTimeout, leaderVars
<1>3. CASE OnReceiveTimeoutVote(r, m, n, q)
  <2>1. UNCHANGED finishedVotes
    BY <1>3 DEF OnReceiveTimeoutVote
  <2>2. \/ UNCHANGED votes
        \/ \E tmp : ProcessNewView(r, m.view, tmp, n)
    BY <1>3 DEF OnReceiveTimeoutVote
  <2> QED
    BY <1>1, <2>1, <2>2, ViewChangeKeepsLists
<1>4. CASE OnReceiveNewView(r, m, n, q)
  BY <1>4, ViewChangeKeepsLists DEF OnReceiveNewView
<1>5. CASE OnReceivePhaseMsg(r, m, n, q)
  BY <1>5, PhaseKeepsLists DEF OnReceivePhaseMsg, PaceBefore
<1>6. CASE m.type = "CommitVote" /\ OnReceiveCommitVote(r, m, n, q)
  <2>1. CASE /\ IsFresh(r, m) /\ FinishVotes(r, m)
             /\ \E p, hqc : WishToAdvance(r, p, q, LeftVotes(r, m), hqc)
    <3>1. votes' = [votes EXCEPT ![r] = LeftVotes(r, m)]
      BY <2>1 DEF WishToAdvance
    <3> QED
      BY <1>6, <2>1, <3>1, DecideKeepsLists DEF PaceBefore, VoteType
  <2>2. CASE IsFresh(r, m) /\ StoreVote(r, m, n, q)
    BY <2>2, StoreVoteKeepsLists DEF PaceBefore
  <2> QED
    BY <1>1, <1>6, <2>1, <2>2 DEF OnReceiveCommitVote, Ignore, leaderVars
<1>7. CASE OnReceiveDecide(r, m, n, q)
  BY <1>1, <1>7, AdvanceKeepsLists DEF OnReceiveDecide, Ignore, leaderVars
<1> QED
  BY <1>2, <1>3, <1>4, <1>5, <1>6, <1>7 DEF Dispatch

LEMMA NextKeepsLists ==
    ASSUME PaceBefore, ListsInv, [CogsworthNext]_cogsworthVars
    PROVE  ListsInv'
<1>1. CASE Calm
  BY <1>1, FewerVotesKeepLists DEF Calm
<1>2. ASSUME NEW r \in Replica, NEW m, NEW n, NEW q, Delivers(r, m, n, q),
             Dispatch(r, m, n, q)
      PROVE  ListsInv'
  BY <1>2, DispatchKeepsLists DEF Delivers
<1>3. ASSUME NEW r \in Replica, Timeout(r) PROVE ListsInv'
  BY <1>3, AdvanceKeepsLists DEF Timeout, requestVars
<1>4. ASSUME NEW r \in Replica, OnBeat(r) PROVE ListsInv'
  BY <1>4, ProposeKeepsLists DEF OnBeat, PaceBefore
<1> QED
  BY <1>1, <1>2, <1>3, <1>4, NextDelivers

\* With the pacemaker, too, the votes of a phase that has ended with a certificate
\* are not collected again, though more of them come.
THEOREM CogsworthNoSecondList ==
    ASSUME TotalNumber # 6
    PROVE  CogsworthSpec => []NoSecondList
<1>1. Before => BlocksAsked /\ PaceSent
  BY BeforeAsksBlocks, BeforeIsPaceSent
<1>2. /\ Before /\ Before' /\ CountingInv /\ PaceInv /\ ListsInv
      /\ [CogsworthNext]_cogsworthVars
      => ListsInv'
  <2>1. Before' => BlocksAsked' /\ PaceSent'
    BY <1>1, PTL
  <2> QED
    BY <1>1, <2>1, NextKeepsLists, BeforeIsSafe, BeforeIsShaped
       DEF PaceBefore, CountingBefore
<1>3. ListsInv => NoSecondList
  BY DEF ListsInv
<1>4. CogsworthInit => ListsInv
  BY InitLists DEF CogsworthInit
<1> QED
  BY <1>2, <1>3, <1>4, PaceCorrect, CogsworthSafetyInv, PTL DEF CogsworthSpec
=============================================================================
