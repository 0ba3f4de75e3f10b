------------------------ MODULE BasicHotStuff_proofs ------------------------
(***************************************************************************)
(* Theorems about BasicHotStuff, for every number of replicas, of faulty   *)
(* ones, of commands, and for all bounds.                                  *)
(***************************************************************************)
EXTENDS BasicHotStuff, Operators_proofs

Net == [Replica -> [Replica -> Seq(Msg)]]

LEMMA UnicastType ==
    ASSUME NEW n \in Net, NEW s \in Replica, NEW d \in Replica, NEW m \in Msg
    PROVE  Unicast(n, s, d, m) \in Net
BY UnicastTypeOf DEF Net, NetOf

LEMMA MulticastType ==
    ASSUME NEW n \in Net, NEW s \in Replica, NEW m \in Msg
    PROVE  Multicast(n, s, m) \in Net
BY MulticastTypeOf DEF Net, NetOf

LEMMA InitType == Init => TypeOK
BY LeaderIsReplica, QCType, GenesisType DEF Init, TypeOK, View

LEMMA MsgFields ==
    ASSUME NEW m \in Msg
    PROVE  /\ m.view \in View
           /\ m.type \in VoteType \cup LeaderType \cup {"NewView"}
           /\ m.type \in VoteType => /\ m.from \in Replica
                                    /\ m.block \in Block
                                    /\ m.signed \in BOOLEAN
           /\ m.type \in LeaderType => m.block \in Block /\ m.qc \in QuorumCert
           /\ m.type = "NewView" => m \in NewViewMsg /\ m.qc \in QuorumCert
BY DEF Msg, VoteMsg, LeaderMsg, NewViewMsg, VoteType, LeaderType

-----------------------------------------------------------------------------
(* Type correctness. *)

\* The variables that the handlers change.
HandlerTypeOK ==
    /\ view \in [Replica -> View]
    /\ prepareQC \in [Replica -> QuorumCert]
    /\ preCommitQC \in [Replica -> QuorumCert]
    /\ highQC \in [Replica -> QuorumCert]
    /\ votes \in [Replica -> SUBSET VoteRecord]
    /\ finishedVotes \in [Replica -> SUBSET (VoteType \X Hash)]
    /\ highQCTmp \in [Replica -> SUBSET NewViewMsg]
    /\ viewChanged \in [Replica -> BOOLEAN]
    /\ blockChain \in [Replica -> SUBSET Block]
    /\ executed \in [Replica -> SUBSET Block]
    /\ timer \in [Replica -> BOOLEAN]
    /\ holding \in [Replica -> BOOLEAN]
    /\ status \in [Replica -> {"up", "panicked", "blocked"}]
    /\ msgQueue \in [Replica -> SUBSET Msg]
    /\ net \in Net

OtherTypeOK ==
    /\ clock \in [Replica -> Nat]
    /\ hand \in [Replica -> SUBSET Msg]
    /\ chasing \in [Replica -> BOOLEAN]
    /\ proposed \in SUBSET Block
    /\ lost \in Nat

\* These are the types of both protocols, with this one's messages and reports.
LEMMA TypesOfBoth ==
    /\ Net = NetOf(Msg)
    /\ HandlerTypeOK <=> ImplTypeOK(Msg, NewViewMsg)
    /\ OtherTypeOK <=> RestTypeOK(Msg)
    /\ HandlerTypeOK' <=> ImplTypeOK(Msg, NewViewMsg)'
    /\ OtherTypeOK' <=> RestTypeOK(Msg)'
BY DEF HandlerTypeOK, OtherTypeOK, ImplTypeOK, RestTypeOK, Net, NetOf

LEMMA ProcessNewViewType ==
    ASSUME HandlerTypeOK, NEW r \in Replica, NEW newViews \in SUBSET NewViewMsg,
           ProcessNewView(r, newViews)
    PROVE  /\ highQC' \in [Replica -> QuorumCert]
           /\ highQCTmp' \in [Replica -> SUBSET NewViewMsg]
           /\ votes' \in [Replica -> SUBSET VoteRecord]
           /\ viewChanged' \in [Replica -> BOOLEAN]
           /\ holding' \in [Replica -> BOOLEAN]
           /\ status' \in [Replica -> {"up", "panicked", "blocked"}]
<1>1. PICK qc \in HighestQCs(prepareQC[r], {m.qc : m \in newViews}) :
        highQC' = [highQC EXCEPT ![r] = qc]
  BY DEF ProcessNewView
<1>2. {m.qc : m \in newViews} \subseteq QuorumCert
  BY DEF NewViewMsg
<1>3. qc \in QuorumCert
  BY <1>1, <1>2 DEF HighestQCs, HandlerTypeOK
<1> QED
  BY <1>1, <1>3 DEF ProcessNewView, HandlerTypeOK

LEMMA AwaitNewViewsType ==
    ASSUME HandlerTypeOK, NEW r \in Replica, NEW newViews \in SUBSET NewViewMsg,
           NEW vs \in SUBSET VoteRecord, NEW hqc \in QuorumCert,
           AwaitNewViews(r, newViews, vs, hqc)
    PROVE  /\ highQC' \in [Replica -> QuorumCert]
           /\ highQCTmp' \in [Replica -> SUBSET NewViewMsg]
           /\ votes' \in [Replica -> SUBSET VoteRecord]
           /\ viewChanged' \in [Replica -> BOOLEAN]
           /\ holding' \in [Replica -> BOOLEAN]
           /\ status' \in [Replica -> {"up", "panicked", "blocked"}]
BY DEF AwaitNewViews, HandlerTypeOK

LEMMA NewViewFromType ==
    ASSUME HandlerTypeOK, NEW r \in Replica, NEW v \in View
    PROVE  NewViewFrom(r, v) \in NewViewMsg /\ NewViewFrom(r, v) \in Msg
BY DEF NewViewFrom, NewViewMsg, Msg, HandlerTypeOK

LEMMA EnterViewType ==
    ASSUME HandlerTypeOK, NEW r \in Replica, NEW v \in View, NEW n \in Net,
           NEW q \in SUBSET Msg, NEW vs \in SUBSET VoteRecord,
           NEW hqc \in QuorumCert, EnterView(r, v, n, q, vs, hqc)
    PROVE  /\ view' \in [Replica -> View]
           /\ net' \in Net
           /\ msgQueue' \in [Replica -> SUBSET Msg]
           /\ highQC' \in [Replica -> QuorumCert]
           /\ highQCTmp' \in [Replica -> SUBSET NewViewMsg]
           /\ votes' \in [Replica -> SUBSET VoteRecord]
           /\ viewChanged' \in [Replica -> BOOLEAN]
           /\ holding' \in [Replica -> BOOLEAN]
           /\ status' \in [Replica -> {"up", "panicked", "blocked"}]
<1> DEFINE own == NewViewFrom(r, v)
           queued == QueuedFor(q, v)
<1>1. view' \in [Replica -> View]
  BY DEF EnterView, HandlerTypeOK
<1>2. own \in NewViewMsg /\ own \in Msg
  BY NewViewFromType
<1>3. CASE /\ GetLeaderByView(v) # r
           /\ net' = Unicast(n, r, GetLeaderByView(v), own)
           /\ msgQueue' = [msgQueue EXCEPT ![r] = q]
           /\ AwaitNewViews(r, {}, vs, hqc)
  <2>1. net' \in Net
    BY <1>2, <1>3, LeaderIsReplica, UnicastType
  <2>2. msgQueue' \in [Replica -> SUBSET Msg]
    BY <1>3 DEF HandlerTypeOK
  <2> QED
    BY <1>1, <1>3, <2>1, <2>2, AwaitNewViewsType
<1>4. CASE /\ net' = n
           /\ msgQueue' = [msgQueue EXCEPT
                             ![r] = IF Pending(q, v) THEN PopAll(q, v) ELSE q]
           /\ CollectNewViews(r, v, q, vs, hqc)
  <2>1. msgQueue' \in [Replica -> SUBSET Msg]
    BY <1>4 DEF HandlerTypeOK, PopAll
  <2>2. CASE /\ \A m \in queued : m.type = "NewView"
             /\ AwaitNewViews(r, queued \cup {own}, vs, hqc)
    <3>1. queued \cup {own} \in SUBSET NewViewMsg
      BY <1>2, <2>2, MsgFields DEF QueuedFor
    <3> QED
      BY <1>1, <1>4, <2>1, <2>2, <3>1, AwaitNewViewsType
  <2>3. CASE /\ \A m \in queued : m.type = "NewView"
             /\ \E s \in SUBSET queued : ProcessNewView(r, s \cup {own})
    <3>1. PICK s \in SUBSET queued : ProcessNewView(r, s \cup {own})
      BY <2>3
    <3>2. s \cup {own} \in SUBSET NewViewMsg
      BY <1>2, <2>3, MsgFields DEF QueuedFor
    <3> QED
      BY <1>1, <1>4, <2>1, <3>1, <3>2, ProcessNewViewType
  <2>4. CASE /\ status' = [status EXCEPT ![r] = "blocked"]
             /\ UNCHANGED <<highQC, highQCTmp, votes, viewChanged, holding>>
    BY <1>1, <1>4, <2>1, <2>4 DEF HandlerTypeOK
  <2> QED
    BY <1>4, <2>2, <2>3, <2>4 DEF CollectNewViews
<1> QED
  BY <1>3, <1>4 DEF EnterView

LEMMA IgnoreType ==
    ASSUME HandlerTypeOK, NEW r \in Replica, NEW n \in Net,
           NEW q \in SUBSET Msg, Ignore(r, n, q)
    PROVE  HandlerTypeOK'
BY TypesOfBoth, IgnoreImplType

LEMMA VoteFromType ==
    ASSUME HandlerTypeOK, NEW r \in Replica, NEW type \in VoteType,
           NEW b \in Block
    PROVE  VoteFrom(r, type, b) \in Msg
BY DEF VoteFrom, Msg, VoteMsg, HandlerTypeOK

LEMMA PhaseMsgType ==
    ASSUME NEW type \in LeaderType, NEW v \in View, NEW b \in Block,
           NEW qc \in QuorumCert
    PROVE  PhaseMsg(type, v, b, qc) \in Msg
BY DEF PhaseMsg, Msg, LeaderMsg

LEMMA VotesType ==
    ASSUME HandlerTypeOK, NEW r \in Replica, NEW m \in Msg, m.type \in VoteType
    PROVE  /\ Counted(r, m) \in SUBSET VoteRecord
           /\ LeftVotes(r, m) \in SUBSET VoteRecord
           /\ <<m.type, m.block.hash>> \in VoteType \X Hash
BY MsgFields
   DEF Counted, LeftVotes, OwnVote, VoteRecord, Block, HandlerTypeOK

LEMMA StoreVoteType ==
    ASSUME HandlerTypeOK, NEW r \in Replica, NEW m \in Msg, m.type \in VoteType,
           NEW n \in Net, NEW q \in SUBSET Msg, StoreVote(r, m, n, q)
    PROVE  HandlerTypeOK'
<1>1. m \in VoteMsg
  BY DEF Msg, LeaderMsg, NewViewMsg, VoteType, LeaderType
<1> QED
  BY <1>1, TypesOfBoth, StoreVoteImplType

\* Every handler keeps the types.
LEMMA DispatchType ==
    ASSUME HandlerTypeOK, NEW r \in Replica, NEW m \in Msg, NEW n \in Net,
           NEW q \in SUBSET Msg, Dispatch(r, m, n, q)
    PROVE  HandlerTypeOK'
<1> USE DEF VoteType, LeaderType
<1>1. CASE \/ m.type = "Prepare" /\ OnReceivePrepare(r, m, n, q)
           \/ m.type = "PrepareVote" /\ OnReceivePrepareVote(r, m, n, q)
           \/ m.type = "PreCommit" /\ OnReceivePreCommit(r, m, n, q)
           \/ m.type = "PreCommitVote" /\ OnReceivePreCommitVote(r, m, n, q)
           \/ m.type = "Commit" /\ OnReceiveCommit(r, m, n, q)
  <2>1. m \in VoteMsg \cup LeaderMsg /\ VoteMsg \cup LeaderMsg \subseteq Msg
    BY <1>1 DEF Msg, NewViewMsg
  <2> QED
    BY <1>1, <2>1, TypesOfBoth, PhaseImplType
<1>6. CASE m.type = "CommitVote" /\ OnReceiveCommitVote(r, m, n, q)
  <2>1. CASE Ignore(r, n, q) \/ StoreVote(r, m, n, q)
    BY <1>6, <2>1, IgnoreType, StoreVoteType
  <2> DEFINE decide == PhaseMsg("Decide", view[r], m.block,
                                CreateQuorumCert(m.block))
  <2>2. CASE /\ FinishVotes(r, m)
             /\ Execute(r, m.block)
             /\ EnterView(r, view[r] + 1, Multicast(n, r, decide), q,
                          LeftVotes(r, m), highQC[r])
             /\ timer' = [timer EXCEPT ![r] = FALSE]
             /\ UNCHANGED <<prepareQC, preCommitQC>>
    <3>1. m.block \in Block /\ view[r] \in View /\ view[r] + 1 \in View
      BY <1>6, MsgFields DEF HandlerTypeOK, View
    <3>2. Multicast(n, r, decide) \in Net
      BY <3>1, QuorumCertType, PhaseMsgType, MulticastType
    <3>3. LeftVotes(r, m) \in SUBSET VoteRecord /\ highQC[r] \in QuorumCert
      BY <1>6, VotesType DEF HandlerTypeOK
    <3>4. finishedVotes' \in [Replica -> SUBSET (VoteType \X Hash)]
      BY <1>6, <2>2, VotesType DEF FinishVotes, HandlerTypeOK
    <3> HIDE DEF decide
    <3>5. /\ view' \in [Replica -> View]
          /\ net' \in Net
          /\ msgQueue' \in [Replica -> SUBSET Msg]
          /\ highQC' \in [Replica -> QuorumCert]
          /\ highQCTmp' \in [Replica -> SUBSET NewViewMsg]
          /\ votes' \in [Replica -> SUBSET VoteRecord]
          /\ viewChanged' \in [Replica -> BOOLEAN]
          /\ holding' \in [Replica -> BOOLEAN]
          /\ status' \in [Replica -> {"up", "panicked", "blocked"}]
      BY <2>2, <3>1, <3>2, <3>3, EnterViewType
    <3> QED
      BY <2>2, <3>1, <3>4, <3>5, ExecuteImplType DEF HandlerTypeOK
  <2> QED
    BY <1>6, <2>1, <2>2 DEF OnReceiveCommitVote
<1>7. CASE m.type = "Decide" /\ OnReceiveDecide(r, m, n, q)
  <2>1. m.block \in Block /\ m.qc \in QuorumCert /\ m.view + 1 \in View
    BY <1>7, MsgFields DEF View
  <2>2. CASE Ignore(r, n, q)
    BY <2>2, IgnoreType
  <2>3. CASE /\ Execute(r, m.block)
             /\ EnterView(r, m.view + 1, n, q, votes[r], m.qc)
             /\ timer' = [timer EXCEPT ![r] = FALSE]
             /\ UNCHANGED <<prepareQC, preCommitQC, finishedVotes>>
    <3>1. votes[r] \in SUBSET VoteRecord
      BY DEF HandlerTypeOK
    <3>2. /\ view' \in [Replica -> View]
          /\ net' \in Net
          /\ msgQueue' \in [Replica -> SUBSET Msg]
          /\ highQC' \in [Replica -> QuorumCert]
          /\ highQCTmp' \in [Replica -> SUBSET NewViewMsg]
          /\ votes' \in [Replica -> SUBSET VoteRecord]
          /\ viewChanged' \in [Replica -> BOOLEAN]
          /\ holding' \in [Replica -> BOOLEAN]
          /\ status' \in [Replica -> {"up", "panicked", "blocked"}]
      BY <2>1, <2>3, <3>1, EnterViewType
    <3> QED
      BY <2>1, <2>3, <3>2, ExecuteImplType DEF HandlerTypeOK
  <2> QED
    BY <1>7, <2>2, <2>3 DEF OnReceiveDecide
<1>8. CASE m.type = "NewView" /\ OnReceiveNewView(r, m, n, q)
  <2> DEFINE newViews == highQCTmp[r] \cup {m}
  <2>1. CASE Ignore(r, n, q)
    BY <2>1, IgnoreType
  <2>2. CASE /\ \/ AwaitNewViews(r, newViews, votes[r], highQC[r])
                \/ ProcessNewView(r, newViews)
             /\ net' = n
             /\ msgQueue' = [msgQueue EXCEPT ![r] = q]
             /\ UNCHANGED <<prepareQC, preCommitQC, timer, finishedVotes, view,
                            chainVars>>
    <3>1. newViews \in SUBSET NewViewMsg
      BY <1>8, MsgFields DEF HandlerTypeOK
    <3>2. votes[r] \in SUBSET VoteRecord /\ highQC[r] \in QuorumCert
      BY DEF HandlerTypeOK
    <3> HIDE DEF newViews
    <3>3. /\ highQC' \in [Replica -> QuorumCert]
          /\ highQCTmp' \in [Replica -> SUBSET NewViewMsg]
          /\ votes' \in [Replica -> SUBSET VoteRecord]
          /\ viewChanged' \in [Replica -> BOOLEAN]
          /\ holding' \in [Replica -> BOOLEAN]
          /\ status' \in [Replica -> {"up", "panicked", "blocked"}]
      BY <2>2, <3>1, <3>2, AwaitNewViewsType, ProcessNewViewType
    <3> QED
      BY <2>2, <3>3 DEF HandlerTypeOK, chainVars
  <2> QED
    BY <1>8, <2>1, <2>2 DEF OnReceiveNewView
<1> QED
  BY <1>1, <1>6, <1>7, <1>8 DEF Dispatch

LEMMA TakenType ==
    ASSUME HandlerTypeOK, NEW r \in Replica, NEW s \in Replica,
           net[s][r] # <<>>
    PROVE  Head(net[s][r]) \in Msg /\ Taken(r, s) \in Net
BY TakenTypeOf, TypesOfBoth DEF HandlerTypeOK

LEMMA NextType == TypeOK /\ [Next]_vars => TypeOK'
<1> SUFFICES ASSUME HandlerTypeOK, OtherTypeOK, [Next]_vars
             PROVE  HandlerTypeOK' /\ OtherTypeOK'
  BY DEF TypeOK, HandlerTypeOK, OtherTypeOK, Net
<1> USE DEF HandlerTypeOK, OtherTypeOK
<1>0. ASSUME NEW r \in Replica, NEW s \in Replica,
             \/ ReceiveFuture(r, s) \/ ReceiveStale(r, s) \/ HoldCurrent(r, s)
             \/ HandleReq(r) \/ Lose(r, s) \/ UNCHANGED vars
      PROVE  HandlerTypeOK' /\ OtherTypeOK'
  <2>1. LeaderMsg \subseteq Msg
    BY DEF Msg
  <2> HIDE DEF HandlerTypeOK, OtherTypeOK
  <2> QED
    BY <1>0, <2>1, TypesOfBoth, OtherStepsImplType
<1>1. ASSUME NEW r \in Replica, NEW s \in Replica, Receive(r, s)
      PROVE  HandlerTypeOK' /\ OtherTypeOK'
  <2>1. net[s][r] # <<>>
    BY <1>1 DEF Receive, ReceiveFuture, ReceiveStale, ReceiveCurrent,
                HoldCurrent, CanReceive
  <2>2. Head(net[s][r]) \in Msg /\ Taken(r, s) \in Net
    BY <2>1, TakenType
  <2>3. CASE ReceiveFuture(r, s) \/ ReceiveStale(r, s) \/ HoldCurrent(r, s)
    BY <1>0, <2>3
  <2>5. CASE ReceiveCurrent(r, s)
    <3>1. HandlerTypeOK'
      BY <2>2, <2>5, DispatchType DEF ReceiveCurrent
    <3> QED
      BY <2>5, <3>1 DEF ReceiveCurrent, requestVars, handVars
  <2> QED
    BY <1>1, <2>3, <2>5 DEF Receive
<1>2. ASSUME NEW r \in Replica, Chase(r)
      PROVE  HandlerTypeOK' /\ OtherTypeOK'
  <2>1. PICK m \in Last(msgQueue[r], view[r]) :
          /\ Dispatch(r, m, net, Pop(msgQueue[r], view[r], m))
          /\ chasing' = [chasing EXCEPT
                           ![r] = /\ m.type \in {"NewView", "Decide"}
                                  /\ Pending(msgQueue'[r], view'[r])]
    BY <1>2 DEF Chase
  <2>2. m \in Msg /\ Pop(msgQueue[r], view[r], m) \in SUBSET Msg
    BY DEF Last, QueuedFor, Pop
  <2>3. HandlerTypeOK'
    BY <2>1, <2>2, DispatchType
  <2>4. chasing' \in [Replica -> BOOLEAN]
    BY <2>1
  <2> QED
    BY <1>2, <2>3, <2>4 DEF Chase, requestVars
<1>3. ASSUME NEW r \in Replica, HandleHeld(r)
      PROVE  HandlerTypeOK' /\ OtherTypeOK'
  <2>1. PICK m \in hand[r] : Dispatch(r, m, net, msgQueue[r])
    BY <1>3 DEF HandleHeld
  <2>2. HandlerTypeOK'
    BY <2>1, DispatchType
  <2> QED
    BY <1>3, <2>2 DEF HandleHeld, requestVars
<1>4. ASSUME NEW r \in Replica, Timeout(r)
      PROVE  HandlerTypeOK' /\ OtherTypeOK'
  <2>1. view[r] + 1 \in View
    BY DEF View
  <2>2. /\ view' \in [Replica -> View]
        /\ net' \in Net
        /\ msgQueue' \in [Replica -> SUBSET Msg]
        /\ highQC' \in [Replica -> QuorumCert]
        /\ highQCTmp' \in [Replica -> SUBSET NewViewMsg]
        /\ votes' \in [Replica -> SUBSET VoteRecord]
        /\ viewChanged' \in [Replica -> BOOLEAN]
        /\ holding' \in [Replica -> BOOLEAN]
        /\ status' \in [Replica -> {"up", "panicked", "blocked"}]
    BY <1>4, <2>1, EnterViewType DEF Timeout
  <2>3. chasing' \in [Replica -> BOOLEAN]
    BY <1>4 DEF Timeout, Pending
  <2> QED
    BY <1>4, <2>2, <2>3 DEF Timeout, chainVars, requestVars
<1>5. PICK s \in Replica : TRUE
  BY LeaderIsReplica DEF View
<1> QED
  BY <1>0, <1>1, <1>2, <1>3, <1>4, <1>5 DEF Next, HandleMsg

\* Type correctness of basic HotStuff.
THEOREM TypeCorrect == Spec => []TypeOK
BY InitType, NextType, PTL DEF Spec

-----------------------------------------------------------------------------
(* The inductive invariant. *)

\* The genuine messages for r, and the networks that carry no others.
Genuine(r) == {m \in Msg : IsGenuine(r, m)}
GenuineNet == {n \in Net : \A s, r \in Replica : n[s][r] \in Seq(Genuine(r))}

GenuineInTransit ==
    /\ net \in GenuineNet
    /\ \A r \in Replica : msgQueue[r] \subseteq Genuine(r)
    /\ \A r \in Replica : hand[r] \subseteq Genuine(r)

LEMMA GenuineByParts == TypeOK => (MessagesGenuine <=> GenuineInTransit)
<1> SUFFICES ASSUME TypeOK PROVE MessagesGenuine <=> GenuineInTransit
  OBVIOUS
<1>1. ASSUME MessagesGenuine PROVE GenuineInTransit
  <2>1. ASSUME NEW r \in Replica
        PROVE  msgQueue[r] \subseteq Genuine(r) /\ hand[r] \subseteq Genuine(r)
    BY <1>1, <2>1 DEF MessagesGenuine, InTransit, Genuine, TypeOK
  <2>2. ASSUME NEW s \in Replica, NEW r \in Replica
        PROVE  net[s][r] \in Seq(Genuine(r))
    <3>1. net[s][r] \in Seq(Msg)
      BY DEF TypeOK
    <3>2. \A i \in 1..Len(net[s][r]) : net[s][r][i] \in Genuine(r)
      BY <1>1, <3>1 DEF MessagesGenuine, InTransit, OnTheWay, Genuine
    <3> QED
      BY <3>1, <3>2
  <2> QED
    BY <2>1, <2>2 DEF GenuineInTransit, GenuineNet, Net, TypeOK
<1>2. ASSUME GenuineInTransit PROVE MessagesGenuine
  <2> SUFFICES ASSUME NEW r \in Replica, NEW m \in InTransit(r)
               PROVE  IsGenuine(r, m)
    BY DEF MessagesGenuine
  <2>1. CASE m \in msgQueue[r] \cup hand[r]
    BY <1>2, <2>1 DEF GenuineInTransit, Genuine
  <2>2. ASSUME NEW s \in Replica, m \in OnTheWay(r, s)
        PROVE  IsGenuine(r, m)
    <3>1. net[s][r] \in Seq(Genuine(r))
      BY <1>2 DEF GenuineInTransit, GenuineNet
    <3> QED
      BY <2>2, <3>1 DEF OnTheWay, Genuine
  <2> QED
    BY <2>1, <2>2 DEF InTransit
<1> QED
  BY <1>1, <1>2

LEMMA UnicastGenuine ==
    ASSUME NEW n \in GenuineNet, NEW s \in Replica, NEW d \in Replica,
           NEW m \in Genuine(d)
    PROVE  Unicast(n, s, d, m) \in GenuineNet
<1>1. Unicast(n, s, d, m) \in Net
  BY UnicastType DEF GenuineNet, Genuine
<1>2. ASSUME NEW t \in Replica, NEW r \in Replica
      PROVE  Unicast(n, s, d, m)[t][r] \in Seq(Genuine(r))
  <2>1. n[t][r] \in Seq(Genuine(r))
    BY DEF GenuineNet
  <2>2. CASE t = s /\ r = d
    <3>1. Unicast(n, s, d, m)[t][r] = Append(n[t][r], m)
      BY <2>2 DEF Unicast, GenuineNet, Net
    <3> QED
      BY <2>1, <2>2, <3>1
  <2>3. CASE ~(t = s /\ r = d)
    BY <2>1, <2>3 DEF Unicast, GenuineNet, Net
  <2> QED
    BY <2>2, <2>3
<1> QED
  BY <1>1, <1>2 DEF GenuineNet

LEMMA MulticastGenuine ==
    ASSUME NEW n \in GenuineNet, NEW s \in Replica, NEW m \in Msg,
           \A r \in Replica \ {s} : m \in Genuine(r)
    PROVE  Multicast(n, s, m) \in GenuineNet
<1>1. Multicast(n, s, m) \in Net
  BY MulticastType DEF GenuineNet
<1>2. ASSUME NEW t \in Replica, NEW r \in Replica
      PROVE  Multicast(n, s, m)[t][r] \in Seq(Genuine(r))
  <2>1. n[t][r] \in Seq(Genuine(r))
    BY DEF GenuineNet
  <2>2. CASE t = s /\ r # s
    <3>1. Multicast(n, s, m)[t][r] = Append(n[t][r], m)
      BY <2>2 DEF Multicast, GenuineNet, Net
    <3> QED
      BY <2>1, <2>2, <3>1
  <2>3. CASE ~(t = s /\ r # s)
    BY <2>1, <2>3 DEF Multicast, GenuineNet, Net
  <2> QED
    BY <2>2, <2>3
<1> QED
  BY <1>1, <1>2 DEF GenuineNet

LEMMA TakenGenuine ==
    ASSUME net \in GenuineNet, NEW r \in Replica, NEW s \in Replica,
           net[s][r] # <<>>
    PROVE  Head(net[s][r]) \in Genuine(r) /\ Taken(r, s) \in GenuineNet
<1>1. net[s][r] \in Seq(Genuine(r)) /\ net \in Net
  BY DEF GenuineNet
<1>2. Head(net[s][r]) \in Genuine(r) /\ Tail(net[s][r]) \in Seq(Genuine(r))
  BY <1>1
<1>3. Taken(r, s) \in Net
  <2>1. Tail(net[s][r]) \in Seq(Msg)
    BY <1>1 DEF Net
  <2> QED
    BY <1>1, <2>1 DEF Taken, Net
<1>4. ASSUME NEW t \in Replica, NEW d \in Replica
      PROVE  Taken(r, s)[t][d] \in Seq(Genuine(d))
  BY <1>1, <1>2 DEF Taken, GenuineNet, Net
<1> QED
  BY <1>2, <1>3, <1>4 DEF GenuineNet

\* The part of Inv that is not about messages.
LocalInv ==
    /\ ViewsPositive
    /\ ProposedByLeader
    /\ TimerAfterProposal
    /\ ChangingView
    /\ TokenDiscipline
    /\ OneProposalPerView
    /\ NoViewSkipped
    /\ NeverStuck

\* What a handler that leaves r in its view does to the part.
StaysInView(r) ==
    /\ UNCHANGED <<view, viewChanged, holding, status, proposed>>
    /\ \/ UNCHANGED timer
       \/ HasProposal(view[r]) /\ timer' = [timer EXCEPT ![r] = TRUE]

LEMMA StayKeepsInv ==
    ASSUME TypeOK, LocalInv, NEW r \in Replica, StaysInView(r)
    PROVE  LocalInv'
<1> USE DEF LocalInv, StaysInView, HasProposal
<1>1. /\ ViewsPositive' /\ ProposedByLeader' /\ OneProposalPerView'
      /\ NoViewSkipped' /\ NeverStuck'
  BY DEF ViewsPositive, ProposedByLeader, OneProposalPerView, NoViewSkipped,
         NeverStuck
<1>2. TimerAfterProposal'
  BY DEF TimerAfterProposal, TypeOK
<1>3. ChangingView'
  BY DEF ChangingView, Leader
<1>4. TokenDiscipline'
  BY DEF TokenDiscipline, Leader, TypeOK
<1> QED
  BY <1>1, <1>2, <1>3, <1>4

\* The leader of a view whose view change goes on gets the token.
LEMMA ProcessNewViewKeepsInv ==
    ASSUME TypeOK, LocalInv, NEW r \in Replica, NEW newViews,
           Leader(r) = r, ~viewChanged[r], view[r] >= 2,
           ProcessNewView(r, newViews), UNCHANGED <<view, timer, proposed>>
    PROVE  LocalInv'
<1>1. ~holding[r] /\ ~HasProposal(view[r]) /\ ~timer[r]
  BY DEF LocalInv, ChangingView, TimerAfterProposal
<1>2. /\ viewChanged' = [viewChanged EXCEPT ![r] = TRUE]
      /\ holding' = [holding EXCEPT ![r] = TRUE]
      /\ status' = status
  BY <1>1 DEF ProcessNewView
<1>3. /\ ViewsPositive' /\ ProposedByLeader' /\ OneProposalPerView'
      /\ NoViewSkipped' /\ NeverStuck' /\ TimerAfterProposal'
  BY <1>2 DEF LocalInv, ViewsPositive, ProposedByLeader, OneProposalPerView,
              NoViewSkipped, NeverStuck, TimerAfterProposal, HasProposal
<1>4. ChangingView'
  BY <1>2 DEF LocalInv, ChangingView, Leader, HasProposal, TypeOK
<1>5. TokenDiscipline'
  BY <1>1, <1>2 DEF LocalInv, TokenDiscipline, Leader, HasProposal, TypeOK
<1> QED
  BY <1>3, <1>4, <1>5 DEF LocalInv

\* No vote is in q; q, or less of it, becomes the queue of r.
NoVotes(q) == \A m \in q : m.type \notin VoteType

Shrinks(r, q) == \E p \in SUBSET q : msgQueue' = [msgQueue EXCEPT ![r] = p]

\* A replica without the token moves on from a view that had a proposal.  As
\* the leader of the new view it finds only new-view messages in the queue.
LEMMA EnterViewKeepsInv ==
    ASSUME TypeOK, LocalInv, NEW r \in Replica,
           NEW n \in GenuineNet, NEW q \in SUBSET Genuine(r),
           NoVotes(q),
           NEW vs, NEW hqc,
           HasProposal(view[r]), ~holding[r],
           EnterView(r, view[r] + 1, n, q, vs, hqc),
           timer' = [timer EXCEPT ![r] = FALSE],
           UNCHANGED proposed
    PROVE  /\ LocalInv'
           /\ net' \in GenuineNet
           /\ Shrinks(r, q)
<1> DEFINE v == view[r] + 1
           own == NewViewFrom(r, v)
           queued == QueuedFor(q, v)
<1>1. view' = [view EXCEPT ![r] = v] /\ v \in View /\ v >= 2
  BY DEF EnterView, LocalInv, ViewsPositive, TypeOK, View
<1>2. /\ ViewsPositive' /\ ProposedByLeader' /\ OneProposalPerView'
  BY <1>1 DEF LocalInv, ViewsPositive, ProposedByLeader, OneProposalPerView,
              TypeOK, View, Block, Replica
<1>3. NoViewSkipped'
  <2> SUFFICES ASSUME NEW s \in Replica, NEW w \in 1..(view'[s] - 1)
               PROVE  HasProposal(w)
    BY DEF NoViewSkipped, HasProposal
  <2>1. CASE w \in 1..(view[s] - 1)
    BY <2>1 DEF LocalInv, NoViewSkipped
  <2>2. CASE s = r /\ w = view[r]
    BY <2>2
  <2> QED
    BY <1>1, <2>1, <2>2 DEF TypeOK, View
<1>4. TimerAfterProposal'
  BY <1>1 DEF LocalInv, TimerAfterProposal, HasProposal, TypeOK
<1>5. GetLeaderByView(v) = r => ~HasProposal(v)
  <2> SUFFICES ASSUME GetLeaderByView(v) = r, NEW b \in proposed, b.view = v
               PROVE  FALSE
    BY DEF HasProposal
  <2>1. b.proposer = r /\ b.view <= view[r]
    BY DEF LocalInv, ProposedByLeader
  <2>2. view[r] \in Nat
    BY DEF TypeOK, View
  <2> QED
    BY <2>1, <2>2
<1>6. \A m \in queued : GetLeaderByView(v) = r => m.type = "NewView"
  BY DEF QueuedFor, NoVotes, Genuine, IsGenuine
<1> HIDE DEF v
<1>7. CASE /\ GetLeaderByView(v) # r
           /\ net' = Unicast(n, r, GetLeaderByView(v), own)
           /\ msgQueue' = [msgQueue EXCEPT ![r] = q]
           /\ AwaitNewViews(r, {}, vs, hqc)
  <2>1. own \in Genuine(GetLeaderByView(v))
    <3>1. own \in Msg
      BY <1>1 DEF NewViewFrom, Msg, NewViewMsg, TypeOK
    <3> QED
      BY <1>1, <3>1 DEF Genuine, IsGenuine, NewViewFrom
  <2>2. net' \in GenuineNet
    BY <1>1, <1>7, <2>1, LeaderIsReplica, UnicastGenuine
  <2>3. holding' = holding /\ status' = status
    BY <1>7 DEF AwaitNewViews
  <2>4. ChangingView' /\ TokenDiscipline' /\ NeverStuck'
    BY <1>1, <1>7, <2>3
       DEF AwaitNewViews, LocalInv, ChangingView, TokenDiscipline, NeverStuck,
           Leader, HasProposal, TypeOK
  <2> QED
    BY <1>2, <1>3, <1>4, <1>7, <2>2, <2>4 DEF LocalInv, Shrinks
<1>8. CASE /\ GetLeaderByView(v) = r
           /\ net' = n
           /\ msgQueue' = [msgQueue EXCEPT
                             ![r] = IF Pending(q, v) THEN PopAll(q, v) ELSE q]
           /\ CollectNewViews(r, v, q, vs, hqc)
  <2>1. Shrinks(r, q)
    BY <1>8 DEF PopAll, Shrinks
  <2>2. CASE \E nv : AwaitNewViews(r, nv, vs, hqc)
    <3>1. /\ viewChanged' = [viewChanged EXCEPT ![r] = FALSE]
          /\ holding' = holding /\ status' = status
      BY <2>2 DEF AwaitNewViews
    <3>2. ChangingView' /\ TokenDiscipline' /\ NeverStuck'
      BY <1>1, <1>5, <1>8, <3>1
         DEF LocalInv, ChangingView, TokenDiscipline, NeverStuck, Leader,
             HasProposal, TypeOK
    <3> QED
      BY <1>2, <1>3, <1>4, <1>8, <2>1, <3>2 DEF LocalInv
  <2>3. CASE \E nv : ProcessNewView(r, nv)
    <3>1. /\ viewChanged' = [viewChanged EXCEPT ![r] = TRUE]
          /\ holding' = [holding EXCEPT ![r] = TRUE]
          /\ status' = status
      BY <2>3 DEF ProcessNewView
    <3>2. ChangingView' /\ TokenDiscipline' /\ NeverStuck'
      BY <1>1, <1>5, <1>8, <3>1
         DEF LocalInv, ChangingView, TokenDiscipline, NeverStuck, Leader,
             HasProposal, TypeOK
    <3> QED
      BY <1>2, <1>3, <1>4, <1>8, <2>1, <3>2 DEF LocalInv
  <2> QED
    BY <1>6, <1>8, <2>2, <2>3 DEF CollectNewViews
<1> QED
  BY <1>7, <1>8 DEF EnterView, v

LEMMA VoteFromGenuine ==
    ASSUME TypeOK, NEW r \in Replica, NEW type \in VoteType,
           NEW b \in proposed, b.view = view[r]
    PROVE  VoteFrom(r, type, b) \in Genuine(Leader(r))
<1>1. VoteFrom(r, type, b) \in Msg
  BY DEF VoteFrom, Msg, VoteMsg, TypeOK
<1>2. "NewView" \notin VoteType
  BY DEF VoteType
<1> QED
  BY <1>1, <1>2 DEF Genuine, IsGenuine, VoteFrom, Leader

LEMMA PhaseMsgGenuine ==
    ASSUME TypeOK, NEW r \in Replica, NEW type \in LeaderType,
           NEW b \in proposed, b.view = view[r], Leader(r) = r,
           NEW qc \in QuorumCert, NEW d \in Replica \ {r}
    PROVE  PhaseMsg(type, view[r], b, qc) \in Genuine(d)
<1>1. PhaseMsg(type, view[r], b, qc) \in Msg
  BY DEF PhaseMsg, Msg, LeaderMsg, TypeOK
<1>2. type \notin VoteType /\ type # "NewView"
  BY DEF VoteType, LeaderType
<1> QED
  BY <1>1, <1>2 DEF Genuine, IsGenuine, PhaseMsg, Leader

\* A handler keeps the invariant if its message is genuine and, where r leads
\* the view of the message, r is in that view.
LEMMA DispatchKeepsInv ==
    ASSUME TypeOK, LocalInv, NEW r \in Replica, NEW m \in Genuine(r),
           NEW n \in GenuineNet, NEW q \in SUBSET Genuine(r),
           NoVotes(q),
           GetLeaderByView(m.view) = r => m.view = view[r],
           Dispatch(r, m, n, q), UNCHANGED proposed
    PROVE  /\ LocalInv'
           /\ net' \in GenuineNet
           /\ Shrinks(r, q)
           /\ \A s \in Replica \ {r} : view'[s] = view[s]
           /\ Leader(r) = r /\ m.type \notin VoteType => view' = view
<1> DEFINE Goal == /\ LocalInv'
                   /\ net' \in GenuineNet
                   /\ Shrinks(r, q)
                   /\ \A s \in Replica \ {r} : view'[s] = view[s]
                   /\ Leader(r) = r /\ m.type \notin VoteType => view' = view
<1> SUFFICES Goal
  OBVIOUS
<1>m. /\ m \in Msg
      /\ m.type # "NewView" => m.block \in proposed /\ m.block.view = m.view
      /\ m.type # "NewView" => (m.type \in VoteType <=> GetLeaderByView(m.view) = r)
      /\ m.type = "NewView" => GetLeaderByView(m.view) = r /\ m.view >= 2
  BY DEF Genuine, IsGenuine
<1>p. MatchingMsg(r, m) /\ m.type # "NewView" =>
        HasProposal(view[r]) /\ ~holding[r] /\ m.block.view = view[r]
  BY <1>m DEF MatchingMsg, HasProposal, LocalInv, TokenDiscipline
<1>1. CASE Ignore(r, n, q)
  <2>1. StaysInView(r)
    BY <1>1 DEF Ignore, StaysInView, viewVars
  <2> QED
    BY <1>1, <2>1, StayKeepsInv DEF Ignore, StaysInView, Shrinks
<1>2. ASSUME NEW type \in VoteType, Vote(r, type, m.block, n, q),
             MatchingMsg(r, m), m.type # "NewView"
      PROVE  Goal
  <2>1. StaysInView(r)
    BY <1>2, <1>p DEF Vote, StaysInView, viewVars
  <2>2. Leader(r) \in Replica
    BY LeaderIsReplica DEF Leader, TypeOK
  <2>3. VoteFrom(r, type, m.block) \in Genuine(Leader(r))
    BY <1>2, <1>m, <1>p, VoteFromGenuine
  <2>4. net' \in GenuineNet
    BY <1>2, <2>2, <2>3, UnicastGenuine DEF Vote
  <2> QED
    BY <1>2, <2>1, <2>4, StayKeepsInv DEF Vote, StaysInView, Shrinks
<1>3. CASE StoreVote(r, m, n, q)
  <2>1. StaysInView(r)
    BY <1>3 DEF StoreVote, StaysInView, viewVars
  <2> QED
    BY <1>3, <2>1, StayKeepsInv DEF StoreVote, StaysInView, Shrinks
<1>4. ASSUME m.type \in VoteType, MatchingMsg(r, m), NEW type \in LeaderType
      PROVE  LET d == PhaseMsg(type, view[r], m.block, CreateQuorumCert(m.block))
             IN  Multicast(n, r, d) \in GenuineNet
  <2> DEFINE d == PhaseMsg(type, view[r], m.block, CreateQuorumCert(m.block))
  <2>1. m.type # "NewView"
    BY <1>4 DEF VoteType
  <2>2. m.block \in proposed /\ m.block.view = view[r] /\ Leader(r) = r
    BY <1>4, <1>m, <1>p, <2>1 DEF MatchingMsg, Leader
  <2>3. m.block \in Block /\ view[r] \in View
    BY <2>2 DEF TypeOK
  <2>4. d \in Msg
    BY <2>3, QuorumCertType, PhaseMsgType
  <2>5. CreateQuorumCert(m.block) \in QuorumCert
    BY <2>3, QuorumCertType
  <2>6. \A x \in Replica \ {r} : d \in Genuine(x)
    BY <2>2, <2>5, PhaseMsgGenuine
  <2> QED
    BY <2>4, <2>6, MulticastGenuine
<1>5. ASSUME m.type \in VoteType, IsFresh(r, m), NEW type \in LeaderType,
             NEW voteType, StartPhase(r, m, type, voteType, n, q)
      PROVE  Goal
  <2>1. MatchingMsg(r, m) /\ m.type # "NewView"
    BY <1>5 DEF IsFresh, VoteType
  <2>2. StaysInView(r)
    BY <1>5, <1>p, <2>1 DEF StartPhase, StaysInView, viewVars
  <2>3. net' \in GenuineNet
    BY <1>4, <1>5, <2>1 DEF StartPhase
  <2> QED
    BY <1>5, <2>2, <2>3, StayKeepsInv DEF StartPhase, StaysInView, Shrinks
<1>6. ASSUME NEW n2 \in GenuineNet, NEW vs, NEW hqc,
             MatchingMsg(r, m), m.type # "NewView",
             EnterView(r, view[r] + 1, n2, q, vs, hqc),
             timer' = [timer EXCEPT ![r] = FALSE],
             m.type \in VoteType \/ Leader(r) # r
      PROVE  Goal
  <2>1. /\ LocalInv'
        /\ net' \in GenuineNet
        /\ Shrinks(r, q)
    BY <1>6, <1>p, EnterViewKeepsInv
  <2>2. \A s \in Replica \ {r} : view'[s] = view[s]
    BY <1>6 DEF EnterView, TypeOK
  <2> QED
    BY <1>6, <2>1, <2>2
<1> HIDE DEF Goal
<1>7. CASE m.type = "Prepare" /\ OnReceivePrepare(r, m, n, q)
  BY <1>7, <1>1, <1>2 DEF OnReceivePrepare, VoteType
<1>8. CASE m.type = "PrepareVote" /\ OnReceivePrepareVote(r, m, n, q)
  BY <1>8, <1>1, <1>3, <1>5 DEF OnReceivePrepareVote, VoteType, LeaderType
<1>9. CASE m.type = "PreCommit" /\ OnReceivePreCommit(r, m, n, q)
  BY <1>9, <1>1, <1>2 DEF OnReceivePreCommit, AcceptQC, VoteType
<1>10. CASE m.type = "PreCommitVote" /\ OnReceivePreCommitVote(r, m, n, q)
  <2>1. MatchingMsg(r, m)
    BY <1>10, <1>m DEF MatchingMsg, VoteType
  <2> QED
    BY <1>10, <2>1, <1>1, <1>3, <1>5
       DEF OnReceivePreCommitVote, VoteType, LeaderType
<1>11. CASE m.type = "Commit" /\ OnReceiveCommit(r, m, n, q)
  BY <1>11, <1>1, <1>2 DEF OnReceiveCommit, AcceptQC, VoteType
<1>12. CASE m.type = "CommitVote" /\ OnReceiveCommitVote(r, m, n, q)
  <2>1. m.type \in VoteType /\ "Decide" \in LeaderType
    BY <1>12 DEF VoteType, LeaderType
  <2> DEFINE n2 == Multicast(n, r, PhaseMsg("Decide", view[r], m.block,
                                            CreateQuorumCert(m.block)))
  <2>2. CASE /\ IsFresh(r, m)
             /\ EnterView(r, view[r] + 1, n2, q, LeftVotes(r, m), highQC[r])
             /\ timer' = [timer EXCEPT ![r] = FALSE]
    <3>1. MatchingMsg(r, m)
      BY <2>2 DEF IsFresh
    <3>2. n2 \in GenuineNet
      BY <1>4, <2>1, <3>1
    <3> HIDE DEF n2
    <3> QED
      BY <1>12, <1>6, <2>1, <2>2, <3>1, <3>2
  <2> QED
    BY <1>12, <1>1, <1>3, <2>2 DEF OnReceiveCommitVote
<1>13. CASE m.type = "Decide" /\ OnReceiveDecide(r, m, n, q)
  <2>1. CASE Ignore(r, n, q)
    BY <2>1, <1>1
  <2>2. CASE /\ AcceptQC(r, m)
             /\ EnterView(r, m.view + 1, n, q, votes[r], m.qc)
             /\ timer' = [timer EXCEPT ![r] = FALSE]
    <3>1. MatchingMsg(r, m) /\ m.view = view[r]
      BY <2>2 DEF AcceptQC, MatchingMsg
    <3>2. Leader(r) # r
      BY <1>13, <1>m, <3>1 DEF Leader, VoteType
    <3>3. EnterView(r, view[r] + 1, n, q, votes[r], m.qc)
      BY <2>2, <3>1
    <3> QED
      BY <1>13, <1>6, <2>2, <3>1, <3>2, <3>3
  <2> QED
    BY <1>13, <2>1, <2>2 DEF OnReceiveDecide
<1>14. CASE m.type = "NewView" /\ OnReceiveNewView(r, m, n, q)
  <2> DEFINE newViews == highQCTmp[r] \cup {m}
  <2>1. CASE viewChanged[r]
    BY <1>14, <2>1, <1>1 DEF OnReceiveNewView
  <2>2. CASE ~viewChanged[r]
    <3>1. Leader(r) = r /\ view[r] >= 2
      BY <1>14, <1>m DEF Leader
    <3>2. /\ net' = n
          /\ msgQueue' = [msgQueue EXCEPT ![r] = q]
          /\ UNCHANGED <<timer, view>>
      BY <1>14, <2>2 DEF OnReceiveNewView
    <3>3. CASE AwaitNewViews(r, newViews, votes[r], highQC[r])
      <4>1. viewChanged' = viewChanged
        BY <2>2, <3>3 DEF AwaitNewViews, TypeOK
      <4>2. StaysInView(r)
        BY <3>2, <3>3, <4>1 DEF StaysInView, AwaitNewViews
      <4> QED
        BY <3>2, <4>2, StayKeepsInv DEF Goal, Shrinks
    <3>4. CASE ProcessNewView(r, newViews)
      <4>1. LocalInv'
        BY <2>2, <3>1, <3>2, <3>4, ProcessNewViewKeepsInv
      <4> QED
        BY <3>2, <4>1 DEF Goal, Shrinks
    <3> QED
      BY <1>14, <2>2, <3>3, <3>4 DEF OnReceiveNewView
  <2> QED
    BY <2>1, <2>2
<1> QED
  BY <1>7, <1>8, <1>9, <1>10, <1>11, <1>12, <1>13, <1>14 DEF Dispatch

\* Proposing uses up the token, in a view that had no proposal.
LEMMA ProposeKeepsInv ==
    ASSUME TypeOK, LocalInv, GenuineInTransit, NEW r \in Replica, HandleReq(r)
    PROVE  LocalInv' /\ GenuineInTransit'
<1>1. PICK c \in Cmd : SendPrepare(r, c)
  BY DEF HandleReq
<1> DEFINE b == CreateLeaf(r, c)
           d == PhaseMsg("Prepare", view[r], b, highQC[r])
<1>2. holding[r] /\ Leader(r) = r /\ ~HasProposal(view[r])
  BY DEF HandleReq, LocalInv, TokenDiscipline
<1>3. /\ proposed' = proposed \cup {b}
      /\ net' = Multicast(net, r, d)
      /\ timer' = [timer EXCEPT ![r] = TRUE]
  BY <1>1, <1>2 DEF SendPrepare
<1>4. b.view = view[r] /\ b.proposer = r
  BY DEF CreateLeaf
<1>5. b \in Block
  BY DEF CreateLeaf, Block, Hash, Replica, TypeOK
<1>6. \A v : HasProposal(v)' <=> HasProposal(v) \/ v = view[r]
  BY <1>3, <1>4 DEF HasProposal
<1>7. /\ UNCHANGED <<view, viewChanged, status>>
      /\ holding' = [holding EXCEPT ![r] = FALSE]
  BY DEF HandleReq
<1> HIDE DEF b
<1>8. ViewsPositive' /\ NeverStuck' /\ NoViewSkipped'
  BY <1>6, <1>7 DEF LocalInv, ViewsPositive, NeverStuck, NoViewSkipped
<1>9. ProposedByLeader'
  BY <1>2, <1>3, <1>4, <1>7
     DEF LocalInv, ProposedByLeader, ViewsPositive, Leader, TypeOK, View
<1>10. TimerAfterProposal'
  BY <1>3, <1>6, <1>7 DEF LocalInv, TimerAfterProposal, TypeOK
<1>11. ChangingView' /\ TokenDiscipline'
  <2> SUFFICES ASSUME NEW s \in Replica, Leader(s)' = s \/ holding'[s]
               PROVE  /\ /\ Leader(s)' = s /\ ~viewChanged'[s] /\ view'[s] >= 2
                         => ~holding'[s] /\ ~HasProposal(view[s])'
                      /\ holding'[s] => /\ Leader(s)' = s
                                        /\ ~timer'[s]
                                        /\ ~HasProposal(view[s])'
    BY DEF ChangingView, TokenDiscipline, HasProposal
  <2>1. CASE s = r
    <3>1. ~holding'[r]
      BY <1>7 DEF TypeOK
    <3>2. view[r] >= 2 => viewChanged[r]
      BY <1>2 DEF LocalInv, ChangingView
    <3> QED
      BY <2>1, <3>1, <3>2, <1>7
  <2>2. CASE s # r
    <3>1. holding'[s] = holding[s] /\ timer'[s] = timer[s] /\ Leader(s)' = Leader(s)
      BY <1>3, <1>7, <2>2 DEF TypeOK, Leader
    <3>2. Leader(s) = s
      BY <3>1 DEF LocalInv, TokenDiscipline
    <3>3. view[s] # view[r]
      BY <1>2, <2>2, <3>2 DEF Leader
    <3>4. HasProposal(view[s])' <=> HasProposal(view[s])
      BY <1>6, <1>7, <3>3
    <3> QED
      BY <1>7, <3>1, <3>2, <3>4 DEF LocalInv, ChangingView, TokenDiscipline
  <2> QED
    BY <2>1, <2>2
<1>12. OneProposalPerView'
  BY <1>2, <1>3, <1>4 DEF LocalInv, OneProposalPerView, HasProposal
<1>13. \A s \in Replica : Genuine(s) \subseteq Genuine(s)'
  BY <1>3 DEF Genuine, IsGenuine
<1>14. \A s \in Replica \ {r} : d \in Genuine(s)'
  <2>1. d \in Msg
    BY <1>5, PhaseMsgType DEF TypeOK, LeaderType
  <2> QED
    BY <1>2, <1>3, <1>4, <2>1
       DEF Genuine, IsGenuine, PhaseMsg, Leader, VoteType
<1>15. net \in GenuineNet'
  <2>1. \A t, s \in Replica : net[t][s] \in Seq(Genuine(s)')
    <3> SUFFICES ASSUME NEW t \in Replica, NEW s \in Replica
                 PROVE  net[t][s] \in Seq(Genuine(s)')
      OBVIOUS
    <3>1. net[t][s] \in Seq(Genuine(s)) /\ Genuine(s) \subseteq Genuine(s)'
      BY <1>13 DEF GenuineInTransit, GenuineNet
    <3> HIDE DEF Genuine
    <3> QED
      BY <3>1
  <2> QED
    BY <2>1 DEF GenuineInTransit, GenuineNet
<1>16. net' \in GenuineNet'
  <2>1. d \in Msg
    BY <1>5, PhaseMsgType DEF TypeOK, LeaderType
  <2> HIDE DEF d
  <2>2. net' \in Net
    BY <1>3, <2>1, MulticastType DEF TypeOK, Net
  <2>3. ASSUME NEW t \in Replica, NEW s \in Replica
        PROVE  net'[t][s] \in Seq(Genuine(s)')
    <3>1. net[t][s] \in Seq(Genuine(s)')
      BY <1>15 DEF GenuineNet
    <3>2. CASE t = r /\ s # r
      <4>1. net'[t][s] = Append(net[t][s], d)
        BY <1>3, <3>2 DEF Multicast, TypeOK
      <4>2. d \in Genuine(s)'
        BY <1>14, <3>2
      <4> QED
        BY <3>1, <4>1, <4>2
    <3>3. CASE ~(t = r /\ s # r)
      BY <1>3, <3>1, <3>3 DEF Multicast, TypeOK
    <3> QED
      BY <3>2, <3>3
  <2> QED
    BY <2>2, <2>3 DEF GenuineNet
<1>17. UNCHANGED <<msgQueue, hand>>
  BY DEF HandleReq, handVars
<1>18. GenuineInTransit'
  BY <1>13, <1>16, <1>17 DEF GenuineInTransit
<1> QED
  BY <1>8, <1>9, <1>10, <1>11, <1>12, <1>18 DEF LocalInv

\* Inv, with the messages by parts.
IInv ==
    /\ LocalInv
    /\ GenuineInTransit
    /\ NoVoteQueued
    /\ HeldForLeaderCurrent

LEMMA InvByParts == TypeOK /\ IInv => Inv
BY GenuineByParts DEF IInv, LocalInv, Inv

LEMMA InitInv == Init => IInv
<1> SUFFICES ASSUME Init PROVE IInv
  OBVIOUS
<1>1. LocalInv
  <2>1. /\ proposed = {}
        /\ \A r \in Replica : /\ view[r] = 1 /\ ~timer[r] /\ status[r] = "up"
                              /\ holding[r] => r = GetLeaderByView(1)
    BY DEF Init
  <2>2. ViewsPositive /\ ProposedByLeader /\ OneProposalPerView /\ NeverStuck
    BY <2>1 DEF ViewsPositive, ProposedByLeader, OneProposalPerView, NeverStuck
  <2>3. NoViewSkipped
    BY <2>1 DEF NoViewSkipped
  <2>4. TimerAfterProposal /\ ChangingView /\ TokenDiscipline
    BY <2>1 DEF TimerAfterProposal, ChangingView, TokenDiscipline, HasProposal,
                Leader
  <2> QED
    BY <2>2, <2>3, <2>4 DEF LocalInv
<1>2. GenuineInTransit
  <2>1. \A s, r \in Replica : net[s][r] \in Seq(Msg) /\ net[s][r] \in Seq(Genuine(r))
    BY DEF Init
  <2> QED
    BY <2>1 DEF Init, GenuineInTransit, GenuineNet, Net
<1>3. NoVoteQueued /\ HeldForLeaderCurrent
  BY DEF Init, NoVoteQueued, HeldForLeaderCurrent
<1> QED
  BY <1>1, <1>2, <1>3 DEF IInv

LEMMA SameGenuine ==
    ASSUME UNCHANGED proposed
    PROVE  (\A r \in Replica : Genuine(r)' = Genuine(r)) /\ GenuineNet' = GenuineNet
<1>1. \A r \in Replica : Genuine(r)' = Genuine(r)
  BY DEF Genuine, IsGenuine
<1> QED
  BY <1>1 DEF GenuineNet

\* A message of a later view that reaches r is not a vote: r would lead that
\* view, and would have been there to propose the block.
LEMMA FutureIsNoVote ==
    ASSUME TypeOK, LocalInv, NEW r \in Replica, NEW m \in Genuine(r),
           m.view > view[r]
    PROVE  m.type \notin VoteType
<1> SUFFICES ASSUME m.type \in VoteType PROVE FALSE
  OBVIOUS
<1>1. m.type # "NewView"
  BY DEF VoteType
<1>2. /\ m.block \in proposed
      /\ m.block.view = m.view
      /\ GetLeaderByView(m.view) = r
  BY <1>1 DEF Genuine, IsGenuine
<1>3. m.block.view <= view[r]
  BY <1>2 DEF LocalInv, ProposedByLeader
<1> QED
  BY <1>2, <1>3 DEF TypeOK, View, Block

LEMMA ReceiveKeepsInv ==
    ASSUME TypeOK, IInv, NEW r \in Replica, NEW s \in Replica, Receive(r, s)
    PROVE  IInv'
<1> DEFINE m == Head(net[s][r])
<1>1. net[s][r] # <<>> /\ Idle(r) /\ UNCHANGED proposed
  BY DEF Receive, ReceiveFuture, ReceiveStale, ReceiveCurrent, HoldCurrent,
         CanReceive, requestVars
<1>2. m \in Genuine(r) /\ Taken(r, s) \in GenuineNet
  BY <1>1, TakenGenuine DEF IInv, GenuineInTransit
<1>3. (\A x \in Replica : Genuine(x)' = Genuine(x)) /\ GenuineNet' = GenuineNet
  BY <1>1, SameGenuine
<1>4. hand[r] = {}
  BY <1>1 DEF Idle
<1> HIDE DEF m
<1>5. ASSUME UNCHANGED <<timer, viewVars>>
      PROVE  LocalInv'
  BY <1>1, <1>5, StayKeepsInv DEF IInv, StaysInView, viewVars
<1>6. CASE ReceiveFuture(r, s)
  <2>1. /\ UNCHANGED <<timer, viewVars, hand>>
        /\ net' = Taken(r, s)
        /\ msgQueue' = [msgQueue EXCEPT ![r] = @ \cup {m}]
        /\ m.view > view[r]
    BY <1>6 DEF ReceiveFuture, Put, m
  <2>2. m.type \notin VoteType
    BY <1>2, <2>1, FutureIsNoVote DEF IInv
  <2>3. GenuineInTransit'
    BY <1>2, <1>3, <2>1 DEF IInv, GenuineInTransit, Shrinks, TypeOK
  <2>4. NoVoteQueued' /\ HeldForLeaderCurrent'
    BY <2>1, <2>2 DEF IInv, NoVoteQueued, HeldForLeaderCurrent, viewVars, TypeOK
  <2> QED
    BY <1>5, <2>1, <2>3, <2>4 DEF IInv
<1>7. CASE ReceiveStale(r, s)
  <2>1. /\ UNCHANGED <<timer, viewVars, hand, msgQueue>>
        /\ net' = Taken(r, s)
    BY <1>7 DEF ReceiveStale
  <2>2. GenuineInTransit'
    BY <1>2, <1>3, <2>1 DEF IInv, GenuineInTransit
  <2>3. NoVoteQueued' /\ HeldForLeaderCurrent'
    BY <2>1 DEF IInv, NoVoteQueued, HeldForLeaderCurrent, viewVars
  <2> QED
    BY <1>5, <2>1, <2>2, <2>3 DEF IInv
<1>8. CASE ReceiveCurrent(r, s)
  <2>1. /\ m.view = view[r]
        /\ Dispatch(r, m, Taken(r, s), msgQueue[r])
        /\ UNCHANGED hand
    BY <1>8 DEF ReceiveCurrent, handVars, m
  <2>2. /\ msgQueue[r] \in SUBSET Genuine(r)
        /\ NoVotes(msgQueue[r])
    BY DEF IInv, GenuineInTransit, NoVoteQueued, NoVotes
  <2>3. /\ LocalInv'
        /\ net' \in GenuineNet
        /\ Shrinks(r, msgQueue[r])
        /\ \A x \in Replica \ {r} : view'[x] = view[x]
    <3> DEFINE n == Taken(r, s)
    <3>1. n \in GenuineNet /\ Dispatch(r, m, n, msgQueue[r])
      BY <1>2, <2>1
    <3>2. LocalInv /\ UNCHANGED proposed
      BY <1>1 DEF IInv
    <3> HIDE DEF n
    <3> QED
      BY <1>2, <2>1, <2>2, <3>1, <3>2, DispatchKeepsInv
  <2>4. GenuineInTransit'
    BY <1>3, <2>1, <2>3 DEF IInv, GenuineInTransit, Shrinks, TypeOK
  <2>5. NoVoteQueued'
    BY <2>3 DEF IInv, NoVoteQueued, NoVotes, Shrinks, TypeOK
  <2>6. HeldForLeaderCurrent'
    BY <1>4, <2>1, <2>3 DEF IInv, HeldForLeaderCurrent
  <2> QED
    BY <2>3, <2>4, <2>5, <2>6 DEF IInv
<1>9. CASE HoldCurrent(r, s)
  <2>1. /\ UNCHANGED <<timer, viewVars, msgQueue>>
        /\ net' = Taken(r, s)
        /\ hand' = [hand EXCEPT ![r] = {m}]
        /\ m.view = view[r]
    BY <1>9 DEF HoldCurrent, m
  <2>2. GenuineInTransit'
    BY <1>2, <1>3, <2>1 DEF IInv, GenuineInTransit, Shrinks, TypeOK
  <2>3. NoVoteQueued' /\ HeldForLeaderCurrent'
    BY <2>1 DEF IInv, NoVoteQueued, HeldForLeaderCurrent, viewVars, TypeOK
  <2> QED
    BY <1>5, <2>1, <2>2, <2>3 DEF IInv
<1> QED
  BY <1>6, <1>7, <1>8, <1>9 DEF Receive

LEMMA ChaseKeepsInv ==
    ASSUME TypeOK, IInv, NEW r \in Replica, Chase(r)
    PROVE  IInv'
<1>1. PICK m \in Last(msgQueue[r], view[r]) :
        Dispatch(r, m, net, Pop(msgQueue[r], view[r], m))
  BY DEF Chase
<1> DEFINE q == Pop(msgQueue[r], view[r], m)
<1>2. m \in msgQueue[r] /\ m.view = view[r] /\ q \subseteq msgQueue[r]
  BY DEF Last, QueuedFor, Pop
<1> HIDE DEF q
<1>3. UNCHANGED <<hand, proposed>>
  BY DEF Chase, requestVars
<1>4. /\ m \in Genuine(r) /\ m.type \notin VoteType
      /\ q \in SUBSET Genuine(r)
      /\ NoVotes(q)
      /\ net \in GenuineNet
  BY <1>2 DEF IInv, GenuineInTransit, NoVoteQueued, NoVotes
<1>5. /\ LocalInv'
      /\ net' \in GenuineNet
      /\ Shrinks(r, q)
      /\ \A x \in Replica \ {r} : view'[x] = view[x]
      /\ Leader(r) = r => view' = view
  <2>1. Dispatch(r, m, net, q)
    BY <1>1 DEF q
  <2> QED
    BY <1>2, <1>3, <1>4, <2>1, DispatchKeepsInv DEF IInv
<1>6. (\A x \in Replica : Genuine(x)' = Genuine(x)) /\ GenuineNet' = GenuineNet
  BY <1>3, SameGenuine
<1>7. GenuineInTransit'
  BY <1>2, <1>3, <1>5, <1>6 DEF IInv, GenuineInTransit, Shrinks, TypeOK
<1>8. NoVoteQueued'
  BY <1>2, <1>5 DEF IInv, NoVoteQueued, NoVotes, Shrinks, TypeOK
<1>9. HeldForLeaderCurrent'
  BY <1>3, <1>5 DEF IInv, HeldForLeaderCurrent, Leader
<1> QED
  BY <1>5, <1>7, <1>8, <1>9 DEF IInv

LEMMA HandleHeldKeepsInv ==
    ASSUME TypeOK, IInv, NEW r \in Replica, HandleHeld(r)
    PROVE  IInv'
<1>1. PICK m \in hand[r] : Dispatch(r, m, net, msgQueue[r])
  BY DEF HandleHeld
<1>2. hand' = [hand EXCEPT ![r] = {}] /\ UNCHANGED proposed
  BY DEF HandleHeld, requestVars
<1>3. /\ m \in Genuine(r)
      /\ GetLeaderByView(m.view) = r => m.view = view[r]
      /\ msgQueue[r] \in SUBSET Genuine(r)
      /\ NoVotes(msgQueue[r])
      /\ net \in GenuineNet
  BY DEF IInv, GenuineInTransit, NoVoteQueued, NoVotes,
         HeldForLeaderCurrent
<1>4. /\ LocalInv'
      /\ net' \in GenuineNet
      /\ Shrinks(r, msgQueue[r])
      /\ \A x \in Replica \ {r} : view'[x] = view[x]
  BY <1>1, <1>2, <1>3, DispatchKeepsInv DEF IInv
<1>5. (\A x \in Replica : Genuine(x)' = Genuine(x)) /\ GenuineNet' = GenuineNet
  BY <1>2, SameGenuine
<1>6. GenuineInTransit'
  BY <1>2, <1>4, <1>5 DEF IInv, GenuineInTransit, Shrinks, TypeOK
<1>7. NoVoteQueued'
  BY <1>4 DEF IInv, NoVoteQueued, NoVotes, Shrinks, TypeOK
<1>8. HeldForLeaderCurrent'
  BY <1>2, <1>4 DEF IInv, HeldForLeaderCurrent, TypeOK
<1> QED
  BY <1>4, <1>6, <1>7, <1>8 DEF IInv

LEMMA TimeoutKeepsInv ==
    ASSUME TypeOK, IInv, NEW r \in Replica, Timeout(r)
    PROVE  IInv'
<1>1. /\ EnterView(r, view[r] + 1, net, msgQueue[r], votes[r], highQC[r])
      /\ timer' = [timer EXCEPT ![r] = FALSE]
      /\ UNCHANGED <<hand, proposed>>
      /\ timer[r] /\ hand[r] = {}
  BY DEF Timeout, Idle, requestVars
<1>2. HasProposal(view[r]) /\ ~holding[r]
  BY <1>1 DEF IInv, LocalInv, TimerAfterProposal, TokenDiscipline
<1>3. /\ msgQueue[r] \in SUBSET Genuine(r)
      /\ NoVotes(msgQueue[r])
      /\ net \in GenuineNet
  BY DEF IInv, GenuineInTransit, NoVoteQueued, NoVotes
<1>4. /\ LocalInv'
      /\ net' \in GenuineNet
      /\ Shrinks(r, msgQueue[r])
  <2>1. LocalInv /\ UNCHANGED proposed
    BY <1>1 DEF IInv
  <2> QED
    BY <1>1, <1>2, <1>3, <2>1, EnterViewKeepsInv
<1>5. (\A x \in Replica : Genuine(x)' = Genuine(x)) /\ GenuineNet' = GenuineNet
  BY <1>1, SameGenuine
<1>6. GenuineInTransit'
  BY <1>1, <1>4, <1>5 DEF IInv, GenuineInTransit, Shrinks, TypeOK
<1>7. NoVoteQueued'
  BY <1>4 DEF IInv, NoVoteQueued, NoVotes, Shrinks, TypeOK
<1>8. HeldForLeaderCurrent'
  BY <1>1 DEF IInv, HeldForLeaderCurrent, EnterView, TypeOK
<1> QED
  BY <1>4, <1>6, <1>7, <1>8 DEF IInv

LEMMA NextInv == TypeOK /\ IInv /\ [Next]_vars => IInv'
<1> SUFFICES ASSUME TypeOK, IInv, [Next]_vars PROVE IInv'
  OBVIOUS
<1>1. ASSUME NEW r \in Replica, HandleReq(r)
      PROVE  IInv'
  <2>1. LocalInv' /\ GenuineInTransit'
    BY <1>1, ProposeKeepsInv DEF IInv
  <2>2. UNCHANGED <<view, hand, msgQueue>>
    BY <1>1 DEF HandleReq, handVars
  <2>3. NoVoteQueued' /\ HeldForLeaderCurrent'
    BY <2>2 DEF IInv, NoVoteQueued, HeldForLeaderCurrent
  <2> QED
    BY <2>1, <2>3 DEF IInv
<1>2. ASSUME UNCHANGED <<timer, viewVars, proposed, handVars, msgQueue>>,
             net' \in GenuineNet
      PROVE  IInv'
  <2>1. (\A x \in Replica : Genuine(x)' = Genuine(x)) /\ GenuineNet' = GenuineNet
    BY <1>2, SameGenuine
  <2>2. LocalInv'
    <3>1. StaysInView(0)
      BY <1>2 DEF StaysInView, viewVars
    <3>2. 0 \in Replica
      BY TotalNumberAssumption DEF Replica
    <3> QED
      BY <3>1, <3>2, StayKeepsInv DEF IInv
  <2>3. GenuineInTransit'
    BY <1>2, <2>1 DEF IInv, GenuineInTransit, handVars
  <2>4. NoVoteQueued' /\ HeldForLeaderCurrent'
    BY <1>2 DEF IInv, NoVoteQueued, HeldForLeaderCurrent, viewVars, handVars
  <2> QED
    BY <2>2, <2>3, <2>4 DEF IInv
<1>3. ASSUME NEW r \in Replica, NEW s \in Replica, Lose(r, s)
      PROVE  IInv'
  <2>1. net' \in GenuineNet
    BY <1>3, TakenGenuine DEF Lose, IInv, GenuineInTransit
  <2> QED
    BY <1>2, <1>3, <2>1 DEF Lose, requestVars
<1>4. CASE UNCHANGED vars
  <2>1. net' \in GenuineNet
    BY <1>4 DEF vars, IInv, GenuineInTransit
  <2> QED
    BY <1>2, <1>4, <2>1 DEF vars, requestVars
<1> QED
  BY <1>1, <1>3, <1>4, ReceiveKeepsInv, ChaseKeepsInv, HandleHeldKeepsInv,
     TimeoutKeepsInv
     DEF Next, HandleMsg

\* The inductive invariant, which the run BasicLossy also checks.
THEOREM InvCorrect == Spec => []Inv
<1>1. Spec => [](TypeOK /\ IInv)
  BY InitType, NextType, InitInv, NextInv, PTL DEF Spec
<1> QED
  BY <1>1, InvByParts, PTL

\* HandleReq has the token only in a view that its replica leads and in which
\* nothing is proposed yet: Ready is never sent twice for a view.
THEOREM TokenDisciplineCorrect == Spec => []TokenDiscipline
BY InvCorrect, PTL DEF Inv

\* A leader proposes at most one block in a view.
THEOREM OneProposalPerViewCorrect == Spec => []OneProposalPerView
BY InvCorrect, PTL DEF Inv

\* A replica leaves a view only after a block was proposed in it.
THEOREM NoViewSkippedCorrect == Spec => []NoViewSkipped
BY InvCorrect, PTL DEF Inv

\* HandleMsg never panics, and never waits for ever for the mutex that it
\* holds or for a token to be taken.
THEOREM NeverStuckCorrect == Spec => []NeverStuck
BY InvCorrect, PTL DEF Inv
=============================================================================
