------------------------- MODULE BasicAgreement_proofs -------------------------
(***************************************************************************)
(* Basic HotStuff keeps the invariant of Safety_proofs, so it implements   *)
(* Agreement, for every number of replicas but six, and it keeps the one   *)
(* of Counting_proofs, so nothing is counted twice.  And what holds as     *)
(* long as no timeout fires: a view is left only with its block executed,  *)
(* so each replica executes the whole chain, whatever messages are lost    *)
(* and whoever is faulty.                                                  *)
(***************************************************************************)
EXTENDS BasicHotStuff_proofs, Counting_proofs

\* A replica reports once per view, when it enters the view.
ReportedOnce ==
    /\ \A m1, m2 \in Reports : m1.from = m2.from /\ m1.view = m2.view => m1 = m2
    /\ \A r \in Replica : \A m \in highQCTmp[r] : m.view = view[r]

Before == TypeOK /\ IInv /\ SafetyInv /\ ReportedOnce

Afterwards == After /\ ReportedOnce'

LEMMA NewViewIsReport == NewViewMsg \subseteq ReportMsg
BY DEF NewViewMsg, ReportMsg

LEMMA TypesForSafety ==
    /\ TypeOK => SafetyTypeOK
    /\ TypeOK' => SafetyTypeOK'
<1>1. TypeOK => SafetyTypeOK
  BY NewViewIsReport DEF TypeOK, SafetyTypeOK
<1>2. TypeOK' => SafetyTypeOK'
  BY NewViewIsReport DEF TypeOK, SafetyTypeOK
<1> QED
  BY <1>1, <1>2

LEMMA BeforeIsSafe ==
    /\ Before => SafeState
    /\ Before' => SafeState'
<1>1. Before => SafeState
  BY TypesForSafety DEF Before, SafeState, IInv, LocalInv
<1>2. Before' => SafeState'
  BY TypesForSafety DEF Before, SafeState, IInv, LocalInv
<1> QED
  BY <1>1, <1>2

\* What is about, or r enters its next view with.
Filed(r, m) == m \in Reports \/ m = NewViewFrom(r, view[r] + 1)

LEMMA FiledOnce ==
    ASSUME Before, NEW r \in Replica, NEW x, NEW y, Filed(r, x), Filed(r, y),
           x.from = y.from, x.view = y.view
    PROVE  x = y
<1>1. ASSUME NEW m \in Reports
      PROVE  ~(m.from = r /\ m.view = view[r] + 1)
  <2>1. m.view <= view[m.from]
    BY DEF Before, SafetyInv, ReportsKnown
  <2>2. view[r] \in Nat
    BY DEF Before, TypeOK, View
  <2> QED
    BY <2>1, <2>2
<1>2. /\ NewViewFrom(r, view[r] + 1).from = r
      /\ NewViewFrom(r, view[r] + 1).view = view[r] + 1
  BY DEF NewViewFrom
<1>3. CASE x \in Reports /\ y \in Reports
  BY <1>3 DEF Before, ReportedOnce
<1> QED
  BY <1>1, <1>2, <1>3 DEF Filed

\* Reports of one view come from different replicas.
LEMMA ReporterQuorum ==
    ASSUME Before, NEW r \in Replica, NEW S, NEW v,
           \A m \in S : Filed(r, m) /\ m.view = v /\ m.from \in Replica
    PROVE  /\ IsFiniteSet(S)
           /\ Cardinality(S) >= QuorumSize => {m.from : m \in S} \in Quorums
<1> DEFINE f == [m \in S |-> m.from]
<1>1. f \in [S -> Replica]
  OBVIOUS
<1>2. \A x, y \in S : x.from = y.from => x = y
  BY FiledOnce
<1>3. f \in Injection(S, Replica)
  BY <1>1, <1>2, Fun_IsInj
<1>4. ASSUME Cardinality(S) >= QuorumSize
      PROVE  {f[m] : m \in S} \in Quorums
  BY <1>1, <1>2, <1>4, SendersAreQuorum
<1> QED
  BY <1>3, <1>4, ReplicasFinite, FS_Injection

LEMMA OnceKept ==
    ASSUME Before, NEW r \in Replica, \A x \in Reports' : Filed(r, x),
           \A d \in Replica : \A x \in highQCTmp'[d] : x.view = view'[d]
    PROVE  ReportedOnce'
BY FiledOnce DEF ReportedOnce

LEMMA StaysReported ==
    ASSUME Before, After, Unreported
    PROVE  Afterwards
BY DEF Before, Afterwards, ReportedOnce, Unreported

-----------------------------------------------------------------------------
(* The messages that a replica handles. *)

\* Replica r handles message m; n and q carry messages that were there.
Handles(r, m, n, q) ==
    /\ m \in Genuine(r)
    /\ m \in Transit
    /\ n \in Net
    /\ q \in SUBSET Msg
    /\ \A x \in Carried(n) : x \in Transit
    /\ \A x \in q : x \in Transit
    /\ GetLeaderByView(m.view) = r => m.view = view[r]
    /\ UNCHANGED <<proposed, clock>>
    /\ \A d \in Replica : \A x \in hand'[d] : x \in Transit

LEMMA NetIsNet == \A n \in Net : IsNet(n)
BY TypesOfBoth DEF IsNet

LEMMA HandledMsg ==
    ASSUME Before, NEW r \in Replica, NEW m, NEW n, NEW q, Handles(r, m, n, q)
    PROVE  /\ Given(n, q) /\ m \in Transit
           /\ m.view \in Nat /\ view[r] \in Nat
           /\ m.type # "NewView" => AboutBlock(r, m)
           /\ m.type = "NewView" => m \in NewViewMsg /\ m.view = view[r] /\ m.view >= 2
<1>1. m \in Msg /\ IsGenuine(r, m)
  BY DEF Handles, Genuine
<1>2. m.type # "NewView" => m \in VoteMsg \cup LeaderMsg
  BY <1>1 DEF Msg, NewViewMsg
<1>3. m.type \in VoteType => GetLeaderByView(m.view) = r
  BY <1>1 DEF IsGenuine, VoteType
<1>4. m.type # "NewView" => AboutBlock(r, m)
  BY <1>1, <1>2, <1>3 DEF AboutBlock, Handles, IsGenuine
<1>5. Given(n, q)
  BY NetIsNet DEF Handles, Given
<1> QED
  BY <1>1, <1>4, <1>5, MsgFields DEF IsGenuine, Handles, Before, TypeOK, View

-----------------------------------------------------------------------------
(* The handlers that leave the view, and the new-view messages. *)

\* r enters the next view, after it has sent the messages of new0 and counted
\* the votes of recs.
Enters(r, n, q, new0, recs, vs, hqc) ==
    /\ n \in Net
    /\ q \in SUBSET Msg
    /\ \A x \in Carried(n) : x \in Transit \/ x \in new0
    /\ \A x \in q : x \in Transit
    /\ \A x \in vs : x \in votes[r] \/ x \in recs
    /\ \A x \in recs : \E b \in proposed : b.hash = x.hash
    /\ \A x \in new0 : x.type \notin {"NewView", "TimeoutVote"}
    /\ \A d \in Replica : \A x \in hand'[d] : x \in Transit
    /\ EnterView(r, view[r] + 1, n, q, vs, hqc)
    /\ UNCHANGED <<prepareQC, preCommitQC, proposed, clock>>
    /\ \A s \in Replica \ {r} : executed'[s] = executed[s]

LEMMA EnterKeepsSafety ==
    ASSUME TotalNumber # 6, Before, TypeOK', LocalInv', NEW r \in Replica,
           NEW n, NEW q, NEW new0, NEW recs, NEW vs, NEW hqc,
           Enters(r, n, q, new0, recs, vs, hqc),
           ExecStep(r), MsgStep(r, new0),
           VoteStep(r, new0, recs), LockStep(r, new0, recs)
    PROVE  Afterwards
<1> DEFINE v == view[r] + 1
           own == NewViewFrom(r, v)
           queued == QueuedFor(q, v)
           new == new0 \cup {own}
<1>1. /\ view[r] \in Nat /\ view[r] >= 1 /\ v \in View /\ v >= 2
      /\ view' = [view EXCEPT ![r] = v]
      /\ view'[r] = v
  BY DEF Enters, EnterView, Before, TypeOK, View, IInv, LocalInv, ViewsPositive
<1>2. own \in Msg /\ own.type = "NewView"
  BY <1>1, NewViewFromType DEF Before, TypeOK, HandlerTypeOK, Net, NewViewFrom
<1>3. Fresh(own) /\ own.view = v
  <2>1. own \in ReportMsg
    BY <1>2, MsgFields, NewViewIsReport
  <2> QED
    BY <1>1, <2>1 DEF Fresh, NewViewFrom
<1>4. /\ \A x \in Carried(net') : x \in Transit \/ x \in new
      /\ \A d \in Replica \ {r} : msgQueue'[d] = msgQueue[d]
      /\ \A x \in msgQueue'[r] : x \in q
      /\ \A s \in Replica \ {r} : /\ highQC'[s] = highQC[s]
                                  /\ highQCTmp'[s] = highQCTmp[s]
                                  /\ viewChanged'[s] = viewChanged[s]
                                  /\ votes'[s] = votes[s]
      /\ \A x \in votes'[r] : x \in vs
      /\ \A x \in highQCTmp'[r] : x \in queued \/ x = own
      /\ viewChanged'[r] => \E s \in SUBSET queued :
            /\ Cardinality(s) = QuorumSize - 1
            /\ \A m \in s : m.type = "NewView"
            /\ highQC'[r] \in HighestQCs(prepareQC[r], {m.qc : m \in s \cup {own}})
  <2> HIDE DEF v, own, queued
  <2>1. CASE /\ net' = Unicast(n, r, GetLeaderByView(v), own)
             /\ msgQueue' = [msgQueue EXCEPT ![r] = q]
             /\ AwaitNewViews(r, {}, vs, hqc)
    <3>1. \A x \in Carried(net') : x \in Carried(n) \/ x = own
      BY <1>1, <1>2, <2>1, LeaderIsReplica, UnicastCarried, NetIsNet DEF Enters
    <3> QED
      BY <2>1, <3>1 DEF Enters, AwaitNewViews, Before, TypeOK
  <2>2. CASE /\ net' = n
             /\ msgQueue' = [msgQueue EXCEPT
                                ![r] = IF Pending(q, v) THEN PopAll(q, v) ELSE q]
             /\ CollectNewViews(r, v, q, vs, hqc)
    <3>1. /\ \A x \in Carried(net') : x \in Transit \/ x \in new
          /\ \A d \in Replica \ {r} : msgQueue'[d] = msgQueue[d]
          /\ \A x \in msgQueue'[r] : x \in q
      BY <2>2 DEF Enters, PopAll, Before, TypeOK
    <3>2. CASE AwaitNewViews(r, queued \cup {own}, vs, hqc)
      BY <3>1, <3>2 DEF AwaitNewViews, Before, TypeOK
    <3>3. ASSUME NEW s \in SUBSET queued,
                 \A m \in queued : m.type = "NewView",
                 Cardinality(s) = QuorumSize - 1,
                 ProcessNewView(r, s \cup {own})
          PROVE  /\ \A d \in Replica \ {r} : /\ highQC'[d] = highQC[d]
                                             /\ highQCTmp'[d] = highQCTmp[d]
                                             /\ viewChanged'[d] = viewChanged[d]
                                             /\ votes'[d] = votes[d]
                 /\ votes'[r] = {} /\ highQCTmp'[r] = {}
                 /\ highQC'[r] \in HighestQCs(prepareQC[r], {m.qc : m \in s \cup {own}})
      BY <3>3 DEF ProcessNewView, Before, TypeOK
    <3>4. status' # [status EXCEPT ![r] = "blocked"]
      BY DEF LocalInv, NeverStuck, Before, TypeOK
    <3> QED
      BY <2>2, <3>1, <3>2, <3>3, <3>4 DEF CollectNewViews, queued, own
  <2> QED
    BY <2>1, <2>2 DEF Enters, EnterView, v, own
<1> HIDE DEF v, own, queued
<1>5. Touches(r, new, recs)
  <2>1. \A d \in Replica : \A x \in msgQueue'[d] : x \in Transit \/ x \in new
    BY <1>4, TransitParts DEF Enters
  <2>2. \A d \in Replica : \A x \in hand'[d] : x \in Transit \/ x \in new
    BY DEF Enters
  <2> HIDE DEF new
  <2>3. \A x \in Transit' : x \in Transit \/ x \in new
    BY <1>4, <2>1, <2>2, TransitAfter
  <2> QED
    BY <1>1, <1>4, <2>3 DEF Touches, Enters, Before, TypeOK
<1>6. CertStep(r)
  <2>1. view'[r] >= view[r] /\ view'[r] # 1
    BY <1>1 DEF v
  <2> QED
    BY <2>1 DEF CertStep, Enters
<1>7. \A x \in queued : x \in Transit /\ x.view = v
  BY DEF queued, QueuedFor, Enters
<1>8. ReportStep(r, new) /\ ReportedOnce'
  <2>1. ASSUME NEW x \in highQCTmp'[r]
        PROVE  Reported(x) /\ Filed(r, x) /\ x.view = view'[r]
    <3>1. x \in ReportMsg
      BY TypesForSafety DEF SafetyTypeOK
    <3> QED
      BY <1>1, <1>3, <1>4, <1>7, <3>1 DEF Reported, Reports, Filed, own, v
  <2>2. \A x \in new0 : x \notin ReportMsg
    BY DEF Enters, ReportMsg
  <2>3. \A x \in new : x \in ReportMsg => Fresh(x)
    BY <1>3, <2>2
  <2>4. ReportedOnce'
    <3>1. ASSUME NEW x \in Reports' PROVE Filed(r, x)
      <4>1. CASE x \in Transit' /\ x \in ReportMsg
        BY <1>5, <2>2, <4>1 DEF Touches, Filed, Reports, own, v
      <4>2. CASE \E d \in Replica \ {r} : x \in highQCTmp'[d]
        BY <1>4, <4>2 DEF Filed, Reports
      <4> QED
        BY <2>1, <4>1, <4>2 DEF Reports
    <3>2. \A d \in Replica : \A x \in highQCTmp'[d] : x.view = view'[d]
      BY <1>4, <1>5, <2>1 DEF Touches, Before, ReportedOnce
    <3> QED
      BY <3>1, <3>2, OnceKept
  <2> QED
    BY <2>1, <2>3, <2>4 DEF ReportStep
<1>9. PickStep(r)
  <2> SUFFICES ASSUME viewChanged'[r], GetLeaderByView(v) = r
               PROVE  PickedFrom(<<v, highQC'[r]>>)
    BY <1>1 DEF PickStep
  <2>1. PICK s \in SUBSET queued :
            /\ Cardinality(s) = QuorumSize - 1
            /\ \A m \in s : m.type = "NewView"
            /\ highQC'[r] \in HighestQCs(prepareQC[r], {m.qc : m \in s \cup {own}})
    BY <1>4
  <2> DEFINE S == s \cup {own}
  <2>2. ASSUME NEW m \in s PROVE m \in Reports /\ m.view = v
    <3>1. m \in Msg /\ m.type = "NewView"
      BY <2>1 DEF queued, QueuedFor, Enters
    <3>2. m \in ReportMsg
      BY <3>1, MsgFields, NewViewIsReport
    <3> QED
      BY <1>7, <3>2 DEF Reports
  <2>3. \A m \in S : Reported(m) /\ Filed(r, m) /\ m.view = v
    BY <1>3, <2>2 DEF Reported, Filed, own, v
  <2>4. \A m \in S : m.from \in Replica
    BY <2>3, ReportTypes, TypesForSafety DEF Before
  <2>5. own \notin s
    <3>1. own.from = r /\ own.view = v
      BY <1>3 DEF own, NewViewFrom
    <3>2. \A m \in s : m.view <= view[m.from]
      BY <2>2 DEF Before, SafetyInv, ReportsKnown
    <3>3. ~(v <= view[r])
      BY <1>1 DEF v
    <3> QED
      BY <3>1, <3>2, <3>3
  <2>6. {m.from : m \in S} \in Quorums
    <3>1. IsFiniteSet(s)
      BY <2>3, <2>4, ReporterQuorum
    <3>2. Cardinality(S) = Cardinality(s) + 1
      BY <2>5, <3>1, FS_AddElement
    <3>3. Cardinality(S) >= QuorumSize
      BY <2>1, <3>2, QuorumIsNat
    <3> HIDE DEF S
    <3> QED
      BY <2>3, <2>4, <3>3, ReporterQuorum
  <2>7. prepareQC[r] \in Certs /\ prepareQC[r].view <= v
    <3>1. /\ prepareQC[r] \in Certs /\ prepareQC[r].view \in Nat
          /\ prepareQC[r].view <= view[r]
      BY DEF Before, SafetyInv, CertsKnown, TypeOK, QuorumCert, View
    <3> QED
      BY <1>1, <3>1 DEF v
  <2>8. ~HasProposal(v)
    <3>1. ASSUME NEW b \in proposed PROVE b.view # v
      BY <1>1 DEF Before, IInv, LocalInv, ProposedByLeader, v
    <3> QED
      BY <3>1 DEF HasProposal
  <2>9. SafeState
    BY BeforeIsSafe
  <2> HIDE DEF S
  <2>10. \A s0 \in {m.from : m \in S} : \E m \in S : m.from = s0
    OBVIOUS
  <2>11. \A m \in S : Reported(m) /\ m.view = v
    BY <2>3
  <2>12. highQC'[r] \in HighestQCs(prepareQC[r], {m.qc : m \in S})
    BY <2>1 DEF S
  <2>13. v \in View /\ v >= 2
    BY <1>1
  <2> QED
    BY <2>6, <2>7, <2>8, <2>9, <2>10, <2>11, <2>12, <2>13, Picked
<1>10. MsgStep(r, new)
  BY <1>2 DEF MsgStep
<1>11. \A type, s, w : type # "NewView" /\ NewVote(new, recs, type, s, w) =>
                          NewVote(new0, recs, type, s, w)
  BY <1>2 DEF NewVote
<1>12. VoteStep(r, new, recs)
  BY <1>11 DEF VoteStep
<1>13. LockStep(r, new, recs)
  <2>1. /\ \A w : (\E x \in new : x.type \in {"Commit", "Decide"} /\ x.view = w) =>
                     \E x \in new0 : x.type \in {"Commit", "Decide"} /\ x.view = w
        /\ \A w : (\E x \in new : x.type = "Decide" /\ x.view = w) =>
                     \E x \in new0 : x.type = "Decide" /\ x.view = w
    BY <1>2
  <2>2. \A s, w : NewVote(new, recs, "CommitVote", s, w) =>
                      NewVote(new0, recs, "CommitVote", s, w)
    BY <1>11
  <2> HIDE DEF new
  <2> QED
    BY <2>1, <2>2 DEF LockStep
<1> QED
  <2>1. SafetyTypeOK /\ SafetyTypeOK' /\ ViewsPositive /\ SafetyInv
    BY TypesForSafety DEF Before, IInv, LocalInv
  <2>2. After
    BY <1>5, <1>6, <1>8, <1>9, <1>10, <1>12, <1>13, <2>1, TouchedKeepsSafety
  <2> QED
    BY <1>8, <2>2 DEF Afterwards

LEMMA TimeoutKeepsSafety ==
    ASSUME TotalNumber # 6, Before, TypeOK', LocalInv', NEW r \in Replica,
           Timeout(r)
    PROVE  Afterwards
<1>1. /\ EnterView(r, view[r] + 1, net, msgQueue[r], votes[r], highQC[r])
      /\ UNCHANGED <<prepareQC, preCommitQC, proposed, clock, executed, hand>>
  BY DEF Timeout, chainVars, requestVars
<1>2. Enters(r, net, msgQueue[r], {}, {}, votes[r], highQC[r])
  <2>1. net \in Net /\ msgQueue[r] \in SUBSET Msg
    BY DEF Before, TypeOK, Net
  <2> QED
    BY <1>1, <2>1, TransitParts DEF Enters
<1>3. /\ ExecStep(r) /\ MsgStep(r, {})
      /\ VoteStep(r, {}, {}) /\ LockStep(r, {}, {})
  <2>1. SafeState /\ UNCHANGED <<executed, preCommitQC>>
    BY <1>1, BeforeIsSafe
  <2> QED
    BY <2>1, NoBlockSteps
<1> QED
  BY <1>2, <1>3, EnterKeepsSafety

\* A leader executes its block.
LEMMA DecideKeepsSafety ==
    ASSUME TotalNumber # 6, Before, TypeOK', LocalInv', NEW r \in Replica,
           NEW m, NEW n, NEW q, Handles(r, m, n, q),
           m.type = "CommitVote", IsFresh(r, m), HasQuorum(r, m),
           Execute(r, m.block),
           EnterView(r, view[r] + 1, Multicast(n, r, DecideMsg(r, m.block)),
                     q, LeftVotes(r, m), highQC[r]),
           UNCHANGED <<prepareQC, preCommitQC>>
    PROVE  Afterwards
<1> DEFINE x == DecideMsg(r, m.block)
           p == Multicast(n, r, x)
           recs == {OwnVote(m.from, m.type, m.block)}
<1>1. /\ AboutBlock(r, m) /\ SafeState
      /\ view'[r] = view[r] + 1
  BY HandledMsg, BeforeIsSafe DEF EnterView, Before, TypeOK
<1>2. /\ ExecStep(r) /\ MsgStep(r, {x})
      /\ VoteStep(r, {x}, recs) /\ LockStep(r, {x}, recs)
      /\ \A y \in recs : \E b \in proposed : b.hash = y.hash
      /\ \A y \in LeftVotes(r, m) : y \in votes[r] \/ y \in recs
      /\ \A s \in Replica \ {r} : executed'[s] = executed[s]
      /\ x.type = "Decide"
  BY <1>1, DecideSteps
<1>3. x \in Msg
  <2>1. /\ view[r] \in View /\ m.block \in Block
        /\ CreateQuorumCert(m.block) \in QuorumCert
    BY <1>1, BlockOfMsg, QuorumCertType DEF SafeState
  <2> QED
    BY <2>1, PhaseMsgType DEF DecideMsg, LeaderType
<1>4. p \in Net /\ \A y \in Carried(p) : y \in Transit \/ y \in {x}
  BY <1>3, MulticastType, MulticastCarried, NetIsNet DEF Handles
<1>5. EnterView(r, view[r] + 1, p, q, LeftVotes(r, m), highQC[r])
  OBVIOUS
<1> HIDE DEF x, p, recs
<1>6. Enters(r, p, q, {x}, recs, LeftVotes(r, m), highQC[r])
  BY <1>2, <1>4, <1>5 DEF Enters, Handles
<1> QED
  BY <1>2, <1>6, EnterKeepsSafety

\* A follower executes a decided block.
LEMMA LearnKeepsSafety ==
    ASSUME TotalNumber # 6, Before, TypeOK', LocalInv', NEW r \in Replica,
           NEW m, NEW n, NEW q, Handles(r, m, n, q),
           m.type = "Decide", MatchingMsg(r, m),
           Execute(r, m.block), EnterView(r, m.view + 1, n, q, votes[r], m.qc),
           UNCHANGED <<prepareQC, preCommitQC>>
    PROVE  Afterwards
<1>1. /\ AboutBlock(r, m) /\ SafeState
      /\ m.view = view[r] /\ view'[r] = view[r] + 1
  BY HandledMsg, BeforeIsSafe DEF EnterView, MatchingMsg, Before, TypeOK
<1>2. /\ ExecStep(r) /\ MsgStep(r, {})
      /\ VoteStep(r, {}, {}) /\ LockStep(r, {}, {})
      /\ \A s \in Replica \ {r} : executed'[s] = executed[s]
  BY <1>1, LearnSteps
<1>3. Enters(r, n, q, {}, {}, votes[r], m.qc)
  BY <1>1, <1>2 DEF Enters, Handles
<1> QED
  BY <1>2, <1>3, EnterKeepsSafety

\* A leader collects a new-view message.
LEMMA CollectKeepsSafety ==
    ASSUME TotalNumber # 6, Before, TypeOK', LocalInv', NEW r \in Replica,
           NEW m, NEW n, NEW q, Handles(r, m, n, q),
           m.type = "NewView", OnReceiveNewView(r, m, n, q)
    PROVE  Afterwards
<1> DEFINE newViews == highQCTmp[r] \cup {m}
<1>0. SafeState /\ SafetyTypeOK' /\ Given(n, q)
  BY BeforeIsSafe, TypesForSafety, HandledMsg
<1>1. CASE Ignore(r, n, q)
  BY <1>0, <1>1, IgnoreKeepsSafety, StaysReported
<1>2. CASE /\ ~viewChanged[r]
           /\ \/ AwaitNewViews(r, newViews, votes[r], highQC[r])
              \/ /\ ~(Cardinality(newViews) < QuorumSize)
                 /\ ProcessNewView(r, newViews)
           /\ net' = n
           /\ msgQueue' = [msgQueue EXCEPT ![r] = q]
           /\ UNCHANGED <<prepareQC, preCommitQC, timer, finishedVotes, view,
                          chainVars>>
  <2>1. /\ m.view = view[r] /\ m.view >= 2 /\ GetLeaderByView(m.view) = r
        /\ m \in Reports /\ m \in NewViewMsg
        /\ view[r] \in View
    <3>1. m.view = view[r] /\ m.view >= 2 /\ m \in NewViewMsg
      BY HandledMsg DEF Before
    <3>2. GetLeaderByView(m.view) = r /\ m \in Transit
      BY DEF Handles, Genuine, IsGenuine
    <3>3. m \in ReportMsg
      BY <3>1, NewViewIsReport
    <3> QED
      BY <3>1, <3>2, <3>3 DEF Reports, Before, TypeOK
  <2>2. \A x \in newViews : /\ x \in Reports /\ x.view = view[r]
                            /\ Reported(x) /\ Filed(r, x)
    BY <2>1 DEF Reported, Reports, Filed, Before, ReportedOnce
  <2>3. UNCHANGED <<executed, view, prepareQC, preCommitQC>>
    BY <1>2 DEF chainVars
  <2>4. /\ \A s \in Replica \ {r} : /\ highQC'[s] = highQC[s]
                                    /\ highQCTmp'[s] = highQCTmp[s]
                                    /\ viewChanged'[s] = viewChanged[s]
                                    /\ votes'[s] = votes[s]
        /\ \A x \in votes'[r] : x \in votes[r]
        /\ \A x \in highQCTmp'[r] : x \in newViews
    <3> HIDE DEF newViews
    <3>1. CASE AwaitNewViews(r, newViews, votes[r], highQC[r])
      BY <3>1 DEF AwaitNewViews, Before, TypeOK
    <3>2. CASE ProcessNewView(r, newViews)
      BY <3>2 DEF ProcessNewView, Before, TypeOK
    <3> QED
      BY <1>2, <3>1, <3>2
  <2>5. Touches(r, {}, {})
    <3>1. \A x \in Carried(net') : x \in Transit \/ x \in {}
      BY <1>2 DEF Handles
    <3>2. \A d \in Replica : \A x \in msgQueue'[d] : x \in Transit \/ x \in {}
      BY <1>2, TransitParts DEF Handles, Before, TypeOK
    <3>3. \A d \in Replica : \A x \in hand'[d] : x \in Transit \/ x \in {}
      BY DEF Handles
    <3>4. \A x \in Transit' : x \in Transit \/ x \in {}
      BY <3>1, <3>2, <3>3, TransitAfter
    <3> QED
      BY <2>3, <2>4, <3>4 DEF Touches, Handles
  <2>6. CertStep(r)
    <3>1. view'[r] >= view[r] /\ view'[r] # 1
      BY <2>1, <2>3 DEF View
    <3> QED
      BY <2>3, <3>1 DEF CertStep
  <2>7. ReportStep(r, {}) /\ ReportedOnce'
    <3>1. ASSUME NEW x \in Reports' PROVE Filed(r, x)
      BY <2>2, <2>4, <2>5 DEF Touches, Filed, Reports
    <3>2. \A d \in Replica : \A x \in highQCTmp'[d] : x.view = view'[d]
      BY <2>2, <2>3, <2>4 DEF Before, ReportedOnce
    <3> HIDE DEF newViews
    <3> QED
      BY <2>2, <2>4, <3>1, <3>2, OnceKept DEF ReportStep
  <2>8. PickStep(r)
    <3>1. CASE AwaitNewViews(r, newViews, votes[r], highQC[r])
      <4>1. ~viewChanged'[r]
        BY <3>1 DEF AwaitNewViews, Before, TypeOK
      <4> QED
        BY <4>1 DEF PickStep
    <3>2. CASE /\ ~(Cardinality(newViews) < QuorumSize)
               /\ ProcessNewView(r, newViews)
      <4>1. highQC'[r] \in HighestQCs(prepareQC[r], {x.qc : x \in newViews})
        BY <3>2 DEF ProcessNewView, Before, TypeOK
      <4>2. Cardinality(newViews) >= QuorumSize
        <5>1. Cardinality(newViews) \in Nat
          <6>1. \A x \in newViews : x.from \in Replica
            BY <1>0, <2>2, ReportTypes DEF SafeState
          <6> HIDE DEF newViews
          <6> QED
            BY <2>2, <6>1, ReporterQuorum, FS_CardinalityType
        <5> QED
          BY <3>2, <5>1, QuorumIsNat
      <4>3. ~HasProposal(view[r])
        BY <1>2, <2>1 DEF Before, IInv, LocalInv, ChangingView, Leader
      <4>4. prepareQC[r] \in Certs /\ prepareQC[r].view <= view[r]
        BY DEF Before, SafetyInv, CertsKnown
      <4> HIDE DEF newViews
      <4>5. \A x \in newViews : Reported(x) /\ x.view = view[r] /\ Filed(r, x)
        BY <2>2
      <4>6. \A x \in newViews : x.from \in Replica
        BY <1>0, <4>5, ReportTypes DEF SafeState
      <4>7. {x.from : x \in newViews} \in Quorums
        BY <4>2, <4>5, <4>6, ReporterQuorum
      <4>8. \A s0 \in {x.from : x \in newViews} : \E x \in newViews : x.from = s0
        OBVIOUS
      <4>9. \A x \in newViews : Reported(x) /\ x.view = view[r]
        BY <4>5
      <4>10. view[r] \in View /\ view[r] >= 2
        BY <2>1
      <4>11. PickedFrom(<<view[r], highQC'[r]>>)
        BY <1>0, <4>1, <4>3, <4>4, <4>7, <4>8, <4>9, <4>10, Picked
      <4> QED
        BY <2>3, <4>11 DEF PickStep
    <3> QED
      BY <1>2, <3>1, <3>2
  <2>9. /\ ExecStep(r) /\ MsgStep(r, {})
        /\ VoteStep(r, {}, {}) /\ LockStep(r, {}, {})
    BY <1>0, <2>3, NoBlockSteps
  <2>10. After
    BY <1>0, <2>5, <2>6, <2>7, <2>8, <2>9, TouchedKeepsSafety DEF SafeState
  <2> QED
    BY <2>7, <2>10 DEF Afterwards
<1> QED
  BY <1>1, <1>2 DEF OnReceiveNewView

\* Every handler keeps the invariant.
LEMMA DispatchKeepsSafety ==
    ASSUME TotalNumber # 6, Before, TypeOK', LocalInv', NEW r \in Replica,
           NEW m, NEW n, NEW q, Handles(r, m, n, q), Dispatch(r, m, n, q)
    PROVE  Afterwards
<1>1. SafeState /\ SafetyTypeOK' /\ Given(n, q)
  BY BeforeIsSafe, TypesForSafety, HandledMsg
<1>2. CASE Ignore(r, n, q) \/ Panic(r, n, q)
  BY <1>1, <1>2, IgnoreKeepsSafety, StaysReported
<1>3. CASE \/ m.type = "Prepare" /\ OnReceivePrepare(r, m, n, q)
           \/ m.type = "PrepareVote" /\ OnReceivePrepareVote(r, m, n, q)
           \/ m.type = "PreCommit" /\ OnReceivePreCommit(r, m, n, q)
           \/ m.type = "PreCommitVote" /\ OnReceivePreCommitVote(r, m, n, q)
           \/ m.type = "Commit" /\ OnReceiveCommit(r, m, n, q)
  <2>1. AboutBlock(r, m)
    BY <1>3, HandledMsg
  <2> QED
    BY <1>1, <1>3, <2>1, PhaseKeepsSafety, StaysReported
<1>4. CASE m.type = "CommitVote" /\ OnReceiveCommitVote(r, m, n, q)
  <2>1. CASE StoreVote(r, m, n, q)
    <3>1. AboutBlock(r, m) /\ m.type \in VoteType
      BY <1>4, HandledMsg DEF VoteType
    <3> QED
      BY <1>1, <2>1, <3>1, StoreVoteKeepsSafety, StaysReported
  <2> QED
    BY <1>2, <1>4, <2>1, DecideKeepsSafety DEF OnReceiveCommitVote, DecideMsg
<1>5. CASE m.type = "Decide" /\ OnReceiveDecide(r, m, n, q)
  BY <1>2, <1>5, LearnKeepsSafety DEF OnReceiveDecide, AcceptQC
<1>6. CASE m.type = "NewView" /\ OnReceiveNewView(r, m, n, q)
  BY <1>6, CollectKeepsSafety
<1> QED
  BY <1>3, <1>4, <1>5, <1>6 DEF Dispatch

-----------------------------------------------------------------------------
(* Every step. *)

\* A message is handled.
Handled == \E r \in Replica : \E m, n, q : Handles(r, m, n, q) /\ Dispatch(r, m, n, q)

LEMMA AsideKept ==
    ASSUME Before, NEW r \in Replica, NEW s \in Replica,
           \/ ReceiveFuture(r, s) \/ ReceiveStale(r, s) \/ HoldCurrent(r, s)
           \/ Lose(r, s) \/ UNCHANGED vars
    PROVE  Quiet
<1>1. SafetyTypeOK /\ IsNet(net) /\ DOMAIN hand = Replica
  BY TypesForSafety, NetIsNet DEF Before, TypeOK, Net
<1> QED
  BY <1>1, AsideIsQuiet

LEMMA ReceiveHandles ==
    ASSUME Before, NEW r \in Replica, NEW s \in Replica, Receive(r, s)
    PROVE  Handled \/ Quiet
<1> DEFINE m == Head(net[s][r])
           n == Taken(r, s)
<1>1. net[s][r] # <<>> /\ UNCHANGED <<proposed, clock>>
  BY DEF Receive, ReceiveFuture, ReceiveStale, ReceiveCurrent, HoldCurrent,
         CanReceive, requestVars
<1>2. /\ m \in Transit
      /\ \A x \in Carried(n) : x \in Transit
      /\ n \in Net
      /\ m \in Genuine(r)
  <2>1. net \in Net /\ net \in GenuineNet
    BY DEF Before, TypeOK, Net, IInv, GenuineInTransit
  <2>2. m \in Genuine(r) /\ n \in GenuineNet
    BY <1>1, <2>1, TakenGenuine
  <2> QED
    BY <1>1, <2>1, <2>2, NetIsNet, TakenCarried, TransitParts DEF GenuineNet
<1> HIDE DEF m, n
<1>3. CASE ReceiveCurrent(r, s)
  <2>1. /\ m.view = view[r]
        /\ Dispatch(r, m, n, msgQueue[r])
        /\ UNCHANGED hand
    BY <1>3 DEF ReceiveCurrent, handVars, m, n
  <2>2. Handles(r, m, n, msgQueue[r])
    BY <1>1, <1>2, <2>1, TransitParts DEF Handles, Before, TypeOK
  <2> QED
    BY <2>1, <2>2 DEF Handled
<1>4. CASE ReceiveFuture(r, s) \/ ReceiveStale(r, s) \/ HoldCurrent(r, s)
  BY <1>4, AsideKept
<1> QED
  BY <1>3, <1>4 DEF Receive

\* Every step handles a message, times out, proposes, or is quiet.
LEMMA NextHandles ==
    ASSUME Before, [Next]_vars
    PROVE  \/ Handled \/ Quiet
           \/ \E r \in Replica : Timeout(r) \/ HandleReq(r)
<1>1. ASSUME NEW r \in Replica, Chase(r) PROVE Handled
  <2>1. PICK m \in Last(msgQueue[r], view[r]) :
          Dispatch(r, m, net, Pop(msgQueue[r], view[r], m))
    BY <1>1 DEF Chase
  <2> DEFINE q == Pop(msgQueue[r], view[r], m)
  <2>2. m \in msgQueue[r] /\ m.view = view[r] /\ q \subseteq msgQueue[r]
    BY DEF Last, QueuedFor, Pop
  <2> HIDE DEF q
  <2>3. UNCHANGED <<hand, proposed, clock>>
    BY <1>1 DEF Chase, requestVars
  <2>4. Handles(r, m, net, q)
    BY <2>2, <2>3, TransitParts
       DEF Handles, Before, TypeOK, Net, IInv, GenuineInTransit
  <2> QED
    BY <2>1, <2>4 DEF q, Handled
<1>2. ASSUME NEW r \in Replica, HandleHeld(r) PROVE Handled
  <2>1. PICK m \in hand[r] : Dispatch(r, m, net, msgQueue[r])
    BY <1>2 DEF HandleHeld
  <2>2. hand' = [hand EXCEPT ![r] = {}] /\ UNCHANGED <<proposed, clock>>
    BY <1>2 DEF HandleHeld, requestVars
  <2>3. \A d \in Replica : \A x \in hand'[d] : x \in Transit
    BY <2>2, TransitParts DEF Before, TypeOK
  <2>4. Handles(r, m, net, msgQueue[r])
    BY <2>2, <2>3, TransitParts
       DEF Handles, Before, TypeOK, Net, IInv, GenuineInTransit,
           HeldForLeaderCurrent
  <2> QED
    BY <2>1, <2>4 DEF Handled
<1>3. ASSUME NEW r \in Replica, NEW s \in Replica, Lose(r, s) PROVE Quiet
  BY <1>3, AsideKept
<1>4. CASE UNCHANGED vars
  <2>1. 0 \in Replica
    BY TotalNumberAssumption DEF Replica
  <2> QED
    BY <1>4, <2>1, AsideKept
<1> QED
  BY <1>1, <1>2, <1>3, <1>4, ReceiveHandles DEF Next, HandleMsg

LEMMA NextSafety ==
    ASSUME TotalNumber # 6, Before, TypeOK', LocalInv', [Next]_vars
    PROVE  Afterwards
<1>1. SafeState /\ SafetyTypeOK' /\ IsNet(net)
  BY BeforeIsSafe, TypesForSafety, NetIsNet DEF Before, TypeOK, Net
<1>2. CASE Quiet
  BY <1>1, <1>2, QuietKeepsSafety, StaysReported DEF SafeState
<1>3. CASE Handled
  BY <1>3, DispatchKeepsSafety DEF Handled
<1>4. ASSUME NEW r \in Replica, HandleReq(r)
      PROVE  Afterwards
  <2>1. view[r] >= 2 => viewChanged[r]
    BY <1>4 DEF Before, IInv, LocalInv, ChangingView, TokenDiscipline, HandleReq
  <2> QED
    BY <1>1, <1>4, <2>1, ProposeKeepsSafety, StaysReported
<1> QED
  BY <1>2, <1>3, <1>4, NextHandles, TimeoutKeepsSafety

LEMMA InitReported == Init => ReportedOnce
BY InitEmpty DEF ReportedOnce, Reports, Init

\* The invariant behind agreement.  With six replicas CalQuorumSize asks for
\* three of them, two quorums may have no replica in common, and agreement is
\* lost: the run SixReplicas shows it.
THEOREM SafetyInvCorrect ==
    ASSUME TotalNumber # 6
    PROVE  Spec => []Before
<1>1. Before /\ [Next]_vars => Before'
  BY NextType, NextInv, NextSafety DEF Before, Afterwards, After, IInv
<1>2. Init => Before
  BY InitType, InitInv, InitSafety, InitReported DEF Before
<1> QED
  BY <1>1, <1>2, PTL DEF Spec

\* Agreement.  Of any two blocks that replicas execute one extends the other.
THEOREM ConsistencyCorrect ==
    ASSUME TotalNumber # 6
    PROVE  Spec => []Consistency
BY SafetyInvCorrect, SafetyGivesConsistency, BeforeIsSafe, PTL

\* SafeNode does not compare the certificate of a proposal with the lock, but
\* no leader proposes a block that it would have to refuse.
THEOREM ProposalsExtendLocksCorrect ==
    ASSUME TotalNumber # 6
    PROVE  Spec => []ProposalsExtendLocks
BY SafetyInvCorrect, SafetyGivesExtension, BeforeIsSafe, PTL

\* What is executed is locked by a quorum.
THEOREM ExecutedIsLockedCorrect ==
    ASSUME TotalNumber # 6
    PROVE  Spec => []ExecutedIsLocked
BY SafetyInvCorrect, SafetyGivesLocks, BeforeIsSafe, PTL

-----------------------------------------------------------------------------
(* Certificates never regress. *)

\* A new HighQC comes from a view change, or with the decision of the view
\* before.
HighEffect ==
    \A r \in Replica : highQC'[r] # highQC[r] =>
        /\ UNCHANGED preCommitQC
        /\ \/ viewChanged'[r] /\ GetLeaderByView(view'[r]) = r
           \/ highQC'[r].view + 1 = view'[r]

LEMMA ProcessNewViewHigh ==
    ASSUME TypeOK, NEW r \in Replica, NEW newViews, ProcessNewView(r, newViews),
           UNCHANGED preCommitQC, GetLeaderByView(view'[r]) = r
    PROVE  HighEffect
BY DEF ProcessNewView, HighEffect, TypeOK

LEMMA EnterViewHigh ==
    ASSUME TypeOK, NEW r \in Replica, NEW v \in View, NEW n, NEW q, NEW vs, NEW hqc,
           EnterView(r, v, n, q, vs, hqc), UNCHANGED preCommitQC,
           hqc = highQC[r] \/ hqc.view + 1 = v
    PROVE  HighEffect
<1>1. view'[r] = v
  BY DEF EnterView, TypeOK
<1>2. CASE GetLeaderByView(v) = r /\ \E newViews : ProcessNewView(r, newViews)
  BY <1>1, <1>2, ProcessNewViewHigh
<1>3. CASE \E newViews : AwaitNewViews(r, newViews, vs, hqc)
  <2>1. highQC' = [highQC EXCEPT ![r] = hqc]
    BY <1>3 DEF AwaitNewViews
  <2> QED
    BY <1>1, <2>1 DEF HighEffect, TypeOK
<1>4. CASE UNCHANGED highQC
  BY <1>4 DEF HighEffect
<1>5. \/ \E newViews : AwaitNewViews(r, newViews, vs, hqc)
      \/ GetLeaderByView(v) = r /\ CollectNewViews(r, v, q, vs, hqc)
  BY DEF EnterView
<1>6. CASE GetLeaderByView(v) = r /\ CollectNewViews(r, v, q, vs, hqc)
  <2>1. \/ \E newViews : AwaitNewViews(r, newViews, vs, hqc)
        \/ \E newViews : ProcessNewView(r, newViews)
        \/ UNCHANGED highQC
    BY <1>6 DEF CollectNewViews
  <2> QED
    BY <1>2, <1>3, <1>4, <1>6, <2>1
<1> QED
  BY <1>3, <1>5, <1>6

LEMMA DispatchHigh ==
    ASSUME Before, NEW r \in Replica, NEW m, NEW n, NEW q, Handles(r, m, n, q),
           Dispatch(r, m, n, q)
    PROVE  HighEffect
<1> USE DEF viewVars
<1>1. TypeOK /\ view[r] + 1 \in View
  BY DEF Before, TypeOK, View
<1>2. CASE UNCHANGED highQC
  BY <1>2 DEF HighEffect
<1>3. CASE m.type = "CommitVote" /\ OnReceiveCommitVote(r, m, n, q)
  <2>1. CASE /\ \E p, vs : EnterView(r, view[r] + 1, p, q, vs, highQC[r])
             /\ UNCHANGED preCommitQC
    BY <1>1, <2>1, EnterViewHigh
  <2> QED
    BY <1>2, <1>3, <2>1 DEF OnReceiveCommitVote, Ignore, StoreVote
<1>4. CASE m.type = "Decide" /\ OnReceiveDecide(r, m, n, q)
  <2>1. CASE /\ AcceptQC(r, m)
             /\ EnterView(r, m.view + 1, n, q, votes[r], m.qc)
             /\ UNCHANGED preCommitQC
    <3>1. m.view = view[r] /\ m.view \in Nat /\ m \in Transit
      BY <1>1, <2>1, HandledMsg DEF AcceptQC, MatchingMsg, Handles
    <3>2. m.qc = CreateQuorumCert(m.block)
      BY <1>4, <3>1 DEF Before, SafetyInv, LeaderMsgsKnown
    <3>3. CreateQuorumCert(m.block).view = m.view
      BY <1>1, <1>4, HandledMsg, BlockOfMsg, TypesForSafety
    <3>4. m.qc.view + 1 = m.view + 1 /\ m.view + 1 \in View
      BY <1>1, <3>1, <3>2, <3>3
    <3> QED
      BY <1>1, <2>1, <3>4, EnterViewHigh
  <2> QED
    BY <1>2, <1>4, <2>1 DEF OnReceiveDecide, Ignore
<1>5. CASE m.type = "NewView" /\ OnReceiveNewView(r, m, n, q)
  <2>1. CASE \E newViews : /\ ProcessNewView(r, newViews)
                            /\ UNCHANGED <<view, preCommitQC>>
    <3>1. GetLeaderByView(view'[r]) = r
      BY <1>5, <2>1, HandledMsg DEF Handles, Genuine, IsGenuine
    <3> QED
      BY <1>1, <2>1, <3>1, ProcessNewViewHigh
  <2>2. CASE \E newViews : AwaitNewViews(r, newViews, votes[r], highQC[r])
    BY <1>1, <1>2, <2>2 DEF AwaitNewViews, TypeOK
  <2> QED
    BY <1>2, <1>5, <2>1, <2>2 DEF OnReceiveNewView, Ignore
<1>6. CASE m.type = "Prepare" /\ OnReceivePrepare(r, m, n, q)
  BY <1>2, <1>6 DEF OnReceivePrepare, Vote, Ignore
<1>7. CASE m.type = "PrepareVote" /\ OnReceivePrepareVote(r, m, n, q)
  BY <1>2, <1>7 DEF OnReceivePrepareVote, StoreVote, StartPhase, Ignore
<1>8. CASE m.type = "PreCommit" /\ OnReceivePreCommit(r, m, n, q)
  BY <1>2, <1>8 DEF OnReceivePreCommit, Vote, Ignore
<1>9. CASE m.type = "PreCommitVote" /\ OnReceivePreCommitVote(r, m, n, q)
  BY <1>2, <1>9 DEF OnReceivePreCommitVote, StoreVote, StartPhase, Ignore, Panic
<1>10. CASE m.type = "Commit" /\ OnReceiveCommit(r, m, n, q)
  BY <1>2, <1>10 DEF OnReceiveCommit, Vote, Ignore
<1> QED
  BY <1>3, <1>4, <1>5, <1>6, <1>7, <1>8, <1>9, <1>10 DEF Dispatch

LEMMA NextHigh ==
    ASSUME Before, [Next]_vars
    PROVE  HighEffect
<1>1. ASSUME NEW r \in Replica, Timeout(r) PROVE HighEffect
  <2>1. view[r] + 1 \in View /\ TypeOK
    BY DEF Before, TypeOK, View
  <2> QED
    BY <1>1, <2>1, EnterViewHigh DEF Timeout
<1>2. ASSUME NEW r \in Replica, HandleReq(r) PROVE HighEffect
  BY <1>2 DEF HandleReq, HighEffect
<1>3. CASE Quiet
  BY <1>3 DEF Quiet, HighEffect
<1> QED
  BY <1>1, <1>2, <1>3, DispatchHigh, NextHandles DEF Handled

\* The step that CertificatesNeverRegress is about.
NoRegress ==
    \A r \in Replica :
        /\ prepareQC'[r].view >= prepareQC[r].view
        /\ preCommitQC'[r].view >= preCommitQC[r].view
        /\ highQC'[r] # highQC[r] =>
              \A s \in Replica : preCommitQC[s].view < view'[r] =>
                  highQC'[r].view >= preCommitQC[s].view

LEMMA NextNeverRegresses ==
    ASSUME TotalNumber # 6, Before, Before', [Next]_vars
    PROVE  NoRegress
<1>1. CertEffect
  BY NextSafety DEF Before, Afterwards, After, IInv
<1>2. HighEffect
  BY NextHigh
<1>3. ASSUME NEW r \in Replica, NEW s \in Replica,
             highQC'[r] # highQC[r], preCommitQC[s].view < view'[r]
      PROVE  highQC'[r].view >= preCommitQC[s].view
  <2>1. preCommitQC[s].view \in Nat /\ view'[r] \in Nat /\ highQC'[r].view \in Nat
    BY DEF Before, TypeOK, View, QuorumCert
  <2>w. PICK w \in View : w = preCommitQC[s].view
    BY <2>1 DEF View
  <2>2. preCommitQC'[s].view = w
    BY <1>2, <1>3, <2>w DEF HighEffect
  <2>3. CASE highQC'[r].view + 1 = view'[r]
    BY <1>3, <2>1, <2>w, <2>3
  <2>4. CASE viewChanged'[r] /\ GetLeaderByView(view'[r]) = r /\ w >= 1
    <3>1. LockedIn(w)'
      BY <2>2 DEF LockedIn
    <3>2. <<view'[r], highQC'[r]>> \in Candidates'
      BY <2>4 DEF Candidates, Leader
    <3>3. \A p \in Candidates' : p[1] > w => p[2].view >= w
      BY <2>4, <3>1 DEF Before, SafetyInv, LocksChosen
    <3> QED
      BY <1>3, <2>1, <2>w, <3>2, <3>3
  <2> QED
    BY <1>2, <1>3, <2>1, <2>w, <2>3, <2>4 DEF HighEffect, View
<1> QED
  BY <1>1, <1>3, CertsGrow, TypesForSafety DEF NoRegress, Before, SafetyInv

\* Neither what a replica prepared nor what it locked gives way to something
\* older, and the HighQC of a view is not older than any lock of the views
\* before it.
THEOREM CertificatesNeverRegressCorrect ==
    ASSUME TotalNumber # 6
    PROVE  Spec => CertificatesNeverRegress
<1>1. Before /\ Before' /\ [Next]_vars => [NoRegress]_vars
  BY NextNeverRegresses
<1> QED
  BY <1>1, SafetyInvCorrect, PTL
     DEF Before, Spec, CertificatesNeverRegress, NoRegress

-----------------------------------------------------------------------------
(* Refinement. *)

LEMMA DispatchRefines ==
    ASSUME Before, NEW r \in Replica, NEW m, NEW n, NEW q, Handles(r, m, n, q),
           Dispatch(r, m, n, q)
    PROVE  BlockStep
<1> USE DEF chainVars
<1>1. SafeState /\ UNCHANGED proposed
  BY BeforeIsSafe DEF Handles
<1>2. CASE UNCHANGED executed
  BY <1>1, <1>2 DEF BlockStep
<1>3. CASE m.type = "CommitVote" /\ OnReceiveCommitVote(r, m, n, q)
  <2>1. CASE IsFresh(r, m) /\ HasQuorum(r, m) /\ Execute(r, m.block)
    <3>1. AboutBlock(r, m)
      BY <1>3, HandledMsg
    <3>2. MayDecide(r, m.block)
      BY <1>1, <1>3, <2>1, <3>1, DecideRefines
    <3> QED
      BY <3>2 DEF BlockStep, MayDecide, MayExecute
  <2> QED
    BY <1>2, <1>3, <2>1 DEF OnReceiveCommitVote, Ignore, StoreVote
<1>4. CASE m.type = "Decide" /\ OnReceiveDecide(r, m, n, q)
  <2>1. CASE AcceptQC(r, m) /\ Execute(r, m.block)
    <3>1. AboutBlock(r, m)
      BY <1>4, HandledMsg
    <3>2. MayLearn(r, m.block)
      BY <1>1, <1>4, <2>1, <3>1, LearnRefines DEF AcceptQC
    <3> QED
      BY <3>2 DEF BlockStep, MayLearn, MayExecute
  <2> QED
    BY <1>2, <1>4, <2>1 DEF OnReceiveDecide, Ignore
<1>5. CASE m.type = "NewView" /\ OnReceiveNewView(r, m, n, q)
  BY <1>2, <1>5 DEF OnReceiveNewView, Ignore
<1>6. CASE m.type = "Prepare" /\ OnReceivePrepare(r, m, n, q)
  BY <1>2, <1>6 DEF OnReceivePrepare, Vote, Ignore
<1>7. CASE m.type = "PrepareVote" /\ OnReceivePrepareVote(r, m, n, q)
  BY <1>2, <1>7 DEF OnReceivePrepareVote, StoreVote, StartPhase, Ignore
<1>8. CASE m.type = "PreCommit" /\ OnReceivePreCommit(r, m, n, q)
  BY <1>2, <1>8 DEF OnReceivePreCommit, Vote, Ignore
<1>9. CASE m.type = "PreCommitVote" /\ OnReceivePreCommitVote(r, m, n, q)
  BY <1>2, <1>9 DEF OnReceivePreCommitVote, StoreVote, StartPhase, Ignore, Panic
<1>10. CASE m.type = "Commit" /\ OnReceiveCommit(r, m, n, q)
  BY <1>2, <1>10 DEF OnReceiveCommit, Vote, Ignore
<1> QED
  BY <1>3, <1>4, <1>5, <1>6, <1>7, <1>8, <1>9, <1>10 DEF Dispatch

LEMMA NextRefines ==
    ASSUME Before, Before', [Next]_vars
    PROVE  BlockStep
<1>1. ASSUME NEW r \in Replica, Timeout(r) PROVE BlockStep
  BY <1>1 DEF Timeout, chainVars, requestVars, BlockStep
<1>2. ASSUME NEW r \in Replica, HandleReq(r) PROVE BlockStep
  BY <1>2, ProposeRefines, BeforeIsSafe DEF BlockStep
<1>3. CASE Quiet
  BY <1>3 DEF Quiet, BlockStep
<1> QED
  BY <1>1, <1>2, <1>3, DispatchRefines, NextHandles DEF Handled

\* Basic HotStuff keeps the promise of Agreement: whatever the messages, views
\* and timeouts, blocks are proposed and executed as it says.
THEOREM BasicImplementsAgreement ==
    ASSUME TotalNumber # 6
    PROVE  Spec => ImplementsAgreement
<1>1. Init => Promise!Init
  BY SameData DEF Init, Promise!Init
<1>2. Before /\ Before' /\ [Next]_vars => [Promise!Next]_<<proposed, executed>>
  BY NextRefines, BlockStepIsAgreement
<1> QED
  BY <1>1, <1>2, SafetyInvCorrect, PTL
     DEF Before, Spec, ImplementsAgreement, Promise!Spec

-----------------------------------------------------------------------------
(* Without timeouts. *)

\* Who is past the view of a block has executed it.
AllExecuted ==
    \A r \in Replica : \A b \in proposed : b.view < view[r] => b \in executed[r]

CommandsOnce == \A a, b \in proposed : a.cmd = b.cmd => a = b

ChainRooted == \A b \in proposed : b.view = 1 => b.cert = GenesisQC

\* The blocks of the last three views, and genesis at first.
Recent(r) == {b \in executed[r] \cup {Genesis} : b.view >= view[r] - 3}

StoreKeeps == \A r \in Replica : blockChain[r] = Recent(r)

NoTimeoutInv == AllExecuted /\ CommandsOnce /\ ChainRooted /\ StoreKeeps

-----------------------------------------------------------------------------
(* What a step does to the views and the stores. *)

\* r executes b, the block of its view, and leaves the view.
Advances(r, b) ==
    /\ b \in proposed
    /\ b.view = view[r]
    /\ view' = [view EXCEPT ![r] = b.view + 1]
    /\ Execute(r, b)

HandlerStep ==
    /\ UNCHANGED proposed
    /\ \/ UNCHANGED <<view, executed, blockChain>>
       \/ \E r \in Replica : \E b : Advances(r, b)

LEMMA DispatchAdvances ==
    ASSUME Before, NEW r \in Replica, NEW m, NEW n, NEW q, Handles(r, m, n, q),
           Dispatch(r, m, n, q)
    PROVE  HandlerStep
<1> USE DEF viewVars, chainVars
<1>1. UNCHANGED proposed
  BY DEF Handles
<1>2. CASE UNCHANGED <<view, executed, blockChain>>
  BY <1>1, <1>2 DEF HandlerStep
<1>3. ASSUME m.type # "NewView", MatchingMsg(r, m), Execute(r, m.block),
             view' = [view EXCEPT ![r] = view[r] + 1]
      PROVE  HandlerStep
  <2>1. m.block \in proposed /\ m.block.view = view[r]
    BY <1>3, HandledMsg, BlockOfMsg, TypesForSafety DEF Before, MatchingMsg
  <2>2. Advances(r, m.block)
    BY <1>3, <2>1 DEF Advances
  <2> QED
    BY <1>1, <2>2 DEF HandlerStep
<1>4. CASE m.type = "CommitVote" /\ OnReceiveCommitVote(r, m, n, q)
  <2>1. CASE /\ IsFresh(r, m) /\ Execute(r, m.block)
             /\ \E p, vs : EnterView(r, view[r] + 1, p, q, vs, highQC[r])
    BY <1>3, <1>4, <2>1 DEF IsFresh, EnterView
  <2> QED
    BY <1>2, <1>4, <2>1 DEF OnReceiveCommitVote, Ignore, StoreVote
<1>5. CASE m.type = "Decide" /\ OnReceiveDecide(r, m, n, q)
  <2>1. CASE /\ AcceptQC(r, m) /\ Execute(r, m.block)
             /\ EnterView(r, m.view + 1, n, q, votes[r], m.qc)
    BY <1>3, <1>5, <2>1 DEF AcceptQC, MatchingMsg, EnterView
  <2> QED
    BY <1>2, <1>5, <2>1 DEF OnReceiveDecide, Ignore
<1>6. CASE m.type = "NewView" /\ OnReceiveNewView(r, m, n, q)
  BY <1>2, <1>6 DEF OnReceiveNewView, Ignore
<1>7. CASE m.type = "Prepare" /\ OnReceivePrepare(r, m, n, q)
  BY <1>2, <1>7 DEF OnReceivePrepare, Vote, Ignore
<1>8. CASE m.type = "PrepareVote" /\ OnReceivePrepareVote(r, m, n, q)
  BY <1>2, <1>8 DEF OnReceivePrepareVote, StoreVote, StartPhase, Ignore
<1>9. CASE m.type = "PreCommit" /\ OnReceivePreCommit(r, m, n, q)
  BY <1>2, <1>9 DEF OnReceivePreCommit, Vote, Ignore
<1>10. CASE m.type = "PreCommitVote" /\ OnReceivePreCommitVote(r, m, n, q)
  BY <1>2, <1>10 DEF OnReceivePreCommitVote, StoreVote, StartPhase, Ignore, Panic
<1>11. CASE m.type = "Commit" /\ OnReceiveCommit(r, m, n, q)
  BY <1>2, <1>11 DEF OnReceiveCommit, Vote, Ignore
<1> QED
  BY <1>4, <1>5, <1>6, <1>7, <1>8, <1>9, <1>10, <1>11 DEF Dispatch

\* r proposes b, the only block of its view, and has not executed its command.
Proposes(r, b) ==
    /\ proposed' = proposed \cup {b}
    /\ UNCHANGED <<view, executed, blockChain>>
    /\ b.view = view[r]
    /\ b.proposer = r
    /\ b.cert = highQC[r]
    /\ ~HasProposal(view[r])
    /\ \A x \in executed[r] : x.cmd # b.cmd

LEMMA ReqProposes ==
    ASSUME Before, NEW r \in Replica, HandleReq(r)
    PROVE  \E b : Proposes(r, b)
<1>1. PICK c \in Cmd : ~IsFinished(r, c) /\ SendPrepare(r, c)
  BY DEF HandleReq
<1> DEFINE b == CreateLeaf(r, c)
<1>2. holding[r] /\ UNCHANGED <<view, executed, blockChain>>
  BY DEF HandleReq, chainVars
<1>3. Leader(r) = r /\ ~HasProposal(view[r])
  BY <1>2 DEF Before, IInv, LocalInv, TokenDiscipline
<1>4. proposed' = proposed \cup {b}
  BY <1>1, <1>3 DEF SendPrepare
<1>5. b.view = view[r] /\ b.proposer = r /\ b.cert = highQC[r] /\ b.cmd = c
  BY DEF CreateLeaf
<1> HIDE DEF b
<1>6. \A x \in executed[r] : x.cmd # b.cmd
  BY <1>1, <1>5 DEF IsFinished
<1> QED
  BY <1>2, <1>3, <1>4, <1>5, <1>6 DEF Proposes

LEMMA NoTimeoutStep ==
    ASSUME MayTimeOut = {}, Before, [Next]_vars
    PROVE  HandlerStep \/ \E r \in Replica : \E b : Proposes(r, b)
<1>1. ~\E r \in Replica : Timeout(r)
  BY DEF Timeout
<1>2. CASE Quiet
  BY <1>2 DEF Quiet, HandlerStep
<1> QED
  BY <1>1, <1>2, DispatchAdvances, ReqProposes, NextHandles DEF Handled

-----------------------------------------------------------------------------
(* Each replica executes every block, and no command twice. *)

\* Nothing is proposed in a view after one without a proposal.
LEMMA NothingAhead ==
    ASSUME Before, NEW r \in Replica, ~HasProposal(view[r])
    PROVE  /\ \A s \in Replica : view[s] <= view[r]
           /\ \A x \in proposed : x.view < view[r]
<1>1. \A s \in Replica : view[s] \in Nat /\ view[s] >= 1
  BY DEF Before, TypeOK, View, IInv, LocalInv, ViewsPositive
<1>2. ASSUME NEW s \in Replica PROVE view[s] <= view[r]
  <2>1. view[s] > view[r] => view[r] \in 1..(view[s] - 1)
    BY <1>1
  <2> QED
    BY <1>1, <2>1 DEF Before, IInv, LocalInv, NoViewSkipped
<1>3. ASSUME NEW x \in proposed PROVE x.view < view[r]
  <2>1. /\ x.view \in Nat /\ x.proposer \in Replica /\ x.view <= view[x.proposer]
    BY ProposedViews, BeforeIsSafe, LeaderIsReplica
       DEF Before, IInv, LocalInv, ProposedByLeader, View
  <2>2. x.view # view[r]
    BY DEF HasProposal
  <2> QED
    BY <1>1, <1>2, <2>1, <2>2
<1> QED
  BY <1>2, <1>3

LEMMA ExecutedKept ==
    ASSUME MayTimeOut = {}, Before, [Next]_vars,
           AllExecuted, CommandsOnce, ChainRooted
    PROVE  AllExecuted' /\ CommandsOnce' /\ ChainRooted'
<1>1. \A r \in Replica : view[r] \in Nat
  BY DEF Before, TypeOK, View
<1>2. CASE UNCHANGED <<proposed, view, executed, blockChain>>
  BY <1>2 DEF AllExecuted, CommandsOnce, ChainRooted
<1>3. ASSUME UNCHANGED proposed, NEW r \in Replica, NEW b, Advances(r, b)
      PROVE  AllExecuted' /\ CommandsOnce' /\ ChainRooted'
  <2>1. /\ b \in proposed /\ b.view = view[r]
        /\ view'[r] = view[r] + 1
        /\ executed'[r] = executed[r] \cup {b}
        /\ \A s \in Replica \ {r} : view'[s] = view[s] /\ executed'[s] = executed[s]
    BY <1>3 DEF Advances, Execute, Before, TypeOK
  <2>2. ASSUME NEW x \in proposed, x.view < view[r] + 1
        PROVE  x \in executed'[r]
    <3>1. x.view \in Nat
      BY ProposedViews, BeforeIsSafe
    <3>2. CASE x.view = view[r]
      BY <2>1, <3>2 DEF Before, IInv, LocalInv, OneProposalPerView
    <3>3. CASE x.view < view[r]
      BY <2>1, <3>3 DEF AllExecuted
    <3> QED
      BY <1>1, <2>2, <3>1, <3>2, <3>3
  <2>3. AllExecuted'
    BY <1>3, <2>1, <2>2 DEF AllExecuted
  <2> QED
    BY <1>3, <2>3 DEF CommandsOnce, ChainRooted
<1>4. ASSUME NEW r \in Replica, NEW b, Proposes(r, b)
      PROVE  AllExecuted' /\ CommandsOnce' /\ ChainRooted'
  <2>1. /\ \A s \in Replica : view[s] <= view[r]
        /\ \A x \in proposed : x.view < view[r]
    BY <1>4, NothingAhead DEF Proposes
  <2>2. \A x \in proposed : x \in executed[r] /\ x.cmd # b.cmd
    BY <1>4, <2>1 DEF AllExecuted, Proposes
  <2>3. CommandsOnce'
    BY <1>4, <2>2 DEF CommandsOnce, Proposes
  <2>4. AllExecuted'
    <3>1. ASSUME NEW s \in Replica, NEW x \in proposed', x.view < view[s]
          PROVE  x \in executed[s]
      <4>1. CASE x \in proposed
        BY <3>1, <4>1 DEF AllExecuted
      <4>2. CASE x = b
        BY <1>1, <1>4, <2>1, <3>1, <4>2 DEF Proposes
      <4> QED
        BY <1>4, <4>1, <4>2 DEF Proposes
    <3> QED
      BY <1>4, <3>1 DEF AllExecuted, Proposes
  <2>5. ChainRooted'
    <3>1. b.view = 1 => b.cert = GenesisQC
      BY <1>4 DEF Proposes, Before, SafetyInv, CertsKnown
    <3> QED
      BY <1>4, <3>1 DEF ChainRooted, Proposes
  <2> QED
    BY <2>3, <2>4, <2>5
<1> QED
  BY <1>2, <1>3, <1>4, NoTimeoutStep DEF HandlerStep

-----------------------------------------------------------------------------
(* The chain has one block per view, each on top of the one before. *)

LEMMA ChainViews ==
    ASSUME Before, NEW x \in Chain
    PROVE  /\ x.view \in Nat
           /\ x.view = 0 => x = Genesis
           /\ x.view >= 1 => x \in proposed
           /\ x.hash # ZeroHash
<1>1. CASE x = Genesis
  BY <1>1 DEF Genesis, GenesisHash, ZeroHash
<1>2. CASE x \in proposed
  <2>1. x.hash[2] >= 2
    BY <1>2 DEF Before, SafetyInv, HashesKnown
  <2>2. x.hash # ZeroHash
    BY <2>1 DEF ZeroHash
  <2>3. x.view \in Nat /\ x.view >= 1
    BY <1>2, ProposedViews, BeforeIsSafe
  <2> QED
    BY <1>2, <2>2, <2>3
<1> QED
  BY <1>1, <1>2 DEF Chain

LEMMA ChainUnique ==
    ASSUME Before, NEW x \in Chain, NEW y \in Chain,
           x.view = y.view \/ x.hash = y.hash
    PROVE  x = y
<1>1. CASE x.view = y.view
  BY <1>1, ChainViews DEF Before, IInv, LocalInv, OneProposalPerView
<1>2. CASE x.hash = y.hash
  <2>1. \A b \in proposed : b.hash # GenesisHash
    <3>1. \A b \in proposed : b.hash[2] >= 2
      BY DEF Before, SafetyInv, HashesKnown
    <3> QED
      BY <3>1 DEF GenesisHash
  <2> QED
    BY <1>2, <2>1 DEF Chain, Genesis, Before, SafetyInv, HashesKnown
<1> QED
  BY <1>1, <1>2

\* The parent of a block is the block of the view before.
LEMMA ParentBefore ==
    ASSUME Before, AllExecuted, ChainRooted, NEW b \in proposed
    PROVE  \E y \in Chain : y.view = b.view - 1 /\ Parent(b) = y.hash
<1>1. /\ b.view \in Nat /\ b.view >= 1
      /\ b.cert.view \in Nat /\ b.cert.view < b.view /\ b.cert \in Certs
      /\ b.view >= 2 => <<b.view, b.cert>> \in Candidates
  BY ProposedViews, BeforeIsSafe
<1>2. CASE b.view = 1
  <2>1. Parent(b) = Genesis.hash /\ Genesis.view = b.view - 1
    BY <1>2 DEF ChainRooted, Parent, GenesisQC, Genesis
  <2> QED
    BY <2>1 DEF Chain
<1>3. CASE b.view >= 2
  <2>1. b.proposer \in Replica /\ b.view <= view[b.proposer]
    BY <1>1, LeaderIsReplica DEF Before, IInv, LocalInv, ProposedByLeader, View
  <2>2. view[b.proposer] \in Nat
    BY <2>1 DEF Before, TypeOK, View
  <2>3. PICK a \in proposed : a.view = b.view - 1
    <3>1. b.view - 1 \in 1..(view[b.proposer] - 1)
      BY <1>1, <1>3, <2>1, <2>2
    <3> QED
      BY <2>1, <3>1 DEF Before, IInv, LocalInv, NoViewSkipped, HasProposal
  <2>4. a.view >= 1 /\ a.view \in Nat /\ a.view < view[b.proposer]
    BY <1>1, <1>3, <2>1, <2>2, <2>3
  <2>5. LockedIn(a.view)
    BY <2>1, <2>4, ExecutedIsProposed, BeforeIsSafe DEF AllExecuted
  <2>6. b.cert.view >= a.view
    <3>1. \A p \in Candidates : p[1] > a.view => p[2].view >= a.view
      BY <2>4, <2>5 DEF Before, SafetyInv, LocksChosen, View
    <3>2. b.view > a.view
      BY <1>1, <2>3
    <3> QED
      BY <1>1, <1>3, <3>1, <3>2
  <2>7. b.cert.view = b.view - 1 /\ b.cert.view # 0
    BY <1>1, <2>3, <2>4, <2>6
  <2>8. PICK y \in proposed : b.cert = CreateQuorumCert(y)
    BY <1>1, <2>7, CertOfBlock, BeforeIsSafe
  <2> QED
    BY <2>7, <2>8 DEF CreateQuorumCert, Parent, Chain
<1> QED
  BY <1>1, <1>2, <1>3

\* A block found by its hash in a part of the chain.
LEMMA GetInPart ==
    ASSUME Before, NEW C \in SUBSET Chain, NEW y \in C
    PROVE  Has(C, y.hash) /\ Get(C, y.hash) = y
<1>1. Has(C, y.hash)
  BY DEF Has
<1> QED
  BY <1>1, GetStored, ChainUnique

LEMMA StoreKept ==
    ASSUME Before, AllExecuted, ChainRooted, NEW r \in Replica,
           blockChain[r] = Recent(r), NEW b \in proposed, b.view = view[r]
    PROVE  Clean(Store(blockChain[r], b), b)
             = {x \in executed[r] \cup {b, Genesis} : x.view >= view[r] - 2}
<1> DEFINE v == view[r]
           D == {x \in Chain : x.view >= v - 3 /\ x.view <= v}
<1>1. v \in Nat /\ v >= 1
  BY ProposedViews, BeforeIsSafe
<1>2. ASSUME NEW x
      PROVE  x \in executed[r] \cup {Genesis} <=> x \in Chain /\ x.view < v
  <2>1. x \in executed[r] => x \in proposed /\ x.view < v
    BY DEF Before, SafetyInv, ExecutedKnown
  <2>2. x \in proposed /\ x.view < v => x \in executed[r]
    BY DEF AllExecuted
  <2>3. Genesis.view < v
    BY <1>1 DEF Genesis
  <2> QED
    BY <2>1, <2>2, <2>3 DEF Chain
<1>3. Store(blockChain[r], b) = D
  <2>1. \A x : x \in blockChain[r] <=> x \in Chain /\ x.view < v /\ x.view >= v - 3
    BY <1>2 DEF Recent
  <2>2. b \in Chain
    BY DEF Chain
  <2>3. \A x \in blockChain[r] : x.hash # b.hash
    BY <1>1, <2>1, <2>2, ChainUnique
  <2>4. \A x \in Chain : x.view = v => x = b
    BY <2>2, ChainUnique
  <2>5. \A x \in Chain : x.view \in Nat
    BY ChainViews
  <2>6. ASSUME NEW x PROVE x \in Store(blockChain[r], b) <=> x \in D
    <3>1. x \in Store(blockChain[r], b) <=> x \in blockChain[r] \/ x = b
      BY <2>3 DEF Store
    <3>2. b \in D
      BY <1>1, <2>2
    <3>3. x \in Chain /\ x # b /\ x.view <= v => x.view < v
      BY <1>1, <2>4, <2>5
    <3>4. x \in blockChain[r] => x \in D
      BY <1>1, <2>1, <2>5
    <3>5. x \in D /\ x # b => x \in blockChain[r]
      BY <2>1, <3>3
    <3> QED
      BY <3>1, <3>2, <3>4, <3>5
  <2> HIDE DEF D
  <2> QED
    BY <2>6
<1> HIDE DEF D
<1>4. D \in SUBSET Chain /\ b \in D /\ \A x \in Chain : x.view \in Nat
  BY <1>1, ChainViews DEF D, Chain
<1>5. ASSUME NEW x
      PROVE  x \in {y \in executed[r] \cup {b, Genesis} : y.view >= v - 2}
               <=> x \in D /\ x.view >= v - 2
  <2>1. x \in executed[r] \cup {b, Genesis} <=> x \in Chain /\ (x.view < v \/ x = b)
    BY <1>2, <1>4
  <2>2. x \in Chain => (x.view <= v <=> x.view < v \/ x = b)
    BY <1>1, <1>4, ChainUnique
  <2> QED
    BY <1>1, <1>4, <2>1, <2>2 DEF D
<1>6. ASSUME NEW t, CleanTarget(D, b) = t,
             \A x \in D : x.hash # t <=> x.view >= v - 2
      PROVE  Clean(D, b) = {y \in executed[r] \cup {b, Genesis} : y.view >= v - 2}
  <2>1. \A x : x \in Clean(D, b) <=> x \in D /\ x.view >= v - 2
    BY <1>6 DEF Clean
  <2> QED
    BY <1>5, <2>1
<1>7. PICK y1 \in Chain : y1.view = v - 1 /\ Parent(b) = y1.hash
  BY ParentBefore
<1>8. /\ y1 \in D
      /\ Has(D, Parent(b)) /\ Get(D, Parent(b)) = y1
  <2>1. y1 \in D
    BY <1>1, <1>7 DEF D
  <2> QED
    BY <1>4, <1>7, <2>1, GetInPart
<1>9. \A x \in D : x.hash # ZeroHash
  BY <1>4, ChainViews
<1>10. CASE v = 1
  <2>1. y1 = Genesis
    BY <1>7, <1>10, ChainViews
  <2>2. ~Has(D, Parent(y1))
    BY <1>9, <2>1 DEF Parent, Genesis, ZeroQC, Has
  <2>3. CleanTarget(D, b) = ZeroHash
    BY <1>8, <2>2 DEF CleanTarget
  <2>4. \A x \in D : x.view >= v - 2
    BY <1>4, <1>10
  <2> QED
    BY <1>3, <1>6, <1>9, <2>3, <2>4
<1>11. CASE v >= 2
  <2>1. y1 \in proposed
    BY <1>1, <1>7, <1>11, ChainViews
  <2>2. PICK y2 \in Chain : y2.view = y1.view - 1 /\ Parent(y1) = y2.hash
    BY <2>1, ParentBefore
  <2>3. y2.view = v - 2 /\ y2 \in D
    BY <1>1, <1>7, <2>2 DEF D
  <2>4. Has(D, Parent(y1)) /\ Get(D, Parent(y1)) = y2
    BY <1>4, <2>2, <2>3, GetInPart
  <2>5. CleanTarget(D, b) = Parent(y2)
    BY <1>8, <2>4 DEF CleanTarget
  <2>6. CASE v = 2
    <3>1. y2 = Genesis
      BY <2>3, <2>6, ChainViews
    <3>2. Parent(y2) = ZeroHash
      BY <3>1 DEF Parent, Genesis, ZeroQC
    <3>3. \A x \in D : x.view >= v - 2
      BY <1>4, <2>6
    <3> QED
      BY <1>3, <1>6, <1>9, <2>5, <3>2, <3>3
  <2>7. CASE v >= 3
    <3>1. y2 \in proposed
      BY <1>1, <2>3, <2>7, ChainViews
    <3>2. PICK y3 \in Chain : y3.view = y2.view - 1 /\ Parent(y2) = y3.hash
      BY <3>1, ParentBefore
    <3>3. y3.view = v - 3
      BY <1>1, <2>3, <3>2
    <3>4. ASSUME NEW x \in D
          PROVE  x.hash # Parent(y2) <=> x.view >= v - 2
      <4>1. x \in Chain /\ x.view \in Nat /\ x.view >= v - 3
        BY <1>4 DEF D
      <4>2. x.hash = y3.hash <=> x = y3
        BY <4>1, ChainUnique
      <4>3. x.view = v - 3 <=> x = y3
        BY <3>3, <4>1, ChainUnique
      <4> QED
        BY <1>1, <3>2, <4>1, <4>2, <4>3
    <3> QED
      BY <1>3, <1>6, <2>5, <3>4
  <2> QED
    BY <1>1, <1>11, <2>6, <2>7
<1> QED
  BY <1>1, <1>10, <1>11

LEMMA NoTimeoutInvKept ==
    ASSUME MayTimeOut = {}, Before, NoTimeoutInv, [Next]_vars
    PROVE  NoTimeoutInv'
<1> USE DEF NoTimeoutInv
<1>1. AllExecuted' /\ CommandsOnce' /\ ChainRooted'
  BY ExecutedKept
<1>2. CASE UNCHANGED <<view, executed, blockChain>>
  BY <1>1, <1>2 DEF StoreKeeps, Recent
<1>3. ASSUME NEW r \in Replica, NEW b, Advances(r, b)
      PROVE  StoreKeeps'
  <2>1. /\ b \in proposed /\ b.view = view[r] /\ view[r] \in Nat
        /\ view'[r] = view[r] + 1
        /\ executed'[r] = executed[r] \cup {b}
        /\ blockChain'[r] = Clean(Store(blockChain[r], b), b)
        /\ \A s \in Replica \ {r} : /\ view'[s] = view[s]
                                    /\ executed'[s] = executed[s]
                                    /\ blockChain'[s] = blockChain[s]
    BY <1>3 DEF Advances, Execute, Before, TypeOK, View
  <2>2. blockChain'[r]
          = {x \in executed[r] \cup {b, Genesis} : x.view >= view[r] - 2}
    BY <2>1, StoreKept DEF StoreKeeps
  <2>3. \A x : x \in blockChain'[r] <=>
                   /\ x \in executed'[r] \cup {Genesis}
                   /\ x.view >= view'[r] - 3
    <3>1. view'[r] - 3 = view[r] - 2
      BY <2>1
    <3> QED
      BY <2>1, <2>2, <3>1
  <2>4. blockChain'[r] = Recent(r)'
    BY <2>3 DEF Recent
  <2>5. ASSUME NEW s \in Replica, s # r PROVE blockChain'[s] = Recent(s)'
    BY <2>1, <2>5 DEF StoreKeeps, Recent
  <2> QED
    BY <2>4, <2>5 DEF StoreKeeps
<1> QED
  BY <1>1, <1>2, <1>3, NoTimeoutStep DEF HandlerStep, Proposes

LEMMA InitNoTimeoutInv == Init => NoTimeoutInv
<1> SUFFICES ASSUME Init PROVE NoTimeoutInv
  OBVIOUS
<1>1. AllExecuted /\ CommandsOnce /\ ChainRooted
  BY DEF Init, AllExecuted, CommandsOnce, ChainRooted
<1>2. \A r \in Replica : Recent(r) = {Genesis}
  BY DEF Init, Recent, Genesis
<1> QED
  BY <1>1, <1>2 DEF Init, NoTimeoutInv, StoreKeeps

LEMMA CommandsOnceGivesExecutedOnce == Before /\ NoTimeoutInv => ExecutedOnce
BY ExecutedIsProposed, BeforeIsSafe DEF NoTimeoutInv, CommandsOnce, ExecutedOnce

\* As many blocks were executed after b as there are views between.
LEMMA LaterBlocks ==
    ASSUME Before, AllExecuted, NEW r \in Replica,
           NEW b \in executed[r] \cup {Genesis}
    PROVE  Cardinality({x \in executed[r] : x.view > b.view}) < 3
             <=> b.view >= view[r] - 3
<1> DEFINE S == {x \in executed[r] : x.view > b.view}
           I == (b.view + 1)..(view[r] - 1)
           f == [x \in S |-> x.view]
<1>1. \A x \in executed[r] : x \in proposed /\ x.view \in Nat /\ x.view < view[r]
  BY ExecutedIsProposed, ProposedViews, BeforeIsSafe
<1>2. view[r] \in Nat /\ view[r] >= 1 /\ b.view \in Nat /\ b.view < view[r]
  BY <1>1 DEF Before, TypeOK, View, IInv, LocalInv, ViewsPositive, Genesis
<1>3. f \in [S -> I]
  BY <1>1, <1>2
<1>4. \A x, y \in S : f[x] = f[y] => x = y
  BY <1>1 DEF Before, IInv, LocalInv, OneProposalPerView
<1>5. \A i \in I : \E x \in S : f[x] = i
  <2>1. ASSUME NEW i \in I PROVE \E x \in S : f[x] = i
    <3>1. i \in 1..(view[r] - 1) /\ i > b.view /\ i < view[r]
      BY <1>2
    <3>2. PICK x \in proposed : x.view = i
      BY <3>1 DEF Before, IInv, LocalInv, NoViewSkipped, HasProposal
    <3>3. x \in S
      BY <3>1, <3>2 DEF AllExecuted
    <3> QED
      BY <3>2, <3>3
  <2> QED
    BY <2>1
<1>6. IsFiniteSet(I) /\ Cardinality(I) = IF b.view + 1 > view[r] - 1 THEN 0
                                         ELSE (view[r] - 1) - (b.view + 1) + 1
  <2>1. b.view + 1 \in Int /\ view[r] - 1 \in Int
    BY <1>2
  <2> QED
    BY <2>1, FS_Interval
<1>7. f \in Injection(S, I) /\ f \in Surjection(S, I)
  <2> HIDE DEF S, I, f
  <2>1. f \in Injection(S, I)
    BY <1>3, <1>4, Fun_IsInj
  <2>2. f \in Surjection(S, I)
    BY <1>3, <1>5, Fun_IsSurj
  <2> QED
    BY <2>1, <2>2
<1> HIDE DEF S, I, f
<1>8. Cardinality(S) = Cardinality(I)
  BY <1>6, <1>7, FS_Injection
<1>9. Cardinality(S) < 3 <=> b.view >= view[r] - 3
  <2>1. CASE b.view + 1 > view[r] - 1
    BY <1>2, <1>6, <1>8, <2>1
  <2>2. CASE ~(b.view + 1 > view[r] - 1)
    BY <1>2, <1>6, <1>8, <2>2
  <2> QED
    BY <2>1, <2>2
<1> QED
  BY <1>9 DEF S

LEMMA StoreKeepsGivesStoreIsRecent == Before /\ NoTimeoutInv => StoreIsRecent
<1> SUFFICES ASSUME Before, NoTimeoutInv, NEW r \in Replica,
                    NEW b \in executed[r] \cup {Genesis}
             PROVE  b \in blockChain[r] <=>
                      Cardinality({x \in executed[r] : x.view > b.view}) < 3
  BY DEF StoreIsRecent
<1>1. b \in blockChain[r] <=> b.view >= view[r] - 3
  BY DEF NoTimeoutInv, StoreKeeps, Recent
<1> QED
  BY <1>1, LaterBlocks DEF NoTimeoutInv

\* Without timeouts the replicas agree on what is executed before they go on:
\* the invariant, whatever messages are lost and whoever is faulty.
THEOREM NoTimeoutInvCorrect ==
    ASSUME TotalNumber # 6, MayTimeOut = {}
    PROVE  Spec => [](Before /\ NoTimeoutInv)
<1>1. Before /\ NoTimeoutInv /\ [Next]_vars => NoTimeoutInv'
  BY NoTimeoutInvKept
<1>2. Spec => []Before
  BY SafetyInvCorrect DEF Before
<1> QED
  BY <1>1, <1>2, InitNoTimeoutInv, PTL DEF Spec

\* Without timeouts no command is executed in two blocks, by one replica or by
\* two, however often clients repeat it.
THEOREM ExecutedOnceCorrect ==
    ASSUME TotalNumber # 6, MayTimeOut = {}
    PROVE  Spec => []ExecutedOnce
BY NoTimeoutInvCorrect, CommandsOnceGivesExecutedOnce, PTL

\* Without timeouts the store of a replica has the three blocks it executed
\* last, with genesis before them, and no other.
THEOREM StoreIsRecentCorrect ==
    ASSUME TotalNumber # 6, MayTimeOut = {}
    PROVE  Spec => []StoreIsRecent
BY NoTimeoutInvCorrect, StoreKeepsGivesStoreIsRecent, PTL

-----------------------------------------------------------------------------
(* No vote and no new-view message is counted twice. *)

NewViewsOnce ==
    \A r \in Replica : \A m \in InTransit(r) :
        m.type = "NewView" => m \notin highQCTmp[r]

CountsBefore == Before /\ CountingBefore /\ NewViewsOnce

CountsAfter == CountingInv' /\ NewViewsOnce'

LEMMA BeforeIsShaped == Before => Shaped
BY NetIsNet DEF Before, TypeOK, Net, Shaped

LEMMA BeforeAsksBlocks == Before => BlocksAsked
<1> SUFFICES ASSUME Before, NEW d \in Replica, NEW x \in InTransit(d),
                    x.type \in VoteType \cup LeaderType
             PROVE  /\ x \in VoteMsg \cup LeaderMsg
                    /\ x.block \in proposed
                    /\ x.block.view = x.view
                    /\ x.type \in VoteType <=> GetLeaderByView(x.view) = d
  BY DEF BlocksAsked
<1>1. x \in Msg
  <2>1. \A s \in Replica : net[s][d] \in Seq(Msg)
    BY DEF Before, TypeOK
  <2>2. \A s \in Replica : \A i \in DOMAIN net[s][d] : net[s][d][i] \in Msg
    BY <2>1
  <2> QED
    BY <2>2 DEF InTransit, OnTheWay, Before, TypeOK
<1>2. x.type # "NewView"
  BY TypesApart
<1>3. IsGenuine(d, x)
  BY GenuineByParts DEF Before, IInv, MessagesGenuine
<1> QED
  BY <1>1, <1>2, <1>3 DEF IsGenuine, Msg, NewViewMsg

\* What r knows about new-view messages: its next one is new.
LEMMA ReportIsNew ==
    ASSUME Before, NEW r \in Replica, NEW v \in View, v > view[r]
    PROVE  \A d \in Replica : /\ NewViewFrom(r, v) \notin InTransit(d)
                              /\ NewViewFrom(r, v) \notin highQCTmp[d]
<1> DEFINE x == NewViewFrom(r, v)
<1>1. x.type = "NewView" /\ x.from = r /\ x.view = v
  BY DEF NewViewFrom
<1>2. view[r] \in Nat /\ v \in Nat
  BY DEF Before, TypeOK, View
<1> HIDE DEF x
<1>3. \A m \in Reports : m.view <= view[m.from]
  BY DEF Before, SafetyInv, ReportsKnown
<1>4. x \notin Reports
  BY <1>1, <1>2, <1>3
<1>5. x \in ReportMsg
  BY DEF x, NewViewFrom, ReportMsg, Before, TypeOK
<1> QED
  BY <1>4, <1>5 DEF Reports, Transit, x

\* A step that sends no new-view message and counts none.
LEMMA CountsKeepReports ==
    ASSUME NewViewsOnce, Counts,
           \A d \in Replica : \A x \in highQCTmp'[d] :
              x \in highQCTmp[d] \/ x \notin InTransit(d)'
    PROVE  CountsAfter
BY TypesApart DEF NewViewsOnce, Counts, CountsAfter

LEMMA EnterCounts ==
    ASSUME CountsBefore, NEW r \in Replica, NEW n, NEW q, NEW vs, vs \subseteq votes[r],
           NEW hqc, NEW new, Departs(r, n, q, new),
           EnterView(r, view[r] + 1, n, q, vs, hqc)
    PROVE  CountsAfter
<1> DEFINE v == view[r] + 1
           x == NewViewFrom(r, v)
<1>1. x.type = "NewView" /\ v \in View /\ v > view[r]
  BY DEF NewViewFrom, CountsBefore, Before, TypeOK, View
<1>2. \A d \in Replica : x \notin InTransit(d) /\ x \notin highQCTmp[d]
  BY <1>1, ReportIsNew DEF CountsBefore
<1>3. x \notin new /\ Shaped
  BY <1>1 DEF Departs, CountsBefore, CountingBefore
<1>4. ASSUME Alone',
             \A d \in Replica : \A y \in InTransit(d)' :
                y \in InTransit(d) \/ y \in new \/ y = x,
             \A d \in Replica : votes'[d] \subseteq votes[d],
             \A d \in Replica : \A y \in InTransit(d)' :
                y.type = "NewView" => y \notin highQCTmp'[d]
      PROVE  CountsAfter
  <2> HIDE DEF x
  <2>1. Voteless(new \cup {x})
    BY <1>1, <1>4, TypesApart DEF Voteless, Departs
  <2>2. CountingInv'
    BY <2>1, VotelessKeepsCounting DEF CountsBefore
  <2> QED
    BY <1>4, <2>2 DEF CountsAfter, NewViewsOnce
<1>5. CASE /\ GetLeaderByView(v) # r
           /\ net' = Unicast(n, r, GetLeaderByView(v), x)
           /\ msgQueue' = [msgQueue EXCEPT ![r] = q]
           /\ AwaitNewViews(r, {}, vs, hqc)
  <2>1. GetLeaderByView(v) \in Replica
    BY <1>1, LeaderIsReplica
  <2> HIDE DEF x, v
  <2>2. /\ Alone'
        /\ \A d \in Replica : \A y \in InTransit(d)' :
              y \in InTransit(d) \/ y \in new \/ (y = x /\ d = GetLeaderByView(v))
    BY <1>2, <1>3, <1>5, <2>1, DepartedUnicast
  <2>3. \A d \in Replica : /\ votes'[d] \subseteq votes[d]
                           /\ highQCTmp'[d] = IF d = r THEN {} ELSE highQCTmp[d]
    BY <1>5 DEF AwaitNewViews, CountsBefore, Before, TypeOK
  <2>4. ASSUME NEW d \in Replica, NEW y \in InTransit(d)', y.type = "NewView"
        PROVE  y \notin highQCTmp'[d]
    BY <1>2, <2>2, <2>3, <2>4 DEF Departs, CountsBefore, NewViewsOnce
  <2> QED
    BY <1>4, <2>2, <2>3, <2>4
<1>6. CASE /\ net' = n
           /\ msgQueue' = [msgQueue EXCEPT
                             ![r] = IF Pending(q, v) THEN PopAll(q, v) ELSE q]
           /\ CollectNewViews(r, v, q, vs, hqc)
  <2> DEFINE p == IF Pending(q, v) THEN PopAll(q, v) ELSE q
             queued == QueuedFor(q, v)
  <2>1. p \subseteq q /\ \A y \in queued : y \in q /\ y \notin p
    BY DEF PopAll, QueuedFor, Pending
  <2>2. /\ \A d \in Replica : votes'[d] \subseteq votes[d]
        /\ \A d \in Replica \ {r} : highQCTmp'[d] = highQCTmp[d]
        /\ \/ highQCTmp'[r] = highQCTmp[r]
           \/ highQCTmp'[r] \subseteq queued \cup {x}
    <3>1. CASE AwaitNewViews(r, queued \cup {x}, vs, hqc)
      BY <3>1 DEF AwaitNewViews, CountsBefore, Before, TypeOK
    <3>2. CASE \E s : ProcessNewView(r, s)
      BY <3>2 DEF ProcessNewView, CountsBefore, Before, TypeOK
    <3>3. CASE UNCHANGED <<highQCTmp, votes>>
      BY <3>3
    <3> QED
      BY <1>6, <3>1, <3>2, <3>3 DEF CollectNewViews
  <2> HIDE DEF queued, x
  <2>3. msgQueue' = [msgQueue EXCEPT ![r] = p] /\ net' = n
    BY <1>6
  <2> HIDE DEF p
  <2>4. /\ Alone'
        /\ \A d \in Replica : \A y \in InTransit(d)' : y \in InTransit(d) \/ y \in new
        /\ \A y \in q : y \notin p => y \notin InTransit(r)'
    BY <1>3, <2>1, <2>3, DepartedSilent
  <2>5. ASSUME NEW d \in Replica, NEW y \in InTransit(d)', y.type = "NewView"
        PROVE  y \notin highQCTmp'[d]
    <3>1. y \in InTransit(d) /\ y # x
      BY <1>2, <2>4, <2>5 DEF Departs
    <3>2. y \notin highQCTmp[d]
      BY <2>5, <3>1 DEF CountsBefore, NewViewsOnce
    <3> QED
      BY <2>1, <2>2, <2>4, <3>1, <3>2
  <2> QED
    BY <1>4, <2>2, <2>4, <2>5
<1> QED
  BY <1>5, <1>6 DEF EnterView

LEMMA CollectCounts ==
    ASSUME CountsBefore, NEW r \in Replica, NEW m, NEW n, NEW q,
           Delivers(r, m, n, q), OnReceiveNewView(r, m, n, q), ~viewChanged[r]
    PROVE  CountsAfter
<1> DEFINE newViews == highQCTmp[r] \cup {m}
<1>1. /\ net' = n /\ msgQueue' = [msgQueue EXCEPT ![r] = q]
      /\ UNCHANGED finishedVotes
      /\ \/ AwaitNewViews(r, newViews, votes[r], highQC[r])
         \/ ProcessNewView(r, newViews)
  BY DEF OnReceiveNewView
<1>2. Moved(r, m, {})
  BY <1>1, RestMoves DEF CountsBefore, CountingBefore
<1>3. ASSUME NEW d \in Replica
      PROVE  /\ votes'[d] \subseteq votes[d]
             /\ \A x \in highQCTmp'[d] : x \in highQCTmp[d] \/ (d = r /\ x = m)
  <2>1. CASE AwaitNewViews(r, newViews, votes[r], highQC[r])
    BY <2>1 DEF AwaitNewViews, CountsBefore, Before, TypeOK
  <2>2. CASE ProcessNewView(r, newViews)
    BY <2>2 DEF ProcessNewView, CountsBefore, Before, TypeOK
  <2> QED
    BY <1>1, <2>1, <2>2
<1>4. Voteless({})
  BY <1>1, <1>2, <1>3 DEF Voteless, Moved
<1>5. Counts
  BY <1>2, <1>4, VotelessKeepsCounting DEF Counts, Moved, CountsBefore
<1> QED
  BY <1>2, <1>3, <1>5, CountsKeepReports DEF Moved, CountsBefore

\* The handlers of both kinds of replica leave new-view messages alone.
LEMMA PhaseReports ==
    ASSUME NEW r \in Replica, NEW m, NEW n, NEW q,
           \/ Ignore(r, n, q)
           \/ StoreVote(r, m, n, q)
           \/ OnReceivePrepare(r, m, n, q)
           \/ OnReceivePrepareVote(r, m, n, q)
           \/ OnReceivePreCommit(r, m, n, q)
           \/ OnReceivePreCommitVote(r, m, n, q)
           \/ OnReceiveCommit(r, m, n, q)
    PROVE  UNCHANGED highQCTmp
BY DEF OnReceivePrepare, OnReceivePrepareVote, OnReceivePreCommit,
       OnReceivePreCommitVote, OnReceiveCommit, Ignore, Vote, StoreVote,
       StartPhase, Panic, viewVars

LEMMA DispatchCounts ==
    ASSUME CountsBefore, NEW r \in Replica, NEW m, NEW n, NEW q,
           Delivers(r, m, n, q), Dispatch(r, m, n, q)
    PROVE  CountsAfter
<1>1. CASE Ignore(r, n, q)
  BY <1>1, PhaseReports, RestCounts, CountsKeepReports
     DEF Ignore, leaderVars, CountsBefore
<1>2. CASE m.type \in VoteType /\ StoreVote(r, m, n, q)
  BY <1>2, PhaseReports, StoreVoteCounts, CountsKeepReports DEF CountsBefore
<1>3. CASE \/ m.type = "Prepare" /\ OnReceivePrepare(r, m, n, q)
           \/ m.type = "PrepareVote" /\ OnReceivePrepareVote(r, m, n, q)
           \/ m.type = "PreCommit" /\ OnReceivePreCommit(r, m, n, q)
           \/ m.type = "PreCommitVote" /\ OnReceivePreCommitVote(r, m, n, q)
           \/ m.type = "Commit" /\ OnReceiveCommit(r, m, n, q)
  BY <1>3, PhaseReports, PhaseCounts, CountsKeepReports DEF CountsBefore
<1>4. CASE m.type = "CommitVote" /\ OnReceiveCommitVote(r, m, n, q)
  <2> DEFINE x == PhaseMsg("Decide", view[r], m.block, CreateQuorumCert(m.block))
             p == Multicast(n, r, x)
  <2>1. CASE /\ IsFresh(r, m)
             /\ FinishVotes(r, m)
             /\ EnterView(r, view[r] + 1, p, q, LeftVotes(r, m), highQC[r])
    <3>1. Departs(r, p, q, {x})
      BY <1>4, <2>1, DecideDeparts DEF CountsBefore
    <3>2. EnterView(r, view[r] + 1, p, q, LeftVotes(r, m), highQC[r])
      BY <2>1
    <3> HIDE DEF x, p
    <3> QED
      BY <3>1, <3>2, LeftVotesOld, EnterCounts
  <2> QED
    BY <1>1, <1>2, <1>4, <2>1 DEF OnReceiveCommitVote, VoteType
<1>5. CASE m.type = "Decide" /\ OnReceiveDecide(r, m, n, q)
  <2>1. CASE /\ MatchingMsg(r, m)
             /\ EnterView(r, m.view + 1, n, q, votes[r], m.qc)
             /\ UNCHANGED finishedVotes
    <3>1. m.view = view[r]
      BY <2>1 DEF MatchingMsg
    <3>2. Departs(r, n, q, {})
      BY <2>1, LearnDeparts
    <3> QED
      BY <2>1, <3>1, <3>2, EnterCounts
  <2> QED
    BY <1>1, <1>5, <2>1 DEF OnReceiveDecide, AcceptQC
<1>6. CASE m.type = "NewView" /\ OnReceiveNewView(r, m, n, q)
  BY <1>1, <1>6, CollectCounts DEF OnReceiveNewView
<1> QED
  BY <1>3, <1>4, <1>5, <1>6 DEF Dispatch

LEMMA TimeoutCounts ==
    ASSUME CountsBefore, NEW r \in Replica, Timeout(r)
    PROVE  CountsAfter
<1>1. /\ UNCHANGED <<finishedVotes, hand>>
      /\ EnterView(r, view[r] + 1, net, msgQueue[r], votes[r], highQC[r])
  BY DEF Timeout
<1> QED
  BY <1>1, TimeoutDeparts, EnterCounts DEF CountsBefore

\* Every step handles a message, times out, proposes, or is calm.
LEMMA NextDelivers ==
    ASSUME CountsBefore, [Next]_vars
    PROVE  \/ Calm
           \/ \E r \in Replica : \E m, n, q : Delivers(r, m, n, q) /\ Dispatch(r, m, n, q)
           \/ \E r \in Replica : Timeout(r) \/ HandleReq(r)
<1>1. Shaped /\ Alone
  BY DEF CountsBefore, CountingBefore, CountingInv
<1>2. ASSUME NEW r \in Replica, NEW s \in Replica, ReceiveCurrent(r, s)
      PROVE  \E m, n, q : Delivers(r, m, n, q) /\ Dispatch(r, m, n, q)
  BY <1>1, <1>2, CurrentDelivers
     DEF ReceiveCurrent, CanReceive, handVars, requestVars
<1>3. ASSUME NEW r \in Replica, Chase(r)
      PROVE  \E m, n, q : Delivers(r, m, n, q) /\ Dispatch(r, m, n, q)
  BY <1>1, <1>3, QueuedDelivers DEF Chase, requestVars
<1>4. ASSUME NEW r \in Replica, HandleHeld(r)
      PROVE  \E m, n, q : Delivers(r, m, n, q) /\ Dispatch(r, m, n, q)
  BY <1>1, <1>4, HeldDelivers DEF HandleHeld, requestVars
<1>5. CASE UNCHANGED vars
  BY <1>1, <1>5, StutterIsCalm
<1> QED
  BY <1>1, <1>2, <1>3, <1>4, <1>5, AsideIsCalm, LossIsCalm
     DEF Next, HandleMsg, Receive

LEMMA NextCounts ==
    ASSUME CountsBefore, [Next]_vars
    PROVE  CountsAfter
<1>1. CASE Calm
  BY <1>1, CalmCounts, CountsKeepReports DEF Calm, CountsBefore
<1>2. ASSUME NEW r \in Replica, HandleReq(r) PROVE CountsAfter
  BY <1>2, ProposeCounts, CountsKeepReports DEF CountsBefore, HandleReq, SendPrepare
<1> QED
  BY <1>1, <1>2, NextDelivers, DispatchCounts, TimeoutCounts

LEMMA CountingCorrect ==
    ASSUME TotalNumber # 6
    PROVE  Spec => [](CountingInv /\ NewViewsOnce)
<1>1. Before => BlocksAsked
  BY BeforeAsksBlocks
<1>2. Before /\ Before' /\ CountingInv /\ NewViewsOnce /\ [Next]_vars => CountsAfter
  <2>1. Before' => BlocksAsked'
    BY <1>1, PTL
  <2> QED
    BY <1>1, <2>1, NextCounts, BeforeIsSafe, BeforeIsShaped
       DEF CountsBefore, CountingBefore
<1>3. Init => CountingInv /\ NewViewsOnce
  BY InitCounting DEF NewViewsOnce, Init
<1>4. CountsAfter => CountingInv' /\ NewViewsOnce'
  BY DEF CountsAfter
<1> QED
  BY <1>2, <1>3, <1>4, SafetyInvCorrect, PTL DEF Spec

\* No vote and no new-view message is counted twice: while it is under way,
\* what it says is not among what its receiver has counted.  With six replicas
\* two blocks may be decided in conflict, and nothing is claimed.
THEOREM CountedOnceCorrect ==
    ASSUME TotalNumber # 6
    PROVE  Spec => []CountedOnce
<1>1. CountingInv /\ NewViewsOnce => CountedOnce
  BY DEF CountingInv, VotesCountedOnce, NewViewsOnce, CountedOnce
<1> QED
  BY <1>1, CountingCorrect, PTL

-----------------------------------------------------------------------------
(* Lists of votes end once, commands are repeated by those who missed them. *)

LEMMA EnterViewVotes ==
    ASSUME NEW r \in Replica, NEW v, NEW n, NEW q, NEW vs, NEW hqc,
           EnterView(r, v, n, q, vs, hqc), DOMAIN status = Replica
    PROVE  \/ votes' = [votes EXCEPT ![r] = vs]
           \/ votes' = [votes EXCEPT ![r] = {}]
           \/ UNCHANGED votes /\ status'[r] = "blocked"
<1>1. CASE \E vws : AwaitNewViews(r, vws, vs, hqc)
  BY <1>1 DEF AwaitNewViews
<1>2. CASE \E vws : ProcessNewView(r, vws)
  BY <1>2 DEF ProcessNewView
<1>3. CASE CollectNewViews(r, v, q, vs, hqc)
  BY <1>1, <1>2, <1>3 DEF CollectNewViews
<1> QED
  BY <1>1, <1>3 DEF EnterView

\* What is left of the votes when a view is abandoned or its decision learnt.
LEMMA LeaveKeepsLists ==
    ASSUME CountsBefore, ListsInv, NEW r \in Replica, NEW v, NEW n, NEW q, NEW hqc,
           EnterView(r, v, n, q, votes[r], hqc),
           UNCHANGED <<proposed, finishedVotes>>
    PROVE  ListsInv'
<1>1. DOMAIN votes = Replica /\ DOMAIN status = Replica
  BY DEF CountsBefore, Before, TypeOK
<1>2. \A d \in Replica : votes'[d] \subseteq votes[d]
  BY <1>1, EnterViewVotes
<1> QED
  BY <1>2, FewerVotesKeepLists

LEMMA DispatchKeepsLists ==
    ASSUME CountsBefore, ListsInv, NeverStuck', NEW r \in Replica,
           NEW m \in InTransit(r), NEW n, NEW q, Dispatch(r, m, n, q),
           UNCHANGED proposed
    PROVE  ListsInv'
<1> USE DEF leaderVars
<1>1. CASE UNCHANGED <<votes, finishedVotes>>
  BY <1>1, FewerVotesKeepLists
<1>2. CASE \/ m.type = "Prepare" /\ OnReceivePrepare(r, m, n, q)
           \/ m.type = "PrepareVote" /\ OnReceivePrepareVote(r, m, n, q)
           \/ m.type = "PreCommit" /\ OnReceivePreCommit(r, m, n, q)
           \/ m.type = "PreCommitVote" /\ OnReceivePreCommitVote(r, m, n, q)
           \/ m.type = "Commit" /\ OnReceiveCommit(r, m, n, q)
  BY <1>2, PhaseKeepsLists DEF CountsBefore
<1>3. CASE m.type = "CommitVote" /\ OnReceiveCommitVote(r, m, n, q)
  <2>1. CASE /\ IsFresh(r, m)
             /\ FinishVotes(r, m)
             /\ \E p : EnterView(r, view[r] + 1, p, q, LeftVotes(r, m), highQC[r])
    <3>1. DOMAIN status = Replica
      BY DEF CountsBefore, Before, TypeOK
    <3>2. \/ votes' = [votes EXCEPT ![r] = LeftVotes(r, m)]
          \/ votes' = [votes EXCEPT ![r] = {}]
      BY <2>1, <3>1, EnterViewVotes DEF NeverStuck
    <3> QED
      BY <1>3, <2>1, <3>2, DecideKeepsLists DEF CountsBefore, VoteType
  <2>2. CASE IsFresh(r, m) /\ StoreVote(r, m, n, q)
    BY <2>2, StoreVoteKeepsLists DEF CountsBefore
  <2> QED
    BY <1>1, <1>3, <2>1, <2>2 DEF OnReceiveCommitVote, Ignore
<1>4. CASE m.type = "Decide" /\ OnReceiveDecide(r, m, n, q)
  BY <1>1, <1>4, LeaveKeepsLists DEF OnReceiveDecide, Ignore
<1>5. CASE m.type = "NewView" /\ OnReceiveNewView(r, m, n, q)
  <2>1. CASE Ignore(r, n, q)
    BY <1>1, <2>1 DEF Ignore
  <2>2. CASE /\ UNCHANGED finishedVotes
             /\ \/ \E vws : ProcessNewView(r, vws)
                \/ \E vws, hqc : AwaitNewViews(r, vws, votes[r], hqc)
    <3>1. DOMAIN votes = Replica
      BY DEF CountsBefore, Before, TypeOK
    <3>2. \A d \in Replica : votes'[d] \subseteq votes[d]
      BY <2>2, <3>1 DEF ProcessNewView, AwaitNewViews
    <3> QED
      BY <2>2, <3>2, FewerVotesKeepLists
  <2> QED
    BY <1>5, <2>1, <2>2 DEF OnReceiveNewView
<1> QED
  BY <1>2, <1>3, <1>4, <1>5 DEF Dispatch

LEMMA NextKeepsLists ==
    ASSUME CountsBefore, ListsInv, NeverStuck', [Next]_vars
    PROVE  ListsInv'
<1>1. CASE Calm
  BY <1>1, FewerVotesKeepLists DEF Calm
<1>2. ASSUME NEW r \in Replica, NEW m, NEW n, NEW q, Delivers(r, m, n, q),
             Dispatch(r, m, n, q)
      PROVE  ListsInv'
  BY <1>2, DispatchKeepsLists DEF Delivers
<1>3. ASSUME NEW r \in Replica, Timeout(r) PROVE ListsInv'
  BY <1>3, LeaveKeepsLists DEF Timeout, requestVars
<1>4. ASSUME NEW r \in Replica, HandleReq(r) PROVE ListsInv'
  BY <1>4, ProposeKeepsLists DEF CountsBefore
<1> QED
  BY <1>1, <1>2, <1>3, <1>4, NextDelivers

\* The votes of a phase that has ended with a certificate are not collected
\* again, though more of them come: no list waits for what will never follow.
THEOREM NoSecondListCorrect ==
    ASSUME TotalNumber # 6
    PROVE  Spec => []NoSecondList
<1>1. Before => BlocksAsked /\ NeverStuck
  BY BeforeAsksBlocks DEF Before, IInv, LocalInv
<1>2. /\ Before /\ Before' /\ CountingInv /\ NewViewsOnce /\ ListsInv
      /\ [Next]_vars
      => ListsInv'
  <2>1. Before' => BlocksAsked' /\ NeverStuck'
    BY <1>1, PTL
  <2> QED
    BY <1>1, <2>1, NextKeepsLists, BeforeIsSafe, BeforeIsShaped
       DEF CountsBefore, CountingBefore
<1>3. ListsInv => NoSecondList
  BY DEF ListsInv
<1> QED
  BY <1>2, <1>3, InitLists, CountingCorrect, SafetyInvCorrect, PTL DEF Spec

LEMMA RepeatedStep ==
    ASSUME Before, RepeatedOnlyIfMissed, [Next]_vars
    PROVE  RepeatedOnlyIfMissed'
<1>1. /\ \A r \in Replica : view[r] \in Nat
      /\ \A x \in proposed : /\ x.view \in Nat /\ x.proposer \in Replica
                             /\ x.view <= view[x.proposer]
  <2>1. \A x \in proposed : x.view \in Nat
    BY ProposedViews, BeforeIsSafe
  <2> QED
    BY <2>1, LeaderIsReplica
       DEF Before, TypeOK, IInv, LocalInv, ProposedByLeader, View
<1>2. CASE UNCHANGED <<proposed, executed>>
  BY <1>2 DEF RepeatedOnlyIfMissed
<1>3. ASSUME UNCHANGED proposed, NEW r \in Replica, NEW b, Advances(r, b)
      PROVE  RepeatedOnlyIfMissed'
  <2>1. /\ b.view = view[r]
        /\ executed'[r] = executed[r] \cup {b}
        /\ \A s \in Replica \ {r} : executed'[s] = executed[s]
    BY <1>3 DEF Advances, Execute, Before, TypeOK
  <2>2. \A x \in proposed : x.proposer = r => ~(b.view < x.view)
    BY <1>1, <2>1
  <2> QED
    BY <1>1, <1>3, <2>1, <2>2 DEF RepeatedOnlyIfMissed
<1>4. ASSUME NEW r \in Replica, NEW b, Proposes(r, b)
      PROVE  RepeatedOnlyIfMissed'
  BY <1>4 DEF Proposes, RepeatedOnlyIfMissed
<1>5. CASE HandlerStep
  BY <1>2, <1>3, <1>5 DEF HandlerStep
<1>6. ASSUME NEW r \in Replica, Timeout(r) PROVE RepeatedOnlyIfMissed'
  BY <1>2, <1>6 DEF Timeout, requestVars, chainVars
<1>7. CASE Quiet
  BY <1>2, <1>7 DEF Quiet
<1> QED
  BY <1>4, <1>5, <1>6, <1>7, DispatchAdvances, ReqProposes, NextHandles DEF Handled

\* A leader never proposes what it has executed: a command that is executed in
\* two blocks was missed by the leader of the second one, for good.
THEOREM RepeatedOnlyIfMissedCorrect ==
    ASSUME TotalNumber # 6
    PROVE  Spec => []RepeatedOnlyIfMissed
<1>1. Init => RepeatedOnlyIfMissed
  BY DEF Init, RepeatedOnlyIfMissed
<1> QED
  BY <1>1, RepeatedStep, SafetyInvCorrect, PTL DEF Spec
=============================================================================
