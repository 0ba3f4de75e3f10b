---------------------------- MODULE Safety_proofs ----------------------------
(***************************************************************************)
(* Agreement, with or without the pacemaker, for every number of replicas  *)
(* but six, of faulty ones, of commands, whatever timeouts fire and        *)
(* messages get lost.                                                      *)
(*                                                                         *)
(* SafetyInv says what the votes, the reports and the certificates that    *)
(* are about tell of each other.  The effects (CertEffect, ...) say what a *)
(* step may do to them, whichever handler it is: first the invariant is    *)
(* shown to survive any step with these, then the handlers that both kinds *)
(* of replica have to have them.  At the end stands what the invariant     *)
(* means for the blocks.                                                   *)
(***************************************************************************)
EXTENDS Operators_proofs, WellFoundedInduction

(* What a replica's certificates and votes say about the blocks. *)

Transit == UNION {InTransit(r) : r \in Replica}

\* A replica reports its PrepareQC to the leader of a view: in the new-view message
\* of basic HotStuff, or with its vote for the timeout certificate.
ReportMsg == [type : {"NewView", "TimeoutVote"}, view : View, from : Replica,
              qc : QuorumCert]

\* The reports that are under way or collected.
Reports == {m \in Transit : m \in ReportMsg} \cup UNION {highQCTmp[r] : r \in Replica}

\* A vote of s for the block of view v is under way or stored.
VotedFor(type, s, v) ==
    \/ \E m \in Transit : m.type = type /\ m.from = s /\ m.view = v
    \/ \E r \in Replica : \E b \in proposed :
          b.view = v /\ OwnVote(s, type, b) \in votes[r]

\* What s reports, in messages of views after v, is of view v or later.
Backs(s, v) ==
    /\ prepareQC[s].view >= v
    /\ \A m \in Reports : m.from = s /\ m.view > v => m.qc.view >= v

\* The views and certificates of the proposals, made or about to be made, that
\* follow a view change.
Candidates ==
    {<<b.view, b.cert>> : b \in {x \in proposed : x.view >= 2}}
        \cup {<<view[r], highQC[r]>> :
                 r \in {x \in Replica : viewChanged[x] /\ Leader(x) = x}}

\* Some replica has locked the block of view v, or is about to.
LockedIn(v) ==
    \/ \E r \in Replica : preCommitQC[r].view = v
    \/ \E m \in Transit : m.type \in {"Commit", "Decide"} /\ m.view = v
    \/ \E s \in Replica : VotedFor("CommitVote", s, v)
    \/ \E r \in Replica : \E b \in executed[r] : b.view = v

DecidedIn(v) ==
    \/ \E m \in Transit : m.type = "Decide" /\ m.view = v
    \/ \E r \in Replica : \E b \in executed[r] : b.view = v

\* The certificates of blocks, and those of none.
Certs == {ZeroQC, GenesisQC} \cup {CreateQuorumCert(b) : b \in proposed}

\* The types that matter here; of the messages only the reports' do.
SafetyTypeOK ==
    /\ view \in [Replica -> View]
    /\ prepareQC \in [Replica -> QuorumCert]
    /\ preCommitQC \in [Replica -> QuorumCert]
    /\ highQC \in [Replica -> QuorumCert]
    /\ votes \in [Replica -> SUBSET VoteRecord]
    /\ highQCTmp \in [Replica -> SUBSET ReportMsg]
    /\ viewChanged \in [Replica -> BOOLEAN]
    /\ executed \in [Replica -> SUBSET Block]
    /\ clock \in [Replica -> Nat]
    /\ proposed \in SUBSET Block
    /\ DOMAIN msgQueue = Replica

-----------------------------------------------------------------------------
(* The invariant. *)

\* A hash belongs to one block.
HashesKnown ==
    /\ \A b \in proposed : /\ b.hash[1] = b.proposer
                           /\ b.hash[2] >= 2
                           /\ b.hash[2] < clock[b.proposer]
    /\ \A a, b \in proposed : a.hash = b.hash => a = b
    /\ \A r \in Replica : clock[r] >= 2
    /\ \A r \in Replica : \A x \in votes[r] : \E b \in proposed : b.hash = x.hash

\* Certificates are of proposed blocks, of an earlier view than what is built on
\* them.
CertsKnown ==
    /\ \A r \in Replica : /\ prepareQC[r] \in Certs
                          /\ prepareQC[r].view <= view[r]
                          /\ preCommitQC[r] \in Certs \ {ZeroQC}
                          /\ preCommitQC[r].view <= view[r]
                          /\ view[r] = 1 => highQC[r] = GenesisQC
    /\ \A p \in Candidates : p[2] \in Certs /\ p[2].view < p[1]
    /\ \A b \in proposed : b.cert \in Certs /\ b.cert.view < b.view

\* A replica reports in the view it is in.
ReportsKnown ==
    \A m \in Reports : /\ m.qc \in Certs
                       /\ m.qc.view <= m.view
                       /\ m.view <= view[m.from]

\* The leader's messages carry the certificate of their block, and a decided
\* block is executed by its proposer first.
LeaderMsgsKnown ==
    \A m \in Transit :
        /\ m.type \in {"PreCommit", "Commit", "Decide"} =>
               m.qc = CreateQuorumCert(m.block)
        /\ m.type = "Decide" => /\ m.block.proposer \in Replica
                               /\ m.block \in executed[m.block.proposer]

ExecutedKnown ==
    \A r \in Replica : \A b \in executed[r] : b \in proposed /\ b.view < view[r]

\* A vote stands for a certificate that the voter has, and will report.
VotesBacked ==
    \A s \in Replica : \A v \in View :
        /\ VotedFor("PreCommitVote", s, v) => Backs(s, v)
        /\ VotedFor("CommitVote", s, v) => preCommitQC[s].view >= v

\* A view change heard of a quorum, whose members had voted for nothing later
\* than what it picked when they got to its view.
CandidatesInformed ==
    \A p \in Candidates :
        /\ p[1] >= 2
        /\ \E Q \in Quorums : \A s \in Q :
              /\ view[s] >= p[1]
              /\ \A v \in View : v < p[1] /\ VotedFor("PreCommitVote", s, v) =>
                                     p[2].view >= v

\* A quorum stands behind what is locked, and no later view change has missed
\* it.
LocksChosen ==
    \A v \in View : v >= 1 /\ LockedIn(v) =>
        /\ \E Q \in Quorums : \A s \in Q : Backs(s, v)
        /\ \A p \in Candidates : p[1] > v => p[2].view >= v

\* A quorum has locked what is decided.
DecisionsLocked ==
    \A v \in View : DecidedIn(v) =>
        \E Q \in Quorums : \A s \in Q : preCommitQC[s].view >= v

SafetyInv ==
    /\ HashesKnown
    /\ CertsKnown
    /\ ReportsKnown
    /\ LeaderMsgsKnown
    /\ ExecutedKnown
    /\ VotesBacked
    /\ CandidatesInformed
    /\ LocksChosen
    /\ DecisionsLocked

-----------------------------------------------------------------------------
(* What a step may do. *)

\* A report that m.from sends or keeps in the view it is in or gets to.
Fresh(m) ==
    /\ m \in ReportMsg
    /\ m.qc = prepareQC[m.from]
    /\ view[m.from] <= m.view /\ m.view <= view'[m.from]

Reported(m) == m \in Reports \/ Fresh(m)

\* A certificate of the block of the current view of s.
NewCert(s, qc) == \E b \in proposed : b.view = view[s] /\ qc = CreateQuorumCert(b)

\* A view change that picks p[2] for the proposal of view p[1].
PickedFrom(p) ==
    /\ \E Q \in Quorums : \A s \in Q : \E m : /\ Reported(m)
                                              /\ m.from = s
                                              /\ m.view = p[1]
                                              /\ m.qc.view <= p[2].view
    /\ p[1] >= 2
    /\ p[2] \in Certs
    /\ p[2].view < p[1]

CertEffect ==
    /\ proposed \subseteq proposed'
    /\ \A s \in Replica :
        /\ view'[s] >= view[s]
        /\ prepareQC'[s] = prepareQC[s] \/ NewCert(s, prepareQC'[s])
        /\ preCommitQC'[s] = preCommitQC[s] \/ NewCert(s, preCommitQC'[s])
        /\ view'[s] = 1 => highQC'[s] = highQC[s]

ReportEffect == \A m \in Reports' : Reported(m)

VoteEffect ==
    \A s \in Replica : \A v \in View :
        /\ VotedFor("PreCommitVote", s, v)' =>
              \/ VotedFor("PreCommitVote", s, v)
              \/ v = view[s] /\ view'[s] = view[s] /\ prepareQC'[s].view = v
        /\ VotedFor("CommitVote", s, v)' =>
              VotedFor("CommitVote", s, v) \/ preCommitQC'[s].view = v

CandidateEffect == \A p \in Candidates' : p \in Candidates \/ PickedFrom(p)

LockEffect ==
    \A v \in View :
        /\ v >= 1 /\ LockedIn(v)' =>
              \/ LockedIn(v)
              \/ \E Q \in Quorums : \A s \in Q : VotedFor("PreCommitVote", s, v)
        /\ DecidedIn(v)' =>
              \/ DecidedIn(v)
              \/ \E Q \in Quorums : \A s \in Q : VotedFor("CommitVote", s, v)

-----------------------------------------------------------------------------
(* The invariant survives it. *)

LEMMA ReportTypes ==
    ASSUME SafetyTypeOK, NEW m, Reported(m)
    PROVE  /\ m \in ReportMsg
           /\ m.from \in Replica
           /\ m.view \in Nat /\ m.view \in View
           /\ m.qc.view \in Nat /\ m.qc \in QuorumCert
<1>1. m \in ReportMsg
  BY DEF Reported, Reports, Fresh, SafetyTypeOK
<1> QED
  BY <1>1 DEF ReportMsg, View, QuorumCert

LEMMA CertViews ==
    ASSUME SafetyTypeOK, NEW qc \in Certs
    PROVE  qc \in QuorumCert /\ qc.view \in Nat
BY QCType, QuorumCertType DEF Certs, SafetyTypeOK, QuorumCert, View

\* The views of what a replica prepared and locked only grow.
LEMMA CertsGrow ==
    ASSUME SafetyTypeOK, CertsKnown, CertEffect, NEW s \in Replica
    PROVE  /\ view[s] \in Nat /\ view'[s] \in Nat => view'[s] >= view[s]
           /\ prepareQC[s].view \in Nat /\ prepareQC'[s].view \in Nat
           /\ prepareQC'[s].view >= prepareQC[s].view
           /\ prepareQC'[s].view <= view[s]
           /\ preCommitQC[s].view \in Nat /\ preCommitQC'[s].view \in Nat
           /\ preCommitQC'[s].view >= preCommitQC[s].view
           /\ preCommitQC'[s].view <= view[s]
<1>1. /\ view[s] \in Nat /\ prepareQC[s].view \in Nat /\ preCommitQC[s].view \in Nat
      /\ prepareQC[s].view <= view[s] /\ preCommitQC[s].view <= view[s]
  BY DEF SafetyTypeOK, View, QuorumCert, CertsKnown
<1>2. \A qc : NewCert(s, qc) => qc.view = view[s]
  BY DEF NewCert, CreateQuorumCert
<1> QED
  BY <1>1, <1>2 DEF CertEffect

LEMMA BacksKept ==
    ASSUME SafetyTypeOK, CertsKnown, CertEffect, ReportEffect,
           NEW s \in Replica, NEW v \in View, Backs(s, v)
    PROVE  /\ Backs(s, v)'
           /\ \A m : Reported(m) /\ m.from = s /\ m.view > v => m.qc.view >= v
<1>1. \A m : Reported(m) /\ m.from = s /\ m.view > v => m.qc.view >= v
  BY DEF Backs, Reported, Fresh
<1>2. prepareQC'[s].view >= v
  BY CertsGrow DEF Backs, View
<1> QED
  BY <1>1, <1>2 DEF Backs, ReportEffect

LEMMA VotesBackedKept ==
    ASSUME SafetyTypeOK, CertsKnown, ReportsKnown, VotesBacked,
           CertEffect, ReportEffect, VoteEffect
    PROVE  VotesBacked'
<1> SUFFICES ASSUME NEW s \in Replica, NEW v \in View
             PROVE  /\ VotedFor("PreCommitVote", s, v)' => Backs(s, v)'
                    /\ VotedFor("CommitVote", s, v)' => preCommitQC'[s].view >= v
  BY DEF VotesBacked
<1>1. ASSUME VotedFor("PreCommitVote", s, v)' PROVE Backs(s, v)'
  <2>1. CASE VotedFor("PreCommitVote", s, v)
    BY <2>1, BacksKept DEF VotesBacked
  <2>2. CASE v = view[s] /\ view'[s] = view[s] /\ prepareQC'[s].view = v
    <3>1. ASSUME NEW m \in Reports', m.from = s
          PROVE  m.view <= v
      <4>1. Reported(m) /\ m.view \in Nat
        BY ReportTypes DEF ReportEffect
      <4> QED
        BY <2>2, <3>1, <4>1 DEF Reported, Fresh, ReportsKnown, SafetyTypeOK, View
    <3>2. \A m \in Reports' : m.view \in Nat
      BY ReportTypes DEF ReportEffect
    <3> QED
      BY <2>2, <3>1, <3>2 DEF Backs, View
  <2> QED
    BY <1>1, <2>1, <2>2 DEF VoteEffect
<1>2. ASSUME VotedFor("CommitVote", s, v)' PROVE preCommitQC'[s].view >= v
  <2>1. CASE VotedFor("CommitVote", s, v)
    BY <2>1, CertsGrow DEF VotesBacked, View
  <2> QED
    BY <1>2, <2>1 DEF VoteEffect, View
<1> QED
  BY <1>1, <1>2

LEMMA CandidatesInformedKept ==
    ASSUME SafetyTypeOK, SafetyTypeOK', CertsKnown, ReportsKnown, VotesBacked,
           CandidatesInformed,
           CertEffect, ReportEffect, VoteEffect, CandidateEffect
    PROVE  CandidatesInformed'
<1> SUFFICES ASSUME NEW p \in Candidates'
             PROVE  /\ p[1] >= 2
                    /\ \E Q \in Quorums : \A s \in Q :
                          /\ view'[s] >= p[1]
                          /\ \A v \in View :
                                v < p[1] /\ VotedFor("PreCommitVote", s, v)' =>
                                    p[2].view >= v
  BY DEF CandidatesInformed
<1>1. CASE p \in Candidates
  <2>1. p[1] \in Nat /\ p[1] >= 2
    BY <1>1 DEF CandidatesInformed, Candidates, SafetyTypeOK, Block, View
  <2>2. PICK Q \in Quorums : \A s \in Q :
              /\ view[s] >= p[1]
              /\ \A v \in View : v < p[1] /\ VotedFor("PreCommitVote", s, v) =>
                                     p[2].view >= v
    BY <1>1 DEF CandidatesInformed
  <2>3. ASSUME NEW s \in Q
        PROVE  /\ view'[s] >= p[1]
               /\ \A v \in View : v < p[1] /\ VotedFor("PreCommitVote", s, v)' =>
                                      p[2].view >= v
    <3>1. s \in Replica /\ view[s] \in Nat /\ view'[s] \in Nat /\ view'[s] >= view[s]
      BY DEF Quorums, SafetyTypeOK, View, CertEffect
    <3> QED
      BY <2>1, <2>2, <3>1 DEF VoteEffect, View
  <2> QED
    BY <2>1, <2>3
<1>2. ASSUME PickedFrom(p)
      PROVE  /\ p[1] >= 2
             /\ \E Q \in Quorums : \A s \in Q :
                   /\ view'[s] >= p[1]
                   /\ \A v \in View :
                         v < p[1] /\ VotedFor("PreCommitVote", s, v)' =>
                             p[2].view >= v
  <2>1. PICK Q \in Quorums : \A s \in Q : \E m : /\ Reported(m)
                                                    /\ m.from = s
                                                    /\ m.view = p[1]
                                                    /\ m.qc.view <= p[2].view
    BY <1>2 DEF PickedFrom
  <2>2. ASSUME NEW s \in Q
        PROVE  /\ view'[s] >= p[1]
               /\ \A v \in View : v < p[1] /\ VotedFor("PreCommitVote", s, v)' =>
                                      p[2].view >= v
    <3>1. s \in Replica /\ view[s] \in Nat /\ view'[s] \in Nat /\ view'[s] >= view[s]
      BY DEF Quorums, SafetyTypeOK, View, CertEffect
    <3>2. PICK m : Reported(m) /\ m.from = s /\ m.view = p[1] /\ m.qc.view <= p[2].view
      BY <2>1
    <3>3. /\ Reported(m) /\ m.view = p[1]
          /\ m.view \in Nat /\ m.qc.view \in Nat
          /\ m.qc.view <= p[2].view /\ p[2].view \in Nat
      BY <1>2, <3>2, ReportTypes, CertViews DEF PickedFrom
    <3>4. m.view <= view'[s]
      BY <3>1, <3>2, <3>3 DEF Reported, Fresh, ReportsKnown
    <3>5. ASSUME NEW v \in View, v < p[1], VotedFor("PreCommitVote", s, v)'
          PROVE  p[2].view >= v
      <4>1. CASE VotedFor("PreCommitVote", s, v)
        <5>1. Backs(s, v)
          BY <3>1, <4>1 DEF VotesBacked
        <5>2. m.qc.view >= v
          BY <3>1, <3>2, <3>3, <3>5, <5>1, BacksKept
        <5> QED
          BY <3>3, <5>2 DEF View
      <4>2. CASE v = view[s] /\ view'[s] = view[s]
        BY <3>1, <3>3, <3>4, <3>5, <4>2
      <4> QED
        BY <3>1, <3>5, <4>1, <4>2 DEF VoteEffect
    <3> QED
      BY <3>3, <3>4, <3>5
  <2> QED
    BY <1>2, <2>2 DEF PickedFrom
<1> QED
  BY <1>1, <1>2 DEF CandidateEffect

LEMMA LocksChosenKept ==
    ASSUME TotalNumber # 6,
           SafetyTypeOK, SafetyTypeOK', CertsKnown, ReportsKnown, VotesBacked,
           CandidatesInformed, LocksChosen,
           CertEffect, ReportEffect, VoteEffect, CandidateEffect, LockEffect
    PROVE  LocksChosen'
<1> SUFFICES ASSUME NEW v \in View, v >= 1, LockedIn(v)'
             PROVE  /\ \E Q \in Quorums : \A s \in Q : Backs(s, v)'
                    /\ \A p \in Candidates' : p[1] > v => p[2].view >= v
  BY DEF LocksChosen
<1>1. PICK Q \in Quorums : \A s \in Q : Backs(s, v)
  <2>1. CASE LockedIn(v)
    BY <2>1 DEF LocksChosen
  <2>2. CASE \E Q \in Quorums : \A s \in Q : VotedFor("PreCommitVote", s, v)
    BY <2>2 DEF VotesBacked, Quorums
  <2> QED
    BY <2>1, <2>2 DEF LockEffect
<1>2. \A s \in Q : s \in Replica
  BY DEF Quorums
<1>3. \A s \in Q : Backs(s, v)'
  BY <1>1, <1>2, BacksKept
<1>4. ASSUME NEW p \in Candidates', p[1] > v
      PROVE  p[2].view >= v
  <2>1. CASE p \in Candidates /\ LockedIn(v)
    BY <1>4, <2>1 DEF LocksChosen
  <2>2. ASSUME p \in Candidates,
               NEW P \in Quorums, \A s \in P : VotedFor("PreCommitVote", s, v)
        PROVE  p[2].view >= v
    <3>1. PICK N \in Quorums : \A s \in N : \A w \in View :
              w < p[1] /\ VotedFor("PreCommitVote", s, w) => p[2].view >= w
      BY <2>2 DEF CandidatesInformed
    <3>2. PICK s \in N : s \in P
      BY QuorumsMeet
    <3>3. p[1] \in Nat
      BY <2>2 DEF Candidates, SafetyTypeOK, Block, View
    <3> QED
      BY <1>4, <2>2, <3>1, <3>2, <3>3 DEF View
  <2>3. ASSUME PickedFrom(p)
        PROVE  p[2].view >= v
    <3>1. PICK N \in Quorums : \A s \in N : \E m : /\ Reported(m)
                                                      /\ m.from = s
                                                      /\ m.view = p[1]
                                                      /\ m.qc.view <= p[2].view
      BY <2>3 DEF PickedFrom
    <3>2. PICK s \in N : s \in Q
      BY QuorumsMeet
    <3>3. PICK m : Reported(m) /\ m.from = s /\ m.view = p[1] /\ m.qc.view <= p[2].view
      BY <3>1, <3>2
    <3>4. /\ Reported(m) /\ m.view = p[1]
          /\ m.qc.view \in Nat
          /\ m.qc.view <= p[2].view /\ p[2].view \in Nat
      BY <2>3, <3>3, ReportTypes, CertViews DEF PickedFrom
    <3>5. s \in Replica /\ Backs(s, v)
      BY <1>1, <1>2, <3>2
    <3>6. m.qc.view >= v
      BY <1>4, <3>3, <3>4, <3>5, BacksKept
    <3> QED
      BY <3>4, <3>6 DEF View
  <2>4. \/ p \in Candidates
        \/ PickedFrom(p)
    BY DEF CandidateEffect
  <2>5. \/ LockedIn(v)
        \/ \E P \in Quorums : \A s \in P : VotedFor("PreCommitVote", s, v)
    BY DEF LockEffect
  <2> QED
    BY <2>1, <2>2, <2>3, <2>4, <2>5
<1> QED
  BY <1>3, <1>4

LEMMA DecisionsLockedKept ==
    ASSUME SafetyTypeOK, CertsKnown, VotesBacked, DecisionsLocked, CertEffect, LockEffect
    PROVE  DecisionsLocked'
<1> SUFFICES ASSUME NEW v \in View, DecidedIn(v)'
             PROVE  \E Q \in Quorums : \A s \in Q : preCommitQC'[s].view >= v
  BY DEF DecisionsLocked
<1>1. PICK Q \in Quorums : \A s \in Q : preCommitQC[s].view >= v
  <2>1. CASE DecidedIn(v)
    BY <2>1 DEF DecisionsLocked
  <2>2. CASE \E Q \in Quorums : \A s \in Q : VotedFor("CommitVote", s, v)
    BY <2>2 DEF VotesBacked, Quorums
  <2> QED
    BY <2>1, <2>2 DEF LockEffect
<1>2. ASSUME NEW s \in Q PROVE preCommitQC'[s].view >= v
  <2>1. s \in Replica /\ preCommitQC[s].view >= v
    BY <1>1 DEF Quorums
  <2> QED
    BY <2>1, CertsGrow DEF View
<1> QED
  BY <1>2

LEMMA ReportsKnownKept ==
    ASSUME SafetyTypeOK, SafetyTypeOK', CertsKnown, ReportsKnown, CertEffect, ReportEffect
    PROVE  ReportsKnown'
<1>1. Certs \subseteq Certs'
  BY DEF Certs, CertEffect
<1> SUFFICES ASSUME NEW m \in Reports'
             PROVE  m.qc \in Certs' /\ m.qc.view <= m.view /\ m.view <= view'[m.from]
  BY DEF ReportsKnown
<1>2. Reported(m)
  BY DEF ReportEffect
<1>3. m.from \in Replica /\ m.view \in Nat /\ m.qc.view \in Nat
  BY <1>2, ReportTypes
<1>4. /\ view[m.from] \in Nat /\ view'[m.from] \in Nat
      /\ view'[m.from] >= view[m.from]
  BY <1>3 DEF SafetyTypeOK, View, CertEffect
<1>5. CASE m \in Reports
  BY <1>1, <1>3, <1>4, <1>5 DEF ReportsKnown
<1>6. CASE Fresh(m)
  <2>1. /\ m.qc = prepareQC[m.from]
        /\ view[m.from] <= m.view /\ m.view <= view'[m.from]
    BY <1>6 DEF Fresh
  <2>2. prepareQC[m.from] \in Certs /\ prepareQC[m.from].view <= view[m.from]
    BY <1>3 DEF CertsKnown
  <2> QED
    BY <1>1, <1>3, <1>4, <2>1, <2>2
<1> QED
  BY <1>2, <1>5, <1>6 DEF Reported

-----------------------------------------------------------------------------
(* A step of replica r in the terms of the effects: it may send the messages *)
(* of new and store the votes of recs.                                       *)

Touches(r, new, recs) ==
    /\ UNCHANGED <<proposed, clock>>
    /\ \A x \in Transit' : x \in Transit \/ x \in new
    /\ \A s \in Replica : \A x \in votes'[s] : x \in votes[s] \/ x \in recs
    /\ \A x \in recs : \E b \in proposed : b.hash = x.hash
    /\ \A s \in Replica \ {r} :
        /\ view'[s] = view[s]
        /\ prepareQC'[s] = prepareQC[s]
        /\ preCommitQC'[s] = preCommitQC[s]
        /\ highQC'[s] = highQC[s]
        /\ highQCTmp'[s] = highQCTmp[s]
        /\ viewChanged'[s] = viewChanged[s]
        /\ executed'[s] = executed[s]

\* Its certificates.
CertStep(r) ==
    /\ view'[r] >= view[r]
    /\ prepareQC'[r] = prepareQC[r] \/ NewCert(r, prepareQC'[r])
    /\ preCommitQC'[r] = preCommitQC[r] \/ NewCert(r, preCommitQC'[r])
    /\ view'[r] = 1 => highQC'[r] = highQC[r]

\* The reports that it sends and keeps.
ReportStep(r, new) ==
    /\ \A x \in new : x \in ReportMsg => Fresh(x)
    /\ \A x \in highQCTmp'[r] : Reported(x)

\* The votes that it casts.
NewVote(new, recs, type, s, v) ==
    \/ \E x \in new : x.type = type /\ x.from = s /\ x.view = v
    \/ \E b \in proposed : b.view = v /\ OwnVote(s, type, b) \in recs

VoteStep(r, new, recs) ==
    \A s \in Replica : \A v \in View :
        /\ NewVote(new, recs, "PreCommitVote", s, v) =>
              \/ VotedFor("PreCommitVote", s, v)
              \/ /\ s = r /\ v = view[r] /\ view'[r] = view[r]
                 /\ prepareQC'[r].view = v
        /\ NewVote(new, recs, "CommitVote", s, v) =>
              \/ VotedFor("CommitVote", s, v)
              \/ s = r /\ preCommitQC'[r].view = v

\* The view change that it finishes.
PickStep(r) ==
    viewChanged'[r] /\ GetLeaderByView(view'[r]) = r =>
        \/ viewChanged[r] /\ view'[r] = view[r] /\ highQC'[r] = highQC[r]
        \/ PickedFrom(<<view'[r], highQC'[r]>>)

\* The blocks that it executes.
ExecStep(r) ==
    \A b \in executed'[r] :
        b \in executed[r] \/ (b \in proposed /\ b.view < view'[r])

\* The certificates that it sends.
MsgStep(r, new) ==
    /\ executed[r] \subseteq executed'[r]
    /\ \A x \in new :
        /\ x.type \in {"PreCommit", "Commit", "Decide"} =>
               x.qc = CreateQuorumCert(x.block)
        /\ x.type = "Decide" => /\ x.block.proposer \in Replica
                               /\ x.block \in executed'[x.block.proposer]

\* What it locks and decides.
LockStep(r, new, recs) ==
    \A v \in View :
        /\ \/ preCommitQC'[r] # preCommitQC[r] /\ preCommitQC'[r].view = v
           \/ \E x \in new : x.type \in {"Commit", "Decide"} /\ x.view = v
           \/ \E s \in Replica : NewVote(new, recs, "CommitVote", s, v)
           \/ \E b \in executed'[r] \ executed[r] : b.view = v
           => \/ LockedIn(v)
              \/ \E Q \in Quorums : \A s \in Q : VotedFor("PreCommitVote", s, v)
        /\ \/ \E x \in new : x.type = "Decide" /\ x.view = v
           \/ \E b \in executed'[r] \ executed[r] : b.view = v
           => \/ DecidedIn(v)
              \/ \E Q \in Quorums : \A s \in Q : VotedFor("CommitVote", s, v)

\* The votes that are there after the step.
LEMMA VotesAfter ==
    ASSUME NEW r \in Replica, NEW new, NEW recs, Touches(r, new, recs),
           NEW type, NEW s, NEW v, VotedFor(type, s, v)'
    PROVE  VotedFor(type, s, v) \/ NewVote(new, recs, type, s, v)
<1>1. CASE \E x \in Transit' : x.type = type /\ x.from = s /\ x.view = v
  BY <1>1 DEF Touches, VotedFor, NewVote
<1>2. ASSUME NEW t \in Replica, NEW b \in proposed', b.view = v,
             OwnVote(s, type, b) \in votes'[t]
      PROVE  VotedFor(type, s, v) \/ NewVote(new, recs, type, s, v)
  <2>1. OwnVote(s, type, b) \in votes[t] \/ OwnVote(s, type, b) \in recs
    BY <1>2 DEF Touches
  <2> QED
    BY <1>2, <2>1 DEF Touches, VotedFor, NewVote
<1>3. \A b \in proposed' : OwnVote(s, type, b)' = OwnVote(s, type, b)
  BY DEF OwnVote
<1> QED
  BY <1>1, <1>2, <1>3 DEF VotedFor

LEMMA TouchedVotes ==
    ASSUME SafetyTypeOK, NEW r \in Replica, NEW new, NEW recs,
           Touches(r, new, recs), CertStep(r), VoteStep(r, new, recs)
    PROVE  VoteEffect
<1> SUFFICES ASSUME NEW s \in Replica, NEW v \in View
             PROVE  /\ VotedFor("PreCommitVote", s, v)' =>
                          \/ VotedFor("PreCommitVote", s, v)
                          \/ v = view[s] /\ view'[s] = view[s] /\ prepareQC'[s].view = v
                    /\ VotedFor("CommitVote", s, v)' =>
                          VotedFor("CommitVote", s, v) \/ preCommitQC'[s].view = v
  BY DEF VoteEffect
<1> QED
  BY VotesAfter DEF VoteStep

LEMMA TouchedCerts ==
    ASSUME SafetyTypeOK, NEW r \in Replica, NEW new, NEW recs,
           Touches(r, new, recs), CertStep(r)
    PROVE  CertEffect
<1> SUFFICES ASSUME NEW s \in Replica
             PROVE  /\ view'[s] >= view[s]
                    /\ prepareQC'[s] = prepareQC[s] \/ NewCert(s, prepareQC'[s])
                    /\ preCommitQC'[s] = preCommitQC[s] \/ NewCert(s, preCommitQC'[s])
                    /\ view'[s] = 1 => highQC'[s] = highQC[s]
  BY DEF CertEffect, Touches
<1>1. view[s] \in Nat
  BY DEF SafetyTypeOK, View
<1> QED
  BY <1>1 DEF CertStep, Touches

LEMMA TouchedReports ==
    ASSUME NEW r \in Replica, NEW new, NEW recs,
           Touches(r, new, recs), ReportStep(r, new)
    PROVE  ReportEffect
<1> SUFFICES ASSUME NEW m \in Reports' PROVE Reported(m)
  BY DEF ReportEffect
<1>1. CASE m \in Transit' /\ m \in ReportMsg
  BY <1>1 DEF Touches, ReportStep, Reported, Reports
<1>2. ASSUME NEW s \in Replica, m \in highQCTmp'[s] PROVE Reported(m)
  BY <1>2 DEF Touches, ReportStep, Reported, Reports
<1> QED
  BY <1>1, <1>2 DEF Reports

LEMMA TouchedCandidates ==
    ASSUME NEW r \in Replica, NEW new, NEW recs,
           Touches(r, new, recs), PickStep(r)
    PROVE  CandidateEffect
<1> SUFFICES ASSUME NEW p \in Candidates'
             PROVE  p \in Candidates \/ PickedFrom(p)
  BY DEF CandidateEffect
<1>1. CASE p \in {<<b.view, b.cert>> : b \in {x \in proposed' : x.view >= 2}}
  BY <1>1 DEF Touches, Candidates
<1>2. ASSUME NEW s \in Replica, viewChanged'[s], GetLeaderByView(view'[s]) = s,
             p = <<view'[s], highQC'[s]>>
      PROVE  p \in Candidates \/ PickedFrom(p)
  <2>1. CASE s # r
    <3>1. viewChanged[s] /\ Leader(s) = s /\ p = <<view[s], highQC[s]>>
      BY <1>2, <2>1 DEF Touches, Leader
    <3> QED
      BY <3>1 DEF Candidates
  <2>2. CASE s = r
    <3>1. CASE viewChanged[r] /\ view'[r] = view[r] /\ highQC'[r] = highQC[r]
      <4>1. p = <<view[r], highQC[r]>>
        BY <1>2, <2>2, <3>1
      <4> QED
        BY <1>2, <2>2, <3>1, <4>1 DEF Candidates, Leader
    <3>2. CASE PickedFrom(<<view'[r], highQC'[r]>>)
      BY <1>2, <2>2, <3>2
    <3> QED
      BY <1>2, <2>2, <3>1, <3>2 DEF PickStep
  <2> QED
    BY <2>1, <2>2
<1> QED
  BY <1>1, <1>2 DEF Candidates, Leader

LEMMA TouchedLocks ==
    ASSUME NEW r \in Replica, NEW new, NEW recs,
           Touches(r, new, recs), LockStep(r, new, recs)
    PROVE  LockEffect
<1> SUFFICES ASSUME NEW v \in View
             PROVE  /\ LockedIn(v)' =>
                          \/ LockedIn(v)
                          \/ \E Q \in Quorums : \A s \in Q : VotedFor("PreCommitVote", s, v)
                    /\ DecidedIn(v)' =>
                          \/ DecidedIn(v)
                          \/ \E Q \in Quorums : \A s \in Q : VotedFor("CommitVote", s, v)
  BY DEF LockEffect
<1> DEFINE Prepared == \E Q \in Quorums : \A s \in Q : VotedFor("PreCommitVote", s, v)
           Committed == \E Q \in Quorums : \A s \in Q : VotedFor("CommitVote", s, v)
<1>s. /\ \/ preCommitQC'[r] # preCommitQC[r] /\ preCommitQC'[r].view = v
         \/ \E x \in new : x.type \in {"Commit", "Decide"} /\ x.view = v
         \/ \E s \in Replica : NewVote(new, recs, "CommitVote", s, v)
         \/ \E b \in executed'[r] \ executed[r] : b.view = v
         => LockedIn(v) \/ Prepared
      /\ \/ \E x \in new : x.type = "Decide" /\ x.view = v
         \/ \E b \in executed'[r] \ executed[r] : b.view = v
         => DecidedIn(v) \/ Committed
  BY DEF LockStep
<1> HIDE DEF Prepared, Committed
<1>1. ASSUME NEW s \in Replica, preCommitQC'[s].view = v
      PROVE  LockedIn(v) \/ Prepared
  BY <1>1, <1>s DEF Touches, LockedIn
<1>2. ASSUME NEW m \in Transit', m.type \in {"Commit", "Decide"}, m.view = v
      PROVE  LockedIn(v) \/ Prepared
  BY <1>2, <1>s DEF Touches, LockedIn
<1>3. ASSUME NEW s \in Replica, VotedFor("CommitVote", s, v)'
      PROVE  LockedIn(v) \/ Prepared
  BY <1>3, <1>s, VotesAfter DEF LockedIn
<1>4. ASSUME NEW s \in Replica, NEW b \in executed'[s], b.view = v
      PROVE  /\ LockedIn(v) \/ Prepared
             /\ DecidedIn(v) \/ Committed
  BY <1>4, <1>s DEF Touches, LockedIn, DecidedIn
<1>5. ASSUME NEW m \in Transit', m.type = "Decide", m.view = v
      PROVE  DecidedIn(v) \/ Committed
  BY <1>5, <1>s DEF Touches, DecidedIn
<1>6. LockedIn(v)' => LockedIn(v) \/ Prepared
  BY <1>1, <1>2, <1>3, <1>4 DEF LockedIn
<1>7. DecidedIn(v)' => DecidedIn(v) \/ Committed
  BY <1>4, <1>5 DEF DecidedIn
<1> QED
  BY <1>6, <1>7 DEF Prepared, Committed

LEMMA CertsKnownKept ==
    ASSUME SafetyTypeOK, SafetyTypeOK', ViewsPositive, HashesKnown, CertsKnown,
           CertEffect, CandidateEffect,
           \A b \in proposed' :
              \/ b \in proposed
              \/ b.cert = GenesisQC /\ b.view >= 1
              \/ <<b.view, b.cert>> \in Candidates
    PROVE  CertsKnown'
<1>1. \A qc \in Certs : qc \in Certs'
  BY DEF Certs, CertEffect
<1>2. ASSUME NEW s \in Replica, NEW qc, NewCert(s, qc)
      PROVE  qc \in Certs \ {ZeroQC}
  <2>1. PICK b \in proposed : qc = CreateQuorumCert(b)
    BY <1>2 DEF NewCert
  <2>2. b.hash[2] # 0
    BY DEF HashesKnown
  <2>3. qc # ZeroQC
    BY <2>1, <2>2 DEF CreateQuorumCert, ZeroQC, ZeroHash
  <2> QED
    BY <2>1, <2>3 DEF Certs
<1>3. ASSUME NEW s \in Replica
      PROVE  /\ prepareQC'[s] \in Certs'
             /\ prepareQC'[s].view <= view'[s]
             /\ preCommitQC'[s] \in Certs' \ {ZeroQC}
             /\ preCommitQC'[s].view <= view'[s]
             /\ view'[s] = 1 => highQC'[s] = GenesisQC
  <2>1. /\ view[s] \in Nat /\ view'[s] \in Nat /\ view'[s] >= view[s]
        /\ prepareQC'[s].view \in Nat /\ prepareQC'[s].view <= view[s]
        /\ preCommitQC'[s].view \in Nat /\ preCommitQC'[s].view <= view[s]
    BY CertsGrow DEF SafetyTypeOK, View, CertEffect
  <2>2. prepareQC'[s] \in Certs /\ preCommitQC'[s] \in Certs \ {ZeroQC}
    BY <1>2 DEF CertsKnown, CertEffect
  <2>3. view'[s] = 1 => highQC'[s] = GenesisQC
    <3>1. view'[s] = 1 => view[s] = 1
      BY <2>1 DEF ViewsPositive
    <3> QED
      BY <3>1 DEF CertsKnown, CertEffect
  <2> QED
    BY <1>1, <2>1, <2>2, <2>3
<1>4. ASSUME NEW p \in Candidates'
      PROVE  p[2] \in Certs' /\ p[2].view < p[1]
  BY <1>1 DEF CandidateEffect, PickedFrom, CertsKnown
<1>5. ASSUME NEW b \in proposed'
      PROVE  b.cert \in Certs' /\ b.cert.view < b.view
  <2>1. CASE b \in proposed
    BY <1>1, <2>1 DEF CertsKnown
  <2>2. CASE b.cert = GenesisQC /\ b.view >= 1
    BY <2>2 DEF Certs, GenesisQC, SafetyTypeOK, Block, View
  <2>3. CASE <<b.view, b.cert>> \in Candidates
    BY <1>1, <2>3 DEF CertsKnown
  <2> QED
    BY <2>1, <2>2, <2>3
<1> QED
  BY <1>3, <1>4, <1>5 DEF CertsKnown

\* The invariant survives a step with the effects.
LEMMA EffectKeepsSafety ==
    ASSUME TotalNumber # 6, SafetyTypeOK, SafetyTypeOK', ViewsPositive, SafetyInv,
           CertEffect, ReportEffect, VoteEffect, CandidateEffect, LockEffect,
           \A b \in proposed' :
              \/ b \in proposed
              \/ b.cert = GenesisQC /\ b.view >= 1
              \/ <<b.view, b.cert>> \in Candidates,
           HashesKnown', LeaderMsgsKnown', ExecutedKnown'
    PROVE  SafetyInv'
<1> USE DEF SafetyInv
<1>1. CertsKnown'
  BY CertsKnownKept
<1>2. ReportsKnown'
  BY ReportsKnownKept
<1>3. VotesBacked'
  BY VotesBackedKept
<1>4. CandidatesInformed'
  BY CandidatesInformedKept
<1>5. LocksChosen'
  BY LocksChosenKept
<1>6. DecisionsLocked'
  BY DecisionsLockedKept
<1> QED
  BY <1>1, <1>2, <1>3, <1>4, <1>5, <1>6

After == SafetyInv' /\ CertEffect

\* Nothing is reported.
Unreported ==
    /\ \A m \in Reports' : m \in Reports
    /\ UNCHANGED <<view, highQCTmp>>

LEMMA TouchedKeepsSafety ==
    ASSUME TotalNumber # 6, SafetyTypeOK, SafetyTypeOK', ViewsPositive, SafetyInv,
           NEW r \in Replica, NEW new, NEW recs, Touches(r, new, recs),
           CertStep(r), ReportStep(r, new), VoteStep(r, new, recs), PickStep(r),
           ExecStep(r), MsgStep(r, new), LockStep(r, new, recs)
    PROVE  After
<1>1. CertEffect /\ ReportEffect /\ VoteEffect /\ CandidateEffect /\ LockEffect
  BY TouchedCerts, TouchedReports, TouchedVotes, TouchedCandidates, TouchedLocks
     DEF SafetyInv
<1>2. HashesKnown'
  <2>1. UNCHANGED <<proposed, clock>>
    BY DEF Touches
  <2>2. ASSUME NEW s \in Replica, NEW x \in votes'[s]
        PROVE  \E b \in proposed : b.hash = x.hash
    BY DEF Touches, SafetyInv, HashesKnown
  <2> QED
    BY <2>1, <2>2 DEF SafetyInv, HashesKnown
<1>3. LeaderMsgsKnown'
  <2> SUFFICES ASSUME NEW m \in Transit'
               PROVE  /\ m.type \in {"PreCommit", "Commit", "Decide"} =>
                             m.qc = CreateQuorumCert(m.block)
                      /\ m.type = "Decide" =>
                             /\ m.block.proposer \in Replica
                             /\ m.block \in executed'[m.block.proposer]
    BY DEF LeaderMsgsKnown
  <2>1. CASE m \in new
    BY <2>1 DEF MsgStep
  <2>2. CASE m \in Transit
    <3>1. \A s \in Replica : executed[s] \subseteq executed'[s]
      BY DEF MsgStep, Touches
    <3> QED
      BY <2>2, <3>1 DEF SafetyInv, LeaderMsgsKnown
  <2> QED
    BY <2>1, <2>2 DEF Touches
<1>4. ExecutedKnown'
  <2> SUFFICES ASSUME NEW s \in Replica, NEW b \in executed'[s]
               PROVE  b \in proposed /\ b.view < view'[s]
    BY DEF ExecutedKnown, Touches
  <2>1. b \in executed[s] => b.view \in Nat /\ view[s] \in Nat /\ view'[s] \in Nat
    BY DEF SafetyTypeOK, Block, View
  <2>2. view'[s] >= view[s]
    BY <1>1 DEF CertEffect
  <2>3. b \in executed[s] => b \in proposed /\ b.view < view[s]
    BY DEF SafetyInv, ExecutedKnown
  <2> QED
    BY <2>1, <2>2, <2>3 DEF Touches, ExecStep
<1>5. proposed' = proposed
  BY DEF Touches
<1> QED
  BY <1>1, <1>2, <1>3, <1>4, <1>5, EffectKeepsSafety DEF After

\* A step that neither votes, reports nor decides.
Quiet ==
    /\ UNCHANGED <<prepareQC, preCommitQC, view, highQC, highQCTmp,
                   viewChanged, votes, executed, blockChain, proposed,
                   clock>>
    /\ \A x \in Transit' : x \in Transit

LEMMA QuietKeepsSafety ==
    ASSUME TotalNumber # 6, SafetyTypeOK, SafetyTypeOK', ViewsPositive, SafetyInv,
           Quiet
    PROVE  After /\ Unreported
<1> USE DEF Quiet
<1>1. PICK r \in Replica : TRUE
  BY TotalNumberAssumption DEF Replica
<1>2. Touches(r, {}, {})
  BY DEF Touches
<1>3. CertStep(r) /\ ExecStep(r) /\ MsgStep(r, {}) /\ PickStep(r)
  <2>1. view[r] \in Nat
    BY DEF SafetyTypeOK, View
  <2>2. CertStep(r)
    BY <2>1 DEF CertStep
  <2>3. ExecStep(r)
    BY DEF ExecStep
  <2>4. MsgStep(r, {})
    BY DEF MsgStep
  <2>5. PickStep(r)
    BY DEF PickStep
  <2> QED
    BY <2>2, <2>3, <2>4, <2>5
<1>4. ReportStep(r, {})
  BY DEF ReportStep, Reported, Reports
<1>5. VoteStep(r, {}, {}) /\ LockStep(r, {}, {})
  BY DEF VoteStep, LockStep, NewVote
<1>6. Unreported
  BY DEF Unreported, Reports
<1> QED
  BY <1>1, <1>2, <1>3, <1>4, <1>5, <1>6, TouchedKeepsSafety

-----------------------------------------------------------------------------
(* The messages that are under way after a step. *)

Carried(n) == UNION {UNION {{n[s][d][i] : i \in DOMAIN n[s][d]} : d \in Replica} :
                        s \in Replica}

IsNet(n) == \E M : n \in NetOf(M)

LEMMA SendCarried ==
    ASSUME NEW n, IsNet(n), NEW s \in Replica, NEW D \in SUBSET Replica, NEW m
    PROVE  \A x \in Carried(Send(n, s, m, D)) : x \in Carried(n) \/ x = m
<1>1. PICK M : n \in NetOf(M)
  BY DEF IsNet
<1> SUFFICES ASSUME NEW t \in Replica, NEW d \in Replica,
                    NEW i \in DOMAIN Send(n, s, m, D)[t][d]
             PROVE  Send(n, s, m, D)[t][d][i] \in Carried(n)
                       \/ Send(n, s, m, D)[t][d][i] = m
  BY DEF Carried
<1> DEFINE link == Send(n, s, m, D)[t][d]
<1>2. n[t][d] \in Seq(M)
  BY <1>1 DEF NetOf
<1>3. link = n[t][d] \/ link = Append(n[t][d], m)
  BY DEF Send
<1> HIDE DEF link
<1>4. CASE link = n[t][d]
  BY <1>4 DEF Carried, link
<1>5. CASE link = Append(n[t][d], m)
  <2>1. i \in 1..Len(n[t][d]) + 1
    BY <1>2, <1>5 DEF link
  <2>2. CASE i = Len(n[t][d]) + 1
    BY <1>2, <1>5, <2>2 DEF link
  <2>3. CASE i \in 1..Len(n[t][d])
    <3>1. link[i] = n[t][d][i] /\ i \in DOMAIN n[t][d]
      BY <1>2, <1>5, <2>3
    <3> QED
      BY <3>1 DEF Carried, link
  <2> QED
    BY <1>2, <2>1, <2>2, <2>3
<1> QED
  BY <1>3, <1>4, <1>5

LEMMA UnicastCarried ==
    ASSUME NEW n, IsNet(n), NEW s \in Replica, NEW d \in Replica, NEW m
    PROVE  \A x \in Carried(Unicast(n, s, d, m)) : x \in Carried(n) \/ x = m
<1>1. PICK M : n \in NetOf(M)
  BY DEF IsNet
<1>2. Unicast(n, s, d, m) = Send(n, s, m, {d})
  BY <1>1, UnicastSends
<1> QED
  BY <1>2, SendCarried

LEMMA MulticastCarried ==
    ASSUME NEW n, IsNet(n), NEW s \in Replica, NEW m
    PROVE  \A x \in Carried(Multicast(n, s, m)) : x \in Carried(n) \/ x = m
<1>1. PICK M : n \in NetOf(M)
  BY DEF IsNet
<1>2. Multicast(n, s, m) = Send(n, s, m, Replica \ {s})
  BY <1>1, MulticastSends
<1> QED
  BY <1>2, SendCarried

LEMMA TakenCarried ==
    ASSUME IsNet(net), NEW r \in Replica, NEW s \in Replica, net[s][r] # <<>>
    PROVE  /\ Head(net[s][r]) \in Carried(net)
           /\ \A x \in Carried(Taken(r, s)) : x \in Carried(net)
<1>n. PICK M : net \in NetOf(M)
  BY DEF IsNet
<1>1. net[s][r] \in Seq(M)
  BY <1>n DEF NetOf
<1>2. Head(net[s][r]) = net[s][r][1] /\ 1 \in DOMAIN net[s][r]
  BY <1>1
<1>3. ASSUME NEW t \in Replica, NEW d \in Replica, NEW i \in DOMAIN Taken(r, s)[t][d]
      PROVE  Taken(r, s)[t][d][i] \in Carried(net)
  <2>1. CASE t = s /\ d = r
    <3>1. Taken(r, s)[t][d] = Tail(net[s][r])
      BY <1>n, <2>1 DEF Taken, NetOf
    <3>2. i \in 1..Len(net[s][r]) - 1 /\ Taken(r, s)[t][d][i] = net[s][r][i + 1]
      BY <1>1, <1>3, <3>1
    <3>3. i + 1 \in DOMAIN net[s][r]
      BY <1>1, <3>2
    <3> QED
      BY <3>2, <3>3 DEF Carried
  <2>2. CASE ~(t = s /\ d = r)
    <3>1. Taken(r, s)[t][d] = net[t][d]
      BY <1>n, <2>2 DEF Taken, NetOf
    <3> QED
      BY <1>3, <3>1 DEF Carried
  <2> QED
    BY <2>1, <2>2
<1>4. Head(net[s][r]) \in Carried(net)
  BY <1>2 DEF Carried
<1> QED
  BY <1>3, <1>4 DEF Carried

LEMMA TransitParts ==
    \A x : x \in Transit <=> \/ x \in Carried(net)
                             \/ \E d \in Replica : x \in msgQueue[d] \/ x \in hand[d]
BY DEF Transit, InTransit, OnTheWay, Carried

LEMMA TransitAfter ==
    ASSUME NEW new,
           \A x \in Carried(net') : x \in Transit \/ x \in new,
           \A d \in Replica : \A x \in msgQueue'[d] : x \in Transit \/ x \in new,
           \A d \in Replica : \A x \in hand'[d] : x \in Transit \/ x \in new
    PROVE  \A x \in Transit' : x \in Transit \/ x \in new
<1>1. \A x : x \in Transit' <=> \/ x \in Carried(net')
                                \/ \E d \in Replica : x \in msgQueue'[d] \/ x \in hand'[d]
  BY DEF Transit, InTransit, OnTheWay, Carried
<1> QED
  BY <1>1

-----------------------------------------------------------------------------
(* The handlers that stay in the view. *)

\* What the steps below start from.
SafeState ==
    /\ SafetyTypeOK
    /\ ViewsPositive
    /\ ProposedByLeader
    /\ TokenDiscipline
    /\ OneProposalPerView
    /\ SafetyInv

\* Network n and the queue q of r carry messages that were there.
Given(n, q) ==
    /\ IsNet(n)
    /\ \A x \in Carried(n) : x \in Transit
    /\ \A x \in q : x \in Transit
    /\ \A d \in Replica : \A x \in hand'[d] : x \in Transit
    /\ UNCHANGED <<proposed, clock>>

\* Could replica r handle message m, which is about a block?
AboutBlock(r, m) ==
    /\ m \in VoteMsg \cup LeaderMsg
    /\ m \in Transit
    /\ m.block \in proposed /\ m.block.view = m.view
    /\ m.type \in VoteType => GetLeaderByView(m.view) = r
    /\ GetLeaderByView(m.view) = r => m.view = view[r]

LEMMA BlockOfMsg ==
    ASSUME SafetyTypeOK, NEW r \in Replica, NEW m, AboutBlock(r, m)
    PROVE  /\ view[r] \in Nat /\ view[r] \in View
           /\ m.view \in View
           /\ m.block \in proposed /\ m.block \in Block /\ m.block.view = m.view
           /\ CreateQuorumCert(m.block).view = m.view
           /\ m.type \in VoteType \cup LeaderType
           /\ m.type \in VoteType => /\ m.from \in Replica
                                     /\ m.view = view[r]
<1>1. m.block \in Block /\ view[r] \in View
  BY DEF AboutBlock, SafetyTypeOK
<1>2. CASE m \in VoteMsg
  BY <1>1, <1>2 DEF AboutBlock, VoteMsg, View, CreateQuorumCert
<1>3. CASE m \in LeaderMsg
  <2>1. m.type \in LeaderType /\ m.type \notin VoteType
    BY <1>3 DEF LeaderMsg, LeaderType, VoteType
  <2> QED
    BY <1>1, <1>3, <2>1 DEF AboutBlock, LeaderMsg, View, CreateQuorumCert
<1> QED
  BY <1>2, <1>3 DEF AboutBlock

\* r stays in its view, and may get a certificate of its block.
Stays(r, n, q, new, recs) ==
    /\ UNCHANGED <<view, highQC, highQCTmp, viewChanged, executed>>
    /\ msgQueue' = [msgQueue EXCEPT ![r] = q]
    /\ \A x \in Carried(net') : x \in Carried(n) \/ x \in new
    /\ \A s \in Replica : \A x \in votes'[s] : x \in votes[s] \/ x \in recs
    /\ \A x \in recs : \E b \in proposed : b.hash = x.hash
    /\ \A s \in Replica \ {r} : /\ prepareQC'[s] = prepareQC[s]
                                /\ preCommitQC'[s] = preCommitQC[s]
    /\ prepareQC'[r] = prepareQC[r] \/ NewCert(r, prepareQC'[r])
    /\ preCommitQC'[r] = preCommitQC[r] \/ NewCert(r, preCommitQC'[r])
    /\ \A x \in new : /\ x.type \notin {"NewView", "TimeoutVote", "Decide"}
                      /\ x.type \in {"PreCommit", "Commit"} =>
                             x.qc = CreateQuorumCert(x.block)

LEMMA StayKeepsSafety ==
    ASSUME TotalNumber # 6, SafeState, SafetyTypeOK', NEW r \in Replica,
           NEW n, NEW q, Given(n, q), NEW new, NEW recs,
           Stays(r, n, q, new, recs),
           VoteStep(r, new, recs), LockStep(r, new, recs)
    PROVE  After /\ Unreported
<1>0. \A x \in new : x \notin ReportMsg
  BY DEF Stays, ReportMsg
<1>1. Touches(r, new, recs)
  <2>1. \A x \in Transit' : x \in Transit \/ x \in new
    <3>1. \A x \in Carried(net') : x \in Transit \/ x \in new
      BY DEF Given, Stays
    <3>2. \A d \in Replica : \A x \in msgQueue'[d] : x \in Transit \/ x \in new
      BY TransitParts DEF Given, Stays, SafeState, SafetyTypeOK
    <3>3. \A d \in Replica : \A x \in hand'[d] : x \in Transit \/ x \in new
      BY DEF Given
    <3> QED
      BY <3>1, <3>2, <3>3, TransitAfter
  <2> QED
    BY <2>1 DEF Touches, Given, Stays
<1>2. CertStep(r)
  <2>1. view[r] \in Nat
    BY DEF SafeState, SafetyTypeOK, View
  <2> QED
    BY <2>1 DEF CertStep, Stays
<1>3. ReportStep(r, new)
  BY <1>0 DEF Stays, ReportStep, Reported, Reports
<1>4. PickStep(r)
  BY DEF PickStep, Stays
<1>5. ExecStep(r)
  BY DEF ExecStep, Stays
<1>6. MsgStep(r, new)
  BY DEF MsgStep, Stays
<1>7. Unreported
  <2>1. UNCHANGED <<view, highQCTmp>>
    BY DEF Stays
  <2>2. \A x \in Transit' : x \in Transit \/ x \in new
    BY <1>1 DEF Touches
  <2> QED
    BY <1>0, <2>1, <2>2 DEF Unreported, Reports
<1> QED
  BY <1>1, <1>2, <1>3, <1>4, <1>5, <1>6, <1>7, TouchedKeepsSafety DEF SafeState

LEMMA IgnoreKeepsSafety ==
    ASSUME TotalNumber # 6, SafeState, SafetyTypeOK', NEW r \in Replica,
           NEW n, NEW q, Given(n, q), Ignore(r, n, q) \/ Panic(r, n, q)
    PROVE  After /\ Unreported
<1>1. /\ UNCHANGED <<view, highQC, highQCTmp, viewChanged, executed, votes,
                     prepareQC, preCommitQC>>
      /\ msgQueue' = [msgQueue EXCEPT ![r] = q]
      /\ net' = n
  BY DEF Ignore, Panic, leaderVars, viewVars, chainVars
<1>2. VoteStep(r, {}, {}) /\ LockStep(r, {}, {})
  BY <1>1 DEF VoteStep, LockStep, NewVote
<1>3. Stays(r, n, q, {}, {})
  BY <1>1 DEF Stays
<1> QED
  BY <1>2, <1>3, StayKeepsSafety

\* A replica answers the leader of its view.
LEMMA VoteKeepsSafety ==
    ASSUME TotalNumber # 6, SafeState, SafetyTypeOK', NEW r \in Replica,
           NEW m, AboutBlock(r, m), NEW n, NEW q, Given(n, q),
           NEW type \in VoteType, Vote(r, type, m.block, n, q),
           MatchingMsg(r, m),
           \A s \in Replica \ {r} : /\ prepareQC'[s] = prepareQC[s]
                                    /\ preCommitQC'[s] = preCommitQC[s],
           \/ type = "PreCommitVote" /\ prepareQC'[r] = CreateQuorumCert(m.block)
           \/ type # "PreCommitVote" /\ prepareQC'[r] = prepareQC[r],
           \/ /\ type = "CommitVote" /\ m.type = "Commit"
              /\ preCommitQC'[r] = CreateQuorumCert(m.block)
           \/ type # "CommitVote" /\ preCommitQC'[r] = preCommitQC[r]
    PROVE  After /\ Unreported
<1> DEFINE x == VoteFrom(r, type, m.block)
<1>1. /\ UNCHANGED <<view, highQC, highQCTmp, viewChanged, executed, votes>>
      /\ msgQueue' = [msgQueue EXCEPT ![r] = q]
      /\ net' = Unicast(n, r, Leader(r), x)
  BY DEF Vote, leaderVars, viewVars, chainVars
<1>2. /\ m.view = view[r] /\ m.view \in View
      /\ m.block \in proposed /\ m.block \in Block /\ m.block.view = view[r]
      /\ CreateQuorumCert(m.block).view = view[r]
  BY BlockOfMsg DEF SafeState, MatchingMsg, SafetyTypeOK
<1>3. x.type = type /\ x.from = r /\ x.view = view[r]
  BY DEF VoteFrom
<1>4. \A y \in Carried(net') : y \in Carried(n) \/ y \in {x}
  <2>1. Leader(r) \in Replica
    BY LeaderIsReplica DEF Leader, SafeState, SafetyTypeOK
  <2> QED
    BY <1>1, <1>3, <2>1, UnicastCarried DEF Given
<1> HIDE DEF x
<1>5. NewCert(r, CreateQuorumCert(m.block))
  BY <1>2 DEF NewCert
<1>6. VoteStep(r, {x}, {})
  BY <1>1, <1>2, <1>3 DEF VoteStep, NewVote
<1>7. LockStep(r, {x}, {})
  <2>1. type = "CommitVote" => LockedIn(view[r])
    BY <1>2 DEF LockedIn, AboutBlock
  <2>2. type \notin {"Commit", "Decide"}
    BY DEF VoteType
  <2> QED
    BY <1>1, <1>2, <1>3, <2>1, <2>2 DEF LockStep, NewVote
<1>8. \A y \in {x} : y.type \notin {"NewView", "TimeoutVote", "Decide", "PreCommit", "Commit"}
  BY <1>3 DEF VoteType
<1>9. Stays(r, n, q, {x}, {})
  BY <1>1, <1>4, <1>5, <1>8 DEF Stays
<1> QED
  BY <1>6, <1>7, <1>9, StayKeepsSafety

\* The votes that leader r has after it counted m were cast.
LEMMA CountedIsVoted ==
    ASSUME SafeState, NEW r \in Replica, NEW m, AboutBlock(r, m),
           m.type \in VoteType,
           NEW type, NEW s, NEW b \in proposed,
           OwnVote(s, type, b) = OwnVote(m.from, m.type, m.block)
    PROVE  s = m.from /\ type = m.type /\ b = m.block /\ VotedFor(type, s, b.view)
<1>1. m.block \in proposed /\ m.block.view = m.view
  BY BlockOfMsg DEF SafeState
<1>2. s = m.from /\ type = m.type /\ b.hash = m.block.hash
  BY DEF OwnVote
<1>3. b = m.block
  BY <1>1, <1>2 DEF SafeState, SafetyInv, HashesKnown
<1>4. m \in Transit
  BY DEF AboutBlock
<1> QED
  BY <1>1, <1>2, <1>3, <1>4 DEF VotedFor

\* A quorum of votes like m.
LEMMA QuorumVoted ==
    ASSUME SafeState, NEW r \in Replica, NEW m, AboutBlock(r, m),
           m.type \in VoteType, HasQuorum(r, m)
    PROVE  \E Q \in Quorums : \A s \in Q : VotedFor(m.type, s, m.view)
<1> DEFINE V == VotesLike(Counted(r, m), m)
           f == [x \in V |-> x.from]
<1>1. /\ m.block \in proposed /\ m.block.view = m.view
      /\ m.block \in Block /\ m.from \in Replica
  BY BlockOfMsg DEF SafeState
<1>2. ASSUME NEW x \in V
      PROVE  /\ x \in VoteRecord /\ x.from \in Replica
             /\ x.type = m.type /\ x.hash = m.block.hash
             /\ x = OwnVote(x.from, m.type, m.block)
             /\ VotedFor(m.type, x.from, m.view)
  <2>1. x.type = m.type /\ x.hash = m.block.hash
    BY DEF VotesLike
  <2>2. x \in votes[r] \/ x = OwnVote(m.from, m.type, m.block)
    BY DEF VotesLike, Counted
  <2>3. x \in VoteRecord
    BY <1>1, <2>2 DEF OwnVote, VoteRecord, Block, SafeState, SafetyTypeOK
  <2>4. x.from \in Replica /\ x = OwnVote(x.from, m.type, m.block)
    BY <2>1, <2>3 DEF VoteRecord, OwnVote
  <2>5. VotedFor(m.type, x.from, m.view)
    <3>1. CASE x \in votes[r]
      BY <1>1, <2>4, <3>1 DEF VotedFor
    <3>2. CASE x = OwnVote(m.from, m.type, m.block)
      BY <1>1, <2>4, <3>2, CountedIsVoted
    <3> QED
      BY <2>2, <3>1, <3>2
  <2> QED
    BY <2>1, <2>3, <2>4, <2>5
<1>3. Cardinality(V) >= QuorumSize
  BY DEF HasQuorum
<1> HIDE DEF V
<1>4. f \in [V -> Replica]
  BY <1>2
<1>5. ASSUME NEW x \in V, NEW y \in V, x.from = y.from
      PROVE  x = y
  BY <1>2, <1>5
<1>6. {f[x] : x \in V} \in Quorums
  BY <1>3, <1>4, <1>5, SendersAreQuorum
<1> QED
  BY <1>2, <1>6

LEMMA StoreVoteKeepsSafety ==
    ASSUME TotalNumber # 6, SafeState, SafetyTypeOK', NEW r \in Replica,
           NEW m, AboutBlock(r, m), NEW n, NEW q, Given(n, q), m.type \in VoteType,
           StoreVote(r, m, n, q)
    PROVE  After /\ Unreported
<1> DEFINE recs == {OwnVote(m.from, m.type, m.block)}
<1>1. /\ UNCHANGED <<view, highQC, highQCTmp, viewChanged, executed,
                     prepareQC, preCommitQC>>
      /\ msgQueue' = [msgQueue EXCEPT ![r] = q]
      /\ net' = n
      /\ votes' = [votes EXCEPT ![r] = @ \cup recs]
  BY DEF StoreVote, Counted, viewVars, chainVars
<1>2. \A x \in recs : \E b \in proposed : b.hash = x.hash
  BY BlockOfMsg DEF SafeState, OwnVote
<1>3. \A s, v, type : NewVote({}, recs, type, s, v) => VotedFor(type, s, v)
  BY CountedIsVoted DEF NewVote
<1> HIDE DEF recs
<1>4. VoteStep(r, {}, recs)
  BY <1>3 DEF VoteStep
<1>5. LockStep(r, {}, recs)
  BY <1>1, <1>3 DEF LockStep, LockedIn
<1>6. Stays(r, n, q, {}, recs)
  BY <1>1, <1>2 DEF Stays, SafeState, SafetyTypeOK
<1> QED
  BY <1>4, <1>5, <1>6, StayKeepsSafety

\* A leader starts the next phase.
LEMMA StartPhaseKeepsSafety ==
    ASSUME TotalNumber # 6, SafeState, SafetyTypeOK', NEW r \in Replica,
           NEW m, AboutBlock(r, m), NEW n, NEW q, Given(n, q),
           IsFresh(r, m), HasQuorum(r, m), NEW type, NEW voteType,
           StartPhase(r, m, type, voteType, n, q),
           \/ /\ m.type = "PrepareVote" /\ type = "PreCommit"
              /\ voteType = "PreCommitVote"
              /\ prepareQC' = [prepareQC EXCEPT ![r] = CreateQuorumCert(m.block)]
              /\ UNCHANGED preCommitQC
           \/ /\ m.type = "PreCommitVote" /\ type = "Commit"
              /\ voteType = "CommitVote"
              /\ preCommitQC' = [preCommitQC EXCEPT ![r] = CreateQuorumCert(m.block)]
              /\ UNCHANGED prepareQC
    PROVE  After /\ Unreported
<1> DEFINE x == PhaseMsg(type, view[r], m.block, CreateQuorumCert(m.block))
           own == OwnVote(r, voteType, m.block)
           recs == {OwnVote(m.from, m.type, m.block), own}
<1>1. /\ UNCHANGED <<view, highQC, highQCTmp, viewChanged, executed>>
      /\ msgQueue' = [msgQueue EXCEPT ![r] = q]
      /\ net' = Multicast(n, r, x)
      /\ votes' = [votes EXCEPT ![r] = LeftVotes(r, m) \cup {own}]
  BY DEF StartPhase, viewVars, chainVars
<1>2. m.type \in VoteType /\ type \in LeaderType
  BY DEF VoteType, LeaderType
<1>3. /\ m.view = view[r] /\ m.view \in View
      /\ m.block \in proposed /\ m.block \in Block /\ m.block.view = view[r]
      /\ CreateQuorumCert(m.block).view = view[r]
      /\ m.from \in Replica
  BY <1>2, BlockOfMsg DEF SafeState, IsFresh, MatchingMsg, SafetyTypeOK
<1>4. /\ x.type = type /\ x.view = view[r]
      /\ x.block = m.block /\ x.qc = CreateQuorumCert(m.block)
  BY DEF PhaseMsg
<1>5. \A y \in Carried(net') : y \in Carried(n) \/ y \in {x}
  BY <1>1, <1>4, MulticastCarried DEF Given
<1>6. \A s \in Replica : \A y \in votes'[s] : y \in votes[s] \/ y \in recs
  BY <1>1 DEF LeftVotes, Counted, SafeState, SafetyTypeOK
<1>7. \A y \in recs : \E b \in proposed : b.hash = y.hash
  BY <1>3 DEF OwnVote
<1>8. ASSUME NEW s, NEW v, NEW t, t \in VoteType, NewVote({x}, recs, t, s, v)
      PROVE  VotedFor(t, s, v) \/ (s = r /\ t = voteType /\ v = view[r])
  <2>1. t # x.type
    BY <1>2, <1>4, <1>8 DEF VoteType, LeaderType
  <2>2. PICK b \in proposed : b.view = v /\ OwnVote(s, t, b) \in recs
    BY <1>8, <2>1 DEF NewVote
  <2>3. CASE OwnVote(s, t, b) = OwnVote(m.from, m.type, m.block)
    BY <1>2, <2>2, <2>3, CountedIsVoted
  <2>4. CASE OwnVote(s, t, b) = own
    <3>1. s = r /\ t = voteType /\ b.hash = m.block.hash
      BY <2>4 DEF OwnVote
    <3>2. b = m.block
      BY <1>3, <3>1 DEF SafeState, SafetyInv, HashesKnown
    <3> QED
      BY <1>3, <2>2, <3>1, <3>2
  <2> QED
    BY <2>2, <2>3, <2>4
<1> HIDE DEF x, recs, own
<1>9. "PreCommitVote" \in VoteType /\ "CommitVote" \in VoteType
  BY DEF VoteType
<1>10. /\ voteType = "PreCommitVote" => prepareQC'[r].view = view[r]
       /\ voteType = "CommitVote" => preCommitQC'[r].view = view[r]
  BY <1>3 DEF SafeState, SafetyTypeOK
<1>11. VoteStep(r, {x}, recs)
  BY <1>1, <1>8, <1>9, <1>10 DEF VoteStep
<1>12. LockStep(r, {x}, recs)
  <2>1. voteType = "CommitVote" =>
            \E Q \in Quorums : \A s \in Q : VotedFor("PreCommitVote", s, view[r])
    BY <1>2, <1>3, QuorumVoted
  <2>2. type # "Decide" /\ (type = "Commit" <=> voteType = "CommitVote")
    OBVIOUS
  <2>3. voteType # "CommitVote" => preCommitQC' = preCommitQC
    OBVIOUS
  <2> SUFFICES ASSUME NEW v \in View
               PROVE  /\ \/ preCommitQC'[r] # preCommitQC[r] /\ preCommitQC'[r].view = v
                         \/ \E y \in {x} : y.type \in {"Commit", "Decide"} /\ y.view = v
                         \/ \E s \in Replica : NewVote({x}, recs, "CommitVote", s, v)
                         => \/ LockedIn(v)
                            \/ \E Q \in Quorums : \A s \in Q : VotedFor("PreCommitVote", s, v)
                      /\ ~\E y \in {x} : y.type = "Decide" /\ y.view = v
    BY <1>1 DEF LockStep
  <2>4. ASSUME NEW s \in Replica, NewVote({x}, recs, "CommitVote", s, v)
        PROVE  LockedIn(v) \/ (voteType = "CommitVote" /\ v = view[r])
    BY <1>8, <1>9, <2>4 DEF LockedIn
  <2>5. CASE voteType = "CommitVote" /\ v = view[r]
    BY <1>4, <2>1, <2>2, <2>5
  <2>6. CASE ~(voteType = "CommitVote" /\ v = view[r])
    <3>1. ~(preCommitQC'[r] # preCommitQC[r] /\ preCommitQC'[r].view = v)
      BY <1>10, <2>3, <2>6
    <3>2. ~\E y \in {x} : y.type \in {"Commit", "Decide"} /\ y.view = v
      BY <1>4, <2>2, <2>6
    <3> QED
      BY <2>4, <2>6, <3>1, <3>2
  <2> QED
    BY <2>5, <2>6
<1>13. NewCert(r, CreateQuorumCert(m.block))
  BY <1>3 DEF NewCert
<1>14. /\ prepareQC'[r] = prepareQC[r] \/ NewCert(r, prepareQC'[r])
       /\ preCommitQC'[r] = preCommitQC[r] \/ NewCert(r, preCommitQC'[r])
       /\ \A s \in Replica \ {r} : /\ prepareQC'[s] = prepareQC[s]
                                   /\ preCommitQC'[s] = preCommitQC[s]
  BY <1>13 DEF SafeState, SafetyTypeOK
<1>15. x.type \notin {"NewView", "TimeoutVote", "Decide"}
  BY <1>4
<1>16. Stays(r, n, q, {x}, recs)
  BY <1>1, <1>4, <1>5, <1>6, <1>7, <1>14, <1>15 DEF Stays
<1> QED
  BY <1>11, <1>12, <1>16, StayKeepsSafety

\* The handlers of the three phases.
LEMMA PhaseKeepsSafety ==
    ASSUME TotalNumber # 6, SafeState, SafetyTypeOK', NEW r \in Replica,
           NEW m, AboutBlock(r, m), NEW n, NEW q, Given(n, q),
           \/ m.type = "Prepare" /\ OnReceivePrepare(r, m, n, q)
           \/ m.type = "PrepareVote" /\ OnReceivePrepareVote(r, m, n, q)
           \/ m.type = "PreCommit" /\ OnReceivePreCommit(r, m, n, q)
           \/ m.type = "PreCommitVote" /\ OnReceivePreCommitVote(r, m, n, q)
           \/ m.type = "Commit" /\ OnReceiveCommit(r, m, n, q)
    PROVE  After /\ Unreported
<1>1. CASE Ignore(r, n, q) \/ Panic(r, n, q)
  BY <1>1, IgnoreKeepsSafety
<1>2. m \in Transit
  BY DEF AboutBlock
<1>3. CASE m.type = "Prepare" /\ OnReceivePrepare(r, m, n, q)
  <2>1. CASE MatchingMsg(r, m) /\ Vote(r, "PrepareVote", m.block, n, q)
             /\ UNCHANGED <<prepareQC, preCommitQC>>
    BY <1>3, <2>1, VoteKeepsSafety DEF VoteType
  <2> QED
    BY <1>1, <1>3, <2>1 DEF OnReceivePrepare
<1>4. CASE m.type = "PreCommit" /\ OnReceivePreCommit(r, m, n, q)
  <2>1. CASE /\ MatchingMsg(r, m)
             /\ Vote(r, "PreCommitVote", m.block, n, q)
             /\ prepareQC' = [prepareQC EXCEPT ![r] = m.qc]
             /\ UNCHANGED preCommitQC
    <3>1. prepareQC'[r] = CreateQuorumCert(m.block)
      BY <1>2, <1>4, <2>1 DEF SafeState, SafetyInv, LeaderMsgsKnown, SafetyTypeOK
    <3>2. \A s \in Replica \ {r} : /\ prepareQC'[s] = prepareQC[s]
                                   /\ preCommitQC'[s] = preCommitQC[s]
      BY <2>1 DEF SafeState, SafetyTypeOK
    <3> QED
      BY <1>4, <2>1, <3>1, <3>2, VoteKeepsSafety DEF VoteType
  <2> QED
    BY <1>1, <1>4, <2>1 DEF OnReceivePreCommit, AcceptQC
<1>5. CASE m.type = "Commit" /\ OnReceiveCommit(r, m, n, q)
  <2>1. CASE /\ MatchingMsg(r, m)
             /\ Vote(r, "CommitVote", m.block, n, q)
             /\ preCommitQC' = [preCommitQC EXCEPT ![r] = m.qc]
             /\ UNCHANGED prepareQC
    <3>1. preCommitQC'[r] = CreateQuorumCert(m.block)
      BY <1>2, <1>5, <2>1 DEF SafeState, SafetyInv, LeaderMsgsKnown, SafetyTypeOK
    <3>2. \A s \in Replica \ {r} : /\ prepareQC'[s] = prepareQC[s]
                                   /\ preCommitQC'[s] = preCommitQC[s]
      BY <2>1 DEF SafeState, SafetyTypeOK
    <3> QED
      BY <1>5, <2>1, <3>1, <3>2, VoteKeepsSafety DEF VoteType
  <2> QED
    BY <1>1, <1>5, <2>1 DEF OnReceiveCommit, AcceptQC
<1>6. CASE m.type = "PrepareVote" /\ OnReceivePrepareVote(r, m, n, q)
  <2>1. CASE StoreVote(r, m, n, q)
    BY <1>6, <2>1, StoreVoteKeepsSafety DEF VoteType
  <2>2. CASE /\ IsFresh(r, m) /\ HasQuorum(r, m)
             /\ prepareQC' = [prepareQC EXCEPT ![r] = CreateQuorumCert(m.block)]
             /\ StartPhase(r, m, "PreCommit", "PreCommitVote", n, q)
             /\ UNCHANGED preCommitQC
    BY <1>6, <2>2, StartPhaseKeepsSafety
  <2> QED
    BY <1>1, <1>6, <2>1, <2>2 DEF OnReceivePrepareVote
<1>7. CASE m.type = "PreCommitVote" /\ OnReceivePreCommitVote(r, m, n, q)
  <2>1. CASE StoreVote(r, m, n, q)
    BY <1>7, <2>1, StoreVoteKeepsSafety DEF VoteType
  <2>2. CASE /\ IsFresh(r, m) /\ HasQuorum(r, m)
             /\ preCommitQC' = [preCommitQC EXCEPT ![r] = CreateQuorumCert(m.block)]
             /\ StartPhase(r, m, "Commit", "CommitVote", n, q)
             /\ UNCHANGED prepareQC
    BY <1>7, <2>2, StartPhaseKeepsSafety
  <2> QED
    BY <1>1, <1>7, <2>1, <2>2 DEF OnReceivePreCommitVote
<1> QED
  BY <1>3, <1>4, <1>5, <1>6, <1>7

-----------------------------------------------------------------------------
(* What the handlers that leave the view, or change to it, do to the blocks *)
(* and certificates.                                                        *)

\* What a view change picks is a certificate of an earlier view.
LEMMA Picked ==
    ASSUME SafeState, NEW v \in View, v >= 2, ~HasProposal(v),
           NEW own \in Certs, own.view <= v,
           NEW S, \A m \in S : Reported(m) /\ m.view = v,
           NEW Q \in Quorums, \A s \in Q : \E m \in S : m.from = s,
           NEW qc \in HighestQCs(own, {m.qc : m \in S})
    PROVE  PickedFrom(<<v, qc>>)
<1> DEFINE qcs == {m.qc : m \in S}
<1>0. ASSUME NEW x \in Certs, x.view <= v
      PROVE  x.view \in Nat /\ x.view < v
  <2>1. x.view \in Nat
    BY CertViews DEF SafeState
  <2>2. x.view # v
    <3>1. CASE x \in {ZeroQC, GenesisQC}
      BY <3>1 DEF ZeroQC, GenesisQC
    <3>2. CASE \E b \in proposed : x = CreateQuorumCert(b)
      BY <3>2 DEF HasProposal, CreateQuorumCert
    <3> QED
      BY <3>1, <3>2 DEF Certs
  <2> QED
    BY <1>0, <2>1, <2>2 DEF View
<1>1. own.view \in Nat /\ own.view < v
  BY <1>0
<1>2. ASSUME NEW m \in S
      PROVE  m.qc \in Certs /\ m.qc.view \in Nat /\ m.qc.view < v
  <2>1. Reported(m) /\ m.view = v /\ m.view \in Nat
    BY ReportTypes DEF SafeState
  <2>2. m.qc \in Certs /\ m.qc.view <= v
    <3>1. CASE m \in Reports
      BY <2>1, <3>1 DEF SafeState, SafetyInv, ReportsKnown
    <3>2. CASE Fresh(m)
      <4>1. m.from \in Replica /\ m.qc = prepareQC[m.from] /\ view[m.from] <= m.view
        BY <3>2 DEF Fresh, ReportMsg
      <4>2. prepareQC[m.from] \in Certs /\ prepareQC[m.from].view <= view[m.from]
        BY <4>1 DEF SafeState, SafetyInv, CertsKnown
      <4>3. view[m.from] \in Nat /\ prepareQC[m.from].view \in Nat
        BY <4>1 DEF SafeState, SafetyTypeOK, View, QuorumCert
      <4> QED
        BY <2>1, <4>1, <4>2, <4>3
    <3> QED
      BY <2>1, <3>1, <3>2 DEF Reported
  <2> QED
    BY <1>0, <2>2
<1>3. /\ \A m \in S : m.qc.view <= qc.view
      /\ qc = own \/ \E m \in S : qc = m.qc
  <2>1. CASE {x \in qcs : x.view > own.view} = {}
    <3>1. qc = own
      BY <2>1 DEF HighestQCs
    <3>2. ASSUME NEW m \in S PROVE m.qc.view <= own.view
      <4>1. ~(m.qc.view > own.view)
        BY <2>1
      <4> QED
        BY <1>1, <1>2, <4>1
    <3> QED
      BY <3>1, <3>2
  <2>2. CASE {x \in qcs : x.view > own.view} # {}
    <3>1. /\ qc \in qcs /\ qc.view > own.view
          /\ \A x \in qcs : x.view > own.view => x.view <= qc.view
      BY <2>2 DEF HighestQCs
    <3>2. ASSUME NEW m \in S PROVE m.qc.view <= qc.view
      BY <1>1, <1>2, <3>1
    <3> QED
      BY <3>1, <3>2
  <2> QED
    BY <2>1, <2>2
<1>4. qc \in Certs /\ qc.view < v
  BY <1>1, <1>2, <1>3
<1> QED
  BY <1>3, <1>4 DEF PickedFrom

\* A leader decides the block of its view and leaves the view.
DecideMsg(r, b) == PhaseMsg("Decide", view[r], b, CreateQuorumCert(b))

LEMMA DecideSteps ==
    ASSUME SafeState, NEW r \in Replica, NEW m, AboutBlock(r, m),
           m.type = "CommitVote", IsFresh(r, m), HasQuorum(r, m),
           Execute(r, m.block), view'[r] = view[r] + 1, UNCHANGED preCommitQC,
           NEW new, new = {DecideMsg(r, m.block)},
           NEW recs, recs = {OwnVote(m.from, m.type, m.block)}
    PROVE  /\ ExecStep(r) /\ MsgStep(r, new)
           /\ VoteStep(r, new, recs) /\ LockStep(r, new, recs)
           /\ \A x \in recs : \E b \in proposed : b.hash = x.hash
           /\ \A x \in LeftVotes(r, m) : x \in votes[r] \/ x \in recs
           /\ \A s \in Replica \ {r} : executed'[s] = executed[s]
           /\ DecideMsg(r, m.block).type = "Decide"
<1> DEFINE x == DecideMsg(r, m.block)
<1>1. m.type \in VoteType
  BY DEF VoteType
<1>2. /\ m.view = view[r] /\ m.view \in View
      /\ m.block \in proposed /\ m.block.view = view[r]
      /\ m.from \in Replica /\ GetLeaderByView(m.view) = r
  BY <1>1, BlockOfMsg DEF SafeState, AboutBlock
<1>3. m.block.proposer = r
  BY <1>2 DEF SafeState, ProposedByLeader
<1>4. /\ x.type = "Decide" /\ x.view = view[r]
      /\ x.block = m.block /\ x.qc = CreateQuorumCert(m.block)
  BY DEF PhaseMsg, DecideMsg
<1>5. \A y \in LeftVotes(r, m) : y \in votes[r] \/ y \in recs
  BY DEF LeftVotes, Counted
<1>6. \A y \in recs : \E b \in proposed : b.hash = y.hash
  BY <1>2 DEF OwnVote
<1>7. /\ executed'[r] = executed[r] \cup {m.block}
      /\ \A s \in Replica \ {r} : executed'[s] = executed[s]
  BY DEF Execute, SafeState, SafetyTypeOK
<1>8. \A s, v, t : t \in VoteType /\ NewVote(new, recs, t, s, v) => VotedFor(t, s, v)
  BY <1>1, <1>4, CountedIsVoted DEF NewVote, VoteType
<1>9. view[r] \in Nat
  BY DEF SafeState, SafetyTypeOK, View
<1> HIDE DEF x
<1>10. new = {x}
  BY DEF x
<1>11. ExecStep(r)
  BY <1>2, <1>7, <1>9 DEF ExecStep
<1>12. MsgStep(r, new)
  BY <1>3, <1>4, <1>7, <1>10 DEF MsgStep
<1>13. VoteStep(r, new, recs)
  BY <1>8 DEF VoteStep, VoteType
<1>14. LockStep(r, new, recs)
  <2>1. VotedFor("CommitVote", m.from, view[r])
    BY <1>2 DEF VotedFor, AboutBlock
  <2>2. \E Q \in Quorums : \A s \in Q : VotedFor("CommitVote", s, view[r])
    BY <1>1, <1>2, QuorumVoted
  <2>3. LockedIn(view[r])
    BY <1>2, <2>1 DEF LockedIn
  <2>4. \A s, v : NewVote(new, recs, "CommitVote", s, v) => VotedFor("CommitVote", s, v)
    BY <1>8 DEF VoteType
  <2>5. \A s \in Replica : \A v : NewVote(new, recs, "CommitVote", s, v) => LockedIn(v)
    BY <2>4 DEF LockedIn
  <2>6. \A b \in executed'[r] \ executed[r] : b.view = view[r]
    BY <1>2, <1>7
  <2> QED
    BY <1>4, <1>10, <2>2, <2>3, <2>5, <2>6 DEF LockStep
<1> QED
  BY <1>4, <1>5, <1>6, <1>7, <1>11, <1>12, <1>13, <1>14 DEF x

\* A follower learns of it.
LEMMA LearnSteps ==
    ASSUME SafeState, NEW r \in Replica, NEW m, AboutBlock(r, m),
           m.type = "Decide", MatchingMsg(r, m),
           Execute(r, m.block), view'[r] = view[r] + 1, UNCHANGED preCommitQC
    PROVE  /\ ExecStep(r) /\ MsgStep(r, {})
           /\ VoteStep(r, {}, {}) /\ LockStep(r, {}, {})
           /\ \A s \in Replica \ {r} : executed'[s] = executed[s]
<1>1. /\ m.view = view[r] /\ m.block \in proposed /\ m.block.view = view[r]
      /\ m \in Transit /\ view[r] \in Nat
  BY BlockOfMsg DEF SafeState, MatchingMsg, AboutBlock
<1>2. /\ executed'[r] = executed[r] \cup {m.block}
      /\ \A s \in Replica \ {r} : executed'[s] = executed[s]
  BY DEF Execute, SafeState, SafetyTypeOK
<1>3. ExecStep(r) /\ MsgStep(r, {})
  BY <1>1, <1>2 DEF ExecStep, MsgStep
<1>4. VoteStep(r, {}, {})
  BY DEF VoteStep, NewVote
<1>5. LockStep(r, {}, {})
  <2>1. LockedIn(view[r]) /\ DecidedIn(view[r])
    BY <1>1 DEF LockedIn, DecidedIn
  <2> QED
    BY <1>1, <1>2, <2>1 DEF LockStep, NewVote
<1> QED
  BY <1>2, <1>3, <1>4, <1>5

\* The other handlers leave the blocks and certificates alone.
LEMMA NoBlockSteps ==
    ASSUME SafeState, NEW r \in Replica,
           UNCHANGED <<executed, preCommitQC>>,
           NEW new, \A x \in new : x.type \notin VoteType \cup LeaderType
    PROVE  /\ ExecStep(r) /\ MsgStep(r, new)
           /\ VoteStep(r, new, {}) /\ LockStep(r, new, {})
<1>1. \A x \in new : x.type \notin {"PreCommitVote", "CommitVote", "PreCommit",
                                    "Commit", "Decide"}
  BY DEF VoteType, LeaderType
<1>2. ExecStep(r) /\ MsgStep(r, new)
  BY <1>1 DEF ExecStep, MsgStep
<1>3. VoteStep(r, new, {}) /\ LockStep(r, new, {})
  BY <1>1 DEF VoteStep, LockStep, NewVote
<1> QED
  BY <1>2, <1>3

-----------------------------------------------------------------------------
(* HandleMsg and HandleReq. *)

\* A message that is not handled at once, or lost.
LEMMA AsideIsQuiet ==
    ASSUME SafetyTypeOK, IsNet(net), DOMAIN hand = Replica,
           NEW r \in Replica, NEW s \in Replica,
           \/ ReceiveFuture(r, s) \/ ReceiveStale(r, s) \/ HoldCurrent(r, s)
           \/ Lose(r, s) \/ UNCHANGED vars
    PROVE  Quiet
<1> DEFINE m == Head(net[s][r])
           n == Taken(r, s)
<1>1. CASE UNCHANGED vars
  <2>1. UNCHANGED <<msgQueue, hand, net>>
    BY <1>1 DEF vars, handVars
  <2>2. \A x \in Transit' : x \in Transit \/ x \in {}
    BY <2>1, TransitParts, TransitAfter
  <2> QED
    BY <1>1, <2>2 DEF Quiet, vars, leaderVars, viewVars, chainVars, requestVars
<1>2. CASE \/ ReceiveFuture(r, s) \/ ReceiveStale(r, s) \/ HoldCurrent(r, s)
           \/ Lose(r, s)
  <2>1. net[s][r] # <<>>
    BY <1>2 DEF ReceiveFuture, ReceiveStale, HoldCurrent, Lose, CanReceive
  <2>2. m \in Transit /\ \A x \in Carried(n) : x \in Transit
    BY <2>1, TakenCarried, TransitParts
  <2>3. /\ net' = n
        /\ \A d \in Replica : \A x \in msgQueue'[d] : x \in msgQueue[d] \/ x = m
        /\ \A d \in Replica : \A x \in hand'[d] : x \in hand[d] \/ x = m
    <3>1. CASE ReceiveFuture(r, s)
      BY <3>1 DEF ReceiveFuture, Put, SafetyTypeOK
    <3>2. CASE ReceiveStale(r, s)
      BY <3>2 DEF ReceiveStale
    <3>3. CASE HoldCurrent(r, s)
      BY <3>3 DEF HoldCurrent, SafetyTypeOK
    <3>4. CASE Lose(r, s)
      BY <3>4 DEF Lose, handVars
    <3> QED
      BY <1>2, <3>1, <3>2, <3>3, <3>4
  <2> HIDE DEF m, n
  <2>4. \A x \in Transit' : x \in Transit \/ x \in {}
    <3>1. \A x \in Carried(net') : x \in Transit \/ x \in {}
      BY <2>2, <2>3
    <3>2. \A d \in Replica : \A x \in msgQueue'[d] : x \in Transit \/ x \in {}
      BY <2>2, <2>3, TransitParts
    <3>3. \A d \in Replica : \A x \in hand'[d] : x \in Transit \/ x \in {}
      BY <2>2, <2>3, TransitParts
    <3> QED
      BY <3>1, <3>2, <3>3, TransitAfter
  <2>5. UNCHANGED <<prepareQC, preCommitQC, view, highQC, highQCTmp,
                    viewChanged, votes, executed, blockChain,
                    proposed, clock>>
    BY <1>2 DEF ReceiveFuture, ReceiveStale, HoldCurrent, Lose, leaderVars, viewVars,
                chainVars, requestVars
  <2> QED
    BY <2>4, <2>5 DEF Quiet
<1> QED
  BY <1>1, <1>2

\* A proposal.
LEMMA ProposeKeepsSafety ==
    ASSUME TotalNumber # 6, SafeState, SafetyTypeOK', IsNet(net),
           NEW r \in Replica, HandleReq(r), view[r] >= 2 => viewChanged[r]
    PROVE  After /\ Unreported
<1>1. PICK c \in Cmd : SendPrepare(r, c)
  BY DEF HandleReq
<1> DEFINE b == CreateLeaf(r, c)
           x == PhaseMsg("Prepare", view[r], b, highQC[r])
<1>2. /\ Leader(r) = r /\ holding[r] /\ ~HasProposal(view[r])
      /\ view[r] \in Nat /\ view[r] >= 1 /\ r \in Nat /\ clock[r] \in Nat
  BY DEF HandleReq, SafeState, SafetyTypeOK, View, TokenDiscipline, ViewsPositive,
         Replica
<1>3. /\ net' = Multicast(net, r, x)
      /\ votes' = [votes EXCEPT ![r] = @ \cup {OwnVote(r, "PrepareVote", b)}]
      /\ clock' = [clock EXCEPT ![r] = @ + 1]
      /\ proposed' = proposed \cup {b}
      /\ UNCHANGED <<prepareQC, preCommitQC, view, highQC, highQCTmp,
                     viewChanged, executed, msgQueue, hand>>
  BY <1>1, <1>2 DEF SendPrepare, HandleReq, chainVars, handVars
<1>4. /\ b.hash = <<r, clock[r]>> /\ b.view = view[r] /\ b.proposer = r
      /\ b.cert = highQC[r] /\ b \in Block
  <2>1. b \in proposed'
    BY <1>3
  <2> QED
    BY <2>1 DEF CreateLeaf, SafetyTypeOK
<1>5. x.type = "Prepare" /\ x \notin ReportMsg
  BY DEF PhaseMsg, ReportMsg
<1> HIDE DEF b, x
<1>6. \A y \in Carried(net') : y \in Carried(net) \/ y \in {x}
  BY <1>3, MulticastCarried
<1>7. \A y \in Transit' : y \in Transit \/ y \in {x}
  BY <1>3, <1>6, TransitParts, TransitAfter
<1>8. \A a \in proposed : a.hash # b.hash
  <2>1. ASSUME NEW a \in proposed, a.hash = b.hash PROVE FALSE
    <3>1. a.proposer = a.hash[1] /\ a.hash[2] < clock[a.proposer]
      BY DEF SafeState, SafetyInv, HashesKnown
    <3>2. a.hash[1] = r /\ a.hash[2] = clock[r]
      BY <1>4, <2>1
    <3> QED
      BY <1>2, <3>1, <3>2
  <2> QED
    BY <2>1
<1>9. CertEffect
  <2>1. \A s \in Replica : view'[s] >= view[s]
    BY <1>3 DEF SafeState, SafetyTypeOK, View
  <2> QED
    BY <1>3, <2>1 DEF CertEffect
<1>10. Unreported /\ ReportEffect
  BY <1>3, <1>5, <1>7 DEF Reports, Unreported, ReportEffect, Reported
<1>11. ASSUME NEW type, type \in {"PreCommitVote", "CommitVote"}, NEW s, NEW v,
              VotedFor(type, s, v)'
       PROVE  VotedFor(type, s, v)
  <2>1. CASE \E m \in Transit' : m.type = type /\ m.from = s /\ m.view = v
    BY <1>5, <1>7, <1>11, <2>1 DEF VotedFor
  <2>2. ASSUME NEW t \in Replica, NEW a \in proposed', a.view = v,
               OwnVote(s, type, a) \in votes'[t]
        PROVE  VotedFor(type, s, v)
    <3>1. OwnVote(s, type, a) \in votes[t]
      <4>1. OwnVote(s, type, a) # OwnVote(r, "PrepareVote", b)
        BY <1>11 DEF OwnVote
      <4> QED
        BY <1>3, <2>2, <4>1 DEF SafeState, SafetyTypeOK
    <3>2. a \in proposed
      <4>1. PICK d \in proposed : d.hash = a.hash
        BY <3>1 DEF SafeState, SafetyInv, HashesKnown, OwnVote
      <4> QED
        BY <1>3, <1>8, <4>1
    <3> QED
      BY <2>2, <3>1, <3>2 DEF VotedFor
  <2>3. \A a \in proposed' : OwnVote(s, type, a)' = OwnVote(s, type, a)
    BY DEF OwnVote
  <2> QED
    BY <1>11, <2>1, <2>2, <2>3 DEF VotedFor
<1>12. VoteEffect
  BY <1>11 DEF VoteEffect
<1>13. view[r] >= 2 => <<b.view, b.cert>> \in Candidates
  BY <1>2, <1>4 DEF Candidates
<1>14. CandidateEffect
  <2>1. ASSUME NEW a \in proposed', a.view >= 2
        PROVE  <<a.view, a.cert>> \in Candidates
    <3>1. CASE a \in proposed
      BY <2>1, <3>1 DEF Candidates
    <3>2. CASE a = b
      BY <1>4, <1>13, <2>1, <3>2
    <3> QED
      BY <1>3, <3>1, <3>2
  <2>2. ASSUME NEW s \in Replica, viewChanged'[s], Leader(s)' = s
        PROVE  <<view'[s], highQC'[s]>> \in Candidates
    BY <1>3, <2>2 DEF Candidates, Leader
  <2>3. \A p \in Candidates' : p \in Candidates
    BY <2>1, <2>2 DEF Candidates
  <2> QED
    BY <2>3 DEF CandidateEffect
<1>15. LockEffect
  <2>1. ASSUME NEW v, LockedIn(v)' PROVE LockedIn(v)
    BY <1>3, <1>5, <1>7, <1>11, <2>1 DEF LockedIn
  <2>2. ASSUME NEW v, DecidedIn(v)' PROVE DecidedIn(v)
    BY <1>3, <1>5, <1>7, <2>2 DEF DecidedIn
  <2> QED
    BY <2>1, <2>2 DEF LockEffect
<1>16. ASSUME NEW a \in proposed'
       PROVE  \/ a \in proposed
              \/ a.cert = GenesisQC /\ a.view >= 1
              \/ <<a.view, a.cert>> \in Candidates
  <2>1. CASE view[r] >= 2
    BY <1>3, <1>13, <2>1
  <2>2. CASE view[r] = 1
    BY <1>3, <1>4, <2>2 DEF SafeState, SafetyInv, CertsKnown
  <2> QED
    BY <1>2, <2>1, <2>2
<1>17. HashesKnown'
  <2>1. \A s \in Replica : clock'[s] >= 2 /\ clock'[s] >= clock[s]
    BY <1>3 DEF SafeState, SafetyTypeOK, SafetyInv, HashesKnown
  <2>2. ASSUME NEW a \in proposed'
        PROVE  a.hash[1] = a.proposer /\ a.hash[2] >= 2 /\ a.hash[2] < clock'[a.proposer]
    <3>1. CASE a \in proposed
      <4>1. /\ a.hash[1] = a.proposer /\ a.hash[2] >= 2
            /\ a.hash[2] < clock[a.proposer]
            /\ a.hash[2] \in Nat
        BY <3>1 DEF SafeState, SafetyInv, HashesKnown, SafetyTypeOK, Block, Hash
      <4>2. a.proposer \in Replica
        BY <3>1, LeaderIsReplica DEF SafeState, ProposedByLeader, SafetyTypeOK, Block
      <4>3. clock[a.proposer] \in Nat /\ clock'[a.proposer] \in Nat
        BY <4>2 DEF SafeState, SafetyTypeOK
      <4> QED
        BY <2>1, <4>1, <4>2, <4>3
    <3>2. CASE a = b
      BY <1>2, <1>3, <1>4, <3>2 DEF SafeState, SafetyTypeOK, SafetyInv, HashesKnown
    <3> QED
      BY <1>3, <3>1, <3>2
  <2>3. \A a, d \in proposed' : a.hash = d.hash => a = d
    BY <1>3, <1>8 DEF SafeState, SafetyInv, HashesKnown
  <2>4. ASSUME NEW s \in Replica, NEW y \in votes'[s]
        PROVE  \E a \in proposed' : a.hash = y.hash
    <3>1. CASE y \in votes[s]
      BY <1>3, <3>1 DEF SafeState, SafetyInv, HashesKnown
    <3>2. CASE y = OwnVote(r, "PrepareVote", b)
      BY <1>3, <3>2 DEF OwnVote
    <3> QED
      BY <1>3, <3>1, <3>2 DEF SafeState, SafetyTypeOK
  <2> QED
    BY <2>1, <2>2, <2>3, <2>4 DEF HashesKnown
<1>18. LeaderMsgsKnown'
  BY <1>3, <1>5, <1>7 DEF LeaderMsgsKnown, SafeState, SafetyInv
<1>19. ExecutedKnown'
  BY <1>3 DEF ExecutedKnown, SafeState, SafetyInv
<1> QED
  BY <1>9, <1>10, <1>12, <1>14, <1>15, <1>16, <1>17, <1>18, <1>19,
     EffectKeepsSafety
     DEF After, SafeState

LEMMA InitEmpty == Init => Transit = {} /\ Reports = {}
<1> SUFFICES ASSUME Init PROVE Transit = {} /\ Reports = {}
  OBVIOUS
<1>1. \A s, d \in Replica : net[s][d] = <<>>
  BY DEF Init
<1>2. \A x : x \notin Carried(net)
  BY <1>1 DEF Carried
<1>3. \A x : x \notin Transit
  BY <1>2, TransitParts DEF Init
<1> QED
  BY <1>3 DEF Reports, Init

LEMMA InitSafety == Init => SafetyInv
<1> SUFFICES ASSUME Init PROVE SafetyInv
  OBVIOUS
<1>1. Transit = {} /\ Reports = {}
  BY InitEmpty
<1>2. Candidates = {}
  BY DEF Candidates, Init
<1>3. \A type, s, v : ~VotedFor(type, s, v)
  BY <1>1 DEF VotedFor, Init
<1>4. ~\E v : v >= 1 /\ LockedIn(v)
  BY <1>1, <1>3 DEF LockedIn, Init, GenesisQC
<1>5. ~\E v : DecidedIn(v)
  BY <1>1 DEF DecidedIn, Init
<1>6. HashesKnown
  BY DEF HashesKnown, Init
<1>7. CertsKnown
  BY <1>2 DEF CertsKnown, Certs, Init, ZeroQC, GenesisQC, ZeroHash, GenesisHash
<1>8. ReportsKnown
  BY <1>1 DEF ReportsKnown
<1>9. LeaderMsgsKnown
  BY <1>1 DEF LeaderMsgsKnown
<1>10. ExecutedKnown
  BY DEF ExecutedKnown, Init
<1>11. VotesBacked /\ CandidatesInformed /\ DecisionsLocked
  BY <1>2, <1>3, <1>5 DEF VotesBacked, CandidatesInformed, DecisionsLocked
<1>12. LocksChosen
  BY <1>4 DEF LocksChosen
<1> QED
  BY <1>6, <1>7, <1>8, <1>9, <1>10, <1>11, <1>12 DEF SafetyInv

-----------------------------------------------------------------------------
(* What the invariant means for the blocks. *)

Less == {ss \in Nat \X Nat : ss[1] < ss[2]}

LEMMA SmallestNat ==
    ASSUME NEW S \in SUBSET Nat, S # {}
    PROVE  \E x \in S : \A y \in S : x <= y
<1>1. IsWellFoundedOn(Less, Nat)
  BY NatLessThanWellFounded DEF OpToRel, Less
<1>2. PICK x \in S : \A y \in S : ~(<<y, x>> \in Less)
  BY <1>1, WFMin
<1>3. \A y \in S : x \in Nat /\ y \in Nat /\ ~(y < x)
  BY <1>2 DEF Less
<1> QED
  BY <1>3

-----------------------------------------------------------------------------
(* The chain. *)

LEMMA ProposedViews ==
    ASSUME SafeState, NEW b \in proposed
    PROVE  /\ b.view \in Nat /\ b.view >= 1
           /\ b.cert.view \in Nat /\ b.cert.view < b.view /\ b.cert \in Certs
           /\ b.view >= 2 => <<b.view, b.cert>> \in Candidates
<1>1. b \in Block
  BY DEF SafeState, SafetyTypeOK
<1>2. b.view >= 1
  BY DEF SafeState, ProposedByLeader
<1>3. b.cert \in Certs /\ b.cert.view < b.view
  BY DEF SafeState, SafetyInv, CertsKnown
<1> QED
  BY <1>1, <1>2, <1>3 DEF Block, QuorumCert, View, Candidates

\* A block is found in the chain by its hash.
LEMMA GetProposed ==
    ASSUME SafeState, NEW b \in proposed
    PROVE  Has(Chain, b.hash) /\ Get(Chain, b.hash) = b
<1>1. b \in Chain
  BY DEF Chain
<1>2. ASSUME NEW x \in Chain, x.hash = b.hash PROVE x = b
  <2>1. b.hash[2] >= 2 /\ b.hash[2] \in Nat
    BY DEF SafeState, SafetyInv, HashesKnown, SafetyTypeOK, Block, Hash
  <2>2. x # Genesis
    BY <1>2, <2>1 DEF Genesis, GenesisHash
  <2> QED
    BY <1>2, <2>2 DEF Chain, SafeState, SafetyInv, HashesKnown
<1>3. Has(Chain, b.hash)
  BY <1>1 DEF Has
<1> QED
  BY <1>2, <1>3, GetStored

\* A certificate that is not of genesis is of a proposed block.
LEMMA CertOfBlock ==
    ASSUME NEW qc \in Certs, qc.view # 0
    PROVE  \E b \in proposed : qc = CreateQuorumCert(b)
BY DEF Certs, ZeroQC, GenesisQC

\* Every proposal of the view of a locked block or a later one extends it.
LEMMA LockedIsExtended ==
    ASSUME SafeState, NEW a \in proposed, LockedIn(a.view),
           NEW b \in proposed, b.view >= a.view
    PROVE  Extends(Chain, b, a)
<1> DEFINE Strays(x) == x \in proposed /\ x.view >= a.view /\ ~Extends(Chain, x, a)
           S == {x.view : x \in {y \in proposed : Strays(y)}}
<1> SUFFICES ASSUME Strays(b) PROVE FALSE
  OBVIOUS
<1>1. S \in SUBSET Nat /\ S # {}
  BY ProposedViews
<1>2. PICK v \in S : \A y \in S : v <= y
  BY <1>1, SmallestNat
<1>3. PICK x \in proposed : x.view = v /\ Strays(x)
  OBVIOUS
<1>4. /\ x.view \in Nat /\ a.view \in Nat /\ a.view >= 1
      /\ x \in Chain /\ x.view >= a.view /\ ~Extends(Chain, x, a)
  BY <1>3, ProposedViews DEF Chain
<1>5. CASE x.view = a.view
  <2>1. x = a
    BY <1>5 DEF SafeState, OneProposalPerView
  <2>2. Extends(Chain, a, a)
    <3>1. a \in Chain /\ ~(a.view > a.view)
      BY <1>4 DEF Chain
    <3> QED
      BY <3>1, ExtendsStep
  <2> QED
    BY <1>4, <2>1, <2>2
<1>6. CASE x.view > a.view
  <2>1. x.view >= 2 /\ x.cert \in Certs /\ x.cert.view \in Nat /\ x.cert.view < x.view
    <3>1. x.cert \in Certs /\ x.cert.view \in Nat /\ x.cert.view < x.view
      BY ProposedViews
    <3> HIDE DEF S, Strays
    <3> QED
      BY <1>4, <1>6, <3>1
  <2>2. x.cert.view >= a.view
    <3>1. <<x.view, x.cert>> \in Candidates
      BY <2>1, ProposedViews
    <3>2. \A p \in Candidates : p[1] > a.view => p[2].view >= a.view
      BY <1>4 DEF SafeState, SafetyInv, LocksChosen, View
    <3> QED
      BY <1>6, <3>1, <3>2
  <2>3. PICK y \in proposed : x.cert = CreateQuorumCert(y)
    BY <1>4, <2>1, <2>2, CertOfBlock
  <2>4. y.view = x.cert.view /\ y.hash = Parent(x)
    BY <2>3 DEF CreateQuorumCert, Parent
  <2>5. Extends(Chain, y, a)
    <3> SUFFICES ASSUME ~Extends(Chain, y, a) PROVE FALSE
      OBVIOUS
    <3>1. Strays(y)
      BY <2>2, <2>4
    <3>2. y.view \in S
      BY <3>1
    <3>3. v <= y.view
      BY <1>2, <3>2
    <3> QED
      BY <1>3, <1>4, <2>1, <2>4, <3>3
  <2>6. Has(Chain, Parent(x)) /\ Get(Chain, Parent(x)) = y
    BY <2>4, GetProposed
  <2> HIDE DEF Strays
  <2> QED
    BY <1>4, <1>6, <2>5, <2>6, ExtendsStep
<1> QED
  BY <1>4, <1>5, <1>6

LEMMA ExecutedIsProposed ==
    ASSUME SafeState, NEW r \in Replica, NEW b \in executed[r]
    PROVE  b \in proposed /\ b.view < view[r] /\ LockedIn(b.view) /\ DecidedIn(b.view)
BY DEF SafeState, SafetyInv, ExecutedKnown, LockedIn, DecidedIn

LEMMA SafetyGivesConsistency == SafeState => Consistency
BY ExecutedIsProposed, LockedIsExtended DEF Consistency

LEMMA SafetyGivesExtension == SafeState => ProposalsExtendLocks
<1> SUFFICES ASSUME SafeState, NEW r \in Replica, NEW b \in proposed,
                    b.view > preCommitQC[r].view
             PROVE  /\ b.cert.view >= preCommitQC[r].view
                    /\ preCommitQC[r] # GenesisQC =>
                          Extends(Chain, b, Get(Chain, preCommitQC[r].hash))
  BY DEF ProposalsExtendLocks
<1> DEFINE locked == preCommitQC[r]
<1>1. locked \in Certs /\ locked # ZeroQC
  BY DEF SafeState, SafetyInv, CertsKnown
<1>2. b.view \in Nat /\ b.cert.view \in Nat
  BY ProposedViews
<1>3. CASE locked = GenesisQC
  BY <1>2, <1>3 DEF GenesisQC
<1>4. CASE locked # GenesisQC
  <2>1. PICK a \in proposed : locked = CreateQuorumCert(a)
    BY <1>1, <1>4 DEF Certs
  <2>2. locked.view = a.view /\ locked.hash = a.hash
    BY <2>1 DEF CreateQuorumCert
  <2>3. a.view \in Nat /\ a.view >= 1 /\ LockedIn(a.view)
    BY <2>2, ProposedViews DEF LockedIn
  <2>4. Extends(Chain, b, a) /\ Get(Chain, locked.hash) = a
    BY <1>2, <2>2, <2>3, LockedIsExtended, GetProposed
  <2>5. b.cert.view >= a.view
    <3>1. <<b.view, b.cert>> \in Candidates
      BY <1>2, <2>2, <2>3, ProposedViews
    <3>2. \A p \in Candidates : p[1] > a.view => p[2].view >= a.view
      BY <2>3 DEF SafeState, SafetyInv, LocksChosen, View
    <3> QED
      BY <2>2, <3>1, <3>2
  <2> QED
    BY <2>2, <2>4, <2>5
<1> QED
  BY <1>3, <1>4

LEMMA SafetyGivesLocks == SafeState => ExecutedIsLocked
<1> SUFFICES ASSUME SafeState, NEW r \in Replica, NEW b \in executed[r]
             PROVE  Cardinality({s \in Replica : preCommitQC[s].view >= b.view})
                        >= QuorumSize
  BY DEF ExecutedIsLocked
<1> DEFINE S == {s \in Replica : preCommitQC[s].view >= b.view}
<1>1. b.view \in View /\ DecidedIn(b.view)
  BY ExecutedIsProposed, ProposedViews DEF View
<1>2. PICK Q \in Quorums : \A s \in Q : preCommitQC[s].view >= b.view
  BY <1>1 DEF SafeState, SafetyInv, DecisionsLocked
<1>3. Q \subseteq S /\ S \subseteq Replica
  BY <1>2 DEF Quorums
<1>4. IsFiniteSet(S) /\ Cardinality(Q) <= Cardinality(S)
  BY <1>3, ReplicasFinite, FS_Subset
<1>5. Cardinality(S) \in Nat /\ Cardinality(Q) \in Nat
  BY <1>3, <1>4, FS_Subset, FS_CardinalityType
<1> QED
  BY <1>2, <1>4, <1>5, QuorumIsNat DEF Quorums

-----------------------------------------------------------------------------
(* Refinement.  Agreement has its own copies of the definitions. *)

LEMMA SameData ==
    /\ Promise!Replica = Replica
    /\ Promise!Block = Block
    /\ Promise!Chain = Chain
    /\ Promise!Genesis = Genesis
    /\ Promise!ZeroHash = ZeroHash
    /\ Promise!ZeroQC = ZeroQC
    /\ Promise!GenesisQC = GenesisQC
    /\ \A v : Promise!GetLeaderByView(v) = GetLeaderByView(v)
    /\ \A b : Promise!CreateQuorumCert(b) = CreateQuorumCert(b)
BY Zenon DEF Promise!Replica, Replica, Promise!Block, Block, Promise!Hash, Hash,
       Promise!View, View, Promise!QuorumCert, QuorumCert,
       Promise!Chain, Chain, Promise!Genesis, Genesis,
       Promise!ZeroQC, ZeroQC, Promise!GenesisQC, GenesisQC,
       Promise!ZeroHash, ZeroHash, Promise!GenesisHash, GenesisHash,
       Promise!GetLeaderByView, GetLeaderByView,
       Promise!CreateQuorumCert, CreateQuorumCert

LEMMA SameExtends ==
    \A chain, b, a : Promise!Extends(chain, b, a) = Extends(chain, b, a)
BY Zenon DEF Promise!Extends, Extends, Promise!Has, Has, Promise!Get, Get,
       Promise!Parent, Parent

\* The steps of Agreement, in the words of the replicas.
MayPropose(b) ==
    /\ b \in Block
    /\ b.proposer = GetLeaderByView(b.view)
    /\ b.cert \in {ZeroQC, GenesisQC}
                  \cup {CreateQuorumCert(x) : x \in {y \in proposed : y.view < b.view}}
    /\ \A x \in Chain : x.view # b.view /\ x.hash # b.hash
    /\ b.hash # ZeroHash
    /\ \A x \in executed[b.proposer] : x.cmd # b.cmd
    /\ proposed' = proposed \cup {b}
    /\ UNCHANGED executed

MayExecute(r, b) ==
    /\ b \in proposed
    /\ \A x \in executed[r] : x.view < b.view
    /\ executed' = [executed EXCEPT ![r] = @ \cup {b}]
    /\ UNCHANGED proposed

MayDecide(r, b) ==
    /\ b.proposer = r
    /\ \A x \in proposed : x.proposer = r => x.view <= b.view
    /\ \A s \in Replica : \A x \in executed[s] :
          IF x.view <= b.view THEN Extends(Chain, b, x) ELSE Extends(Chain, x, b)
    /\ MayExecute(r, b)

MayLearn(r, b) == b \in executed[b.proposer] /\ MayExecute(r, b)

LEMMA ProposeRefines ==
    ASSUME SafeState, SafeState', NEW r \in Replica, HandleReq(r)
    PROVE  \E b : MayPropose(b)
<1>1. PICK c \in Cmd : ~IsFinished(r, c) /\ SendPrepare(r, c)
  BY DEF HandleReq
<1> DEFINE b == CreateLeaf(r, c)
<1>2. holding[r] /\ UNCHANGED executed
  BY DEF HandleReq, chainVars
<1>3. Leader(r) = r /\ ~HasProposal(view[r])
  BY <1>2 DEF SafeState, TokenDiscipline
<1>4. proposed' = proposed \cup {b}
  BY <1>1, <1>3 DEF SendPrepare
<1>5. /\ b.hash = <<r, clock[r]>> /\ b.view = view[r] /\ b.proposer = r
      /\ b.cmd = c
  BY DEF CreateLeaf
<1> HIDE DEF b
<1>6. b \in Block /\ b \in proposed' /\ b.view \in Nat
  BY <1>4 DEF SafeState, SafetyTypeOK, Block, View
<1>7. ASSUME NEW x \in Chain
      PROVE  x.view # b.view /\ x.hash # b.hash
  <2>1. CASE x \in proposed
    <3>1. x.view # b.view
      BY <1>3, <1>5, <2>1 DEF HasProposal
    <3>2. /\ x.hash[1] = x.proposer /\ x.hash[2] \in Nat
          /\ x.hash[2] < clock[x.proposer]
      BY <2>1 DEF SafeState, SafetyInv, HashesKnown, SafetyTypeOK, Block, Hash
    <3>3. clock[r] \in Nat
      BY DEF SafeState, SafetyTypeOK
    <3> QED
      BY <1>5, <3>1, <3>2, <3>3
  <2>2. CASE x = Genesis
    <3>1. b.view >= 1 /\ b.hash[2] >= 2
      BY <1>6 DEF SafeState, SafetyInv, HashesKnown, ProposedByLeader
    <3> QED
      BY <1>6, <2>2, <3>1 DEF Genesis, GenesisHash
  <2> QED
    BY <2>1, <2>2 DEF Chain
<1>8. b.cert \in {ZeroQC, GenesisQC}
                  \cup {CreateQuorumCert(x) : x \in {y \in proposed : y.view < b.view}}
  <2>1. b.cert \in Certs' /\ b.cert.view < b.view
    BY <1>6 DEF SafeState, SafetyInv, CertsKnown
  <2>2. ASSUME NEW x \in proposed', b.cert = CreateQuorumCert(x)
        PROVE  x \in proposed /\ x.view < b.view
    <3>1. x.view < b.view
      BY <2>1, <2>2 DEF CreateQuorumCert
    <3>2. x # b
      BY <1>6, <3>1
    <3> QED
      BY <1>4, <3>1, <3>2
  <2> QED
    BY <2>1, <2>2 DEF Certs
<1>9. b.proposer = GetLeaderByView(b.view)
  BY <1>3, <1>5 DEF Leader
<1>10. \A x \in executed[b.proposer] : x.cmd # b.cmd
  BY <1>1, <1>5 DEF IsFinished
<1>11. b.hash # ZeroHash
  <2>1. b.hash[2] >= 2
    BY <1>6 DEF SafeState, SafetyInv, HashesKnown
  <2> QED
    BY <2>1 DEF ZeroHash
<1> QED
  BY <1>2, <1>4, <1>6, <1>7, <1>8, <1>9, <1>10, <1>11 DEF MayPropose

\* Execute, in a handler of the current view.
LEMMA ExecuteRefines ==
    ASSUME SafeState, NEW r \in Replica, NEW m, AboutBlock(r, m), UNCHANGED proposed,
           MatchingMsg(r, m), Execute(r, m.block)
    PROVE  MayExecute(r, m.block)
<1>1. m.block \in proposed /\ m.block.view = view[r]
  BY BlockOfMsg DEF SafeState, MatchingMsg
<1>2. \A x \in executed[r] : x.view < view[r]
  BY DEF SafeState, SafetyInv, ExecutedKnown
<1> QED
  BY <1>1, <1>2 DEF MayExecute, Execute

LEMMA DecideRefines ==
    ASSUME SafeState, NEW r \in Replica, NEW m, AboutBlock(r, m), UNCHANGED proposed,
           m.type = "CommitVote", IsFresh(r, m), HasQuorum(r, m),
           Execute(r, m.block)
    PROVE  MayDecide(r, m.block)
<1> DEFINE b == m.block
<1>1. m.type \in VoteType /\ MatchingMsg(r, m)
  BY DEF VoteType, IsFresh
<1>2. b \in proposed /\ b.view = view[r] /\ b.view = m.view /\ b.view \in Nat
  BY <1>1, BlockOfMsg DEF SafeState, MatchingMsg
<1>3. b.proposer = r
  BY <1>1, <1>2 DEF AboutBlock, SafeState, ProposedByLeader
<1>4. LockedIn(b.view)
  <2>1. PICK Q \in Quorums : \A s \in Q : VotedFor("CommitVote", s, b.view)
    BY <1>1, <1>2, QuorumVoted
  <2>2. \E s \in Replica : s \in Q
    <3>1. Q # {}
      BY QuorumIsNat, FS_EmptySet DEF Quorums
    <3> QED
      BY <3>1 DEF Quorums
  <2> QED
    BY <2>1, <2>2 DEF LockedIn
<1>5. ASSUME NEW s \in Replica, NEW x \in executed[s]
      PROVE  IF x.view <= b.view THEN Extends(Chain, b, x) ELSE Extends(Chain, x, b)
  <2>1. x \in proposed /\ LockedIn(x.view) /\ x.view \in Nat
    BY ExecutedIsProposed, ProposedViews
  <2>2. CASE x.view <= b.view
    BY <1>2, <2>1, <2>2, LockedIsExtended
  <2>3. CASE ~(x.view <= b.view)
    BY <1>2, <1>4, <2>1, <2>3, LockedIsExtended
  <2> QED
    BY <2>2, <2>3
<1>6. \A x \in proposed : x.proposer = r => x.view <= b.view
  BY <1>2 DEF SafeState, ProposedByLeader
<1> QED
  BY <1>1, <1>3, <1>5, <1>6, ExecuteRefines DEF MayDecide

LEMMA LearnRefines ==
    ASSUME SafeState, NEW r \in Replica, NEW m, AboutBlock(r, m), UNCHANGED proposed,
           m.type = "Decide", MatchingMsg(r, m), Execute(r, m.block)
    PROVE  MayLearn(r, m.block)
<1>1. m.block \in executed[m.block.proposer]
  BY DEF AboutBlock, SafeState, SafetyInv, LeaderMsgsKnown
<1> QED
  BY <1>1, ExecuteRefines DEF MayLearn

\* What a step does to the blocks.
BlockStep ==
    \/ \E b : MayPropose(b)
    \/ \E r \in Replica : \E b \in proposed : MayDecide(r, b) \/ MayLearn(r, b)
    \/ UNCHANGED <<proposed, executed>>

LEMMA BlockStepIsAgreement == BlockStep => [Promise!Next]_<<proposed, executed>>
<1> SUFFICES ASSUME BlockStep PROVE [Promise!Next]_<<proposed, executed>>
  OBVIOUS
<1>1. ASSUME NEW b, MayPropose(b) PROVE Promise!Next
  <2>1. Promise!CertsBefore(b.view)
          = {ZeroQC, GenesisQC}
            \cup {CreateQuorumCert(x) : x \in {y \in proposed : y.view < b.view}}
    BY SameData DEF Promise!CertsBefore
  <2>2. Promise!Propose(b)
    BY <1>1, <2>1, SameData DEF MayPropose, Promise!Propose
  <2>3. b \in proposed' \ proposed
    BY <1>1 DEF MayPropose, Chain
  <2> QED
    BY <2>2, <2>3 DEF Promise!Next
<1>2. ASSUME NEW r \in Replica, NEW b \in proposed, MayExecute(r, b)
      PROVE  Promise!Execute(r, b)
  BY <1>2 DEF MayExecute, Promise!Execute
<1>3. ASSUME NEW r \in Replica, NEW b \in proposed, MayDecide(r, b)
      PROVE  Promise!Next
  <2>1. \A x \in Promise!Decided : \E s \in Replica : x \in executed[s]
    BY SameData DEF Promise!Decided
  <2>2. Promise!Agrees(b)
    BY <1>3, <2>1, SameData, SameExtends DEF MayDecide, Promise!Agrees
  <2>3. Promise!Decide(r, b)
    BY <1>2, <1>3, <2>2 DEF MayDecide, Promise!Decide
  <2> QED
    BY <2>3, SameData DEF Promise!Next
<1>4. ASSUME NEW r \in Replica, NEW b \in proposed, MayLearn(r, b)
      PROVE  Promise!Next
  <2>1. Promise!Learn(r, b)
    BY <1>2, <1>4 DEF MayLearn, Promise!Learn
  <2> QED
    BY <2>1, SameData DEF Promise!Next
<1> QED
  BY <1>1, <1>3, <1>4 DEF BlockStep

-----------------------------------------------------------------------------
(* What Agreement promises: its guards are enough for Consistency, which     *)
(* whatever implements it inherits.                                          *)

\* No block gets between two stored ones, so what a block extends it extends
\* for ever.
LEMMA ExtendsStays ==
    ASSUME NEW chain, NEW longer, chain \subseteq longer,
           \A x, y \in longer : x.hash = y.hash => x = y,
           \A x \in chain : x.view \in Nat,
           \A x, y \in chain : y.hash = Parent(x) => y.view < x.view,
           NEW a, NEW b \in chain, Extends(chain, b, a)
    PROVE  Extends(longer, b, a)
<1> DEFINE Strays(x) == Extends(chain, x, a) /\ ~Extends(longer, x, a)
           S == {x.view : x \in {y \in chain : Strays(y)}}
<1> SUFFICES ASSUME Strays(b) PROVE FALSE
  OBVIOUS
<1>1. S \in SUBSET Nat /\ S # {}
  OBVIOUS
<1>2. PICK v \in S : \A y \in S : v <= y
  BY <1>1, SmallestNat
<1>3. PICK x \in chain : x.view = v /\ Strays(x)
  BY <1>2
<1>4. x \in longer
  OBVIOUS
<1>5. CASE x.view > a.view
  <2> DEFINE y == Get(chain, Parent(x))
  <2>1. Has(chain, Parent(x)) /\ Extends(chain, y, a)
    BY <1>3, <1>5, ExtendsStep
  <2>2. y \in chain /\ y.hash = Parent(x)
    BY <2>1, GetStored
  <2>3. y.view < x.view
    BY <2>2
  <2>4. Extends(longer, y, a)
    <3> SUFFICES ASSUME ~Extends(longer, y, a) PROVE FALSE
      OBVIOUS
    <3>1. Strays(y)
      BY <2>1
    <3>2. y.view \in S
      BY <2>2, <3>1
    <3>3. v <= y.view /\ y.view \in Nat /\ v \in Nat
      BY <1>1, <1>2, <3>2
    <3> QED
      BY <1>3, <2>3, <3>3
  <2>5. Has(longer, Parent(x)) /\ Get(longer, Parent(x)) = y
    <3>1. Has(longer, Parent(x))
      BY <2>2 DEF Has
    <3>2. Get(longer, Parent(x)) \in longer
          /\ Get(longer, Parent(x)).hash = Parent(x)
      BY <3>1, GetStored
    <3> QED
      BY <2>2, <3>1, <3>2
  <2> HIDE DEF Strays, y
  <2>6. Extends(longer, x, a)
    BY <1>4, <1>5, <2>4, <2>5, ExtendsStep
  <2> QED
    BY <1>3, <2>6 DEF Strays
<1>6. CASE ~(x.view > a.view)
  <2>1. x.hash = a.hash
    BY <1>3, <1>6, ExtendsStep
  <2>2. Extends(longer, x, a)
    BY <1>4, <1>6, <2>1, ExtendsStep
  <2> QED
    BY <1>3, <2>2
<1> QED
  BY <1>5, <1>6

\* What a block's certificate may be: none, or of a block proposed before.
CertsOf(b) ==
    {ZeroQC, GenesisQC}
    \cup {CreateQuorumCert(x) : x \in {y \in proposed : y.view < b.view}}

PromiseInv ==
    /\ proposed \subseteq Block
    /\ executed \in [Replica -> SUBSET proposed]
    /\ \A a, b \in Chain : a.hash = b.hash \/ a.view = b.view => a = b
    /\ \A b \in proposed : /\ b.hash # ZeroHash /\ b.view # 0
                           /\ b.proposer = GetLeaderByView(b.view)
                           /\ b.cert \in CertsOf(b)
    /\ Consistency

\* A block is of a later view than its parent.
LEMMA ParentIsEarlier ==
    ASSUME PromiseInv
    PROVE  /\ \A x \in Chain : x.view \in Nat
           /\ \A x, y \in Chain : y.hash = Parent(x) => y.view < x.view
<1>1. \A x \in Chain : x.view \in Nat /\ x.hash # ZeroHash
  BY DEF PromiseInv, Chain, Block, View, Genesis, GenesisHash, ZeroHash
<1>2. \A x \in proposed : x \in Chain /\ x.view # 0
  BY DEF PromiseInv, Chain
<1>3. Genesis \in Chain /\ Genesis.hash = GenesisHash /\ Genesis.view = 0
      /\ Parent(Genesis) = ZeroHash
  BY DEF Chain, Genesis, Parent, ZeroQC
<1>4. ASSUME NEW x \in Chain, NEW y \in Chain, y.hash = Parent(x)
      PROVE  y.view < x.view
  <2>1. x # Genesis /\ x \in proposed
    BY <1>1, <1>3, <1>4 DEF Chain
  <2>2. x.cert \in CertsOf(x) /\ y.hash = x.cert.hash
    BY <1>4, <2>1 DEF PromiseInv, Parent
  <2>3. CASE x.cert = ZeroQC
    BY <1>1, <2>2, <2>3 DEF ZeroQC
  <2>4. CASE x.cert = GenesisQC
    <3>1. y = Genesis
      BY <1>3, <2>2, <2>4 DEF PromiseInv, GenesisQC
    <3> QED
      BY <1>1, <1>2, <1>3, <2>1, <3>1
  <2>5. CASE \E z \in proposed : z.view < x.view /\ x.cert = CreateQuorumCert(z)
    <3>1. PICK z \in proposed : z.view < x.view /\ x.cert = CreateQuorumCert(z)
      BY <2>5
    <3>2. y = z
      BY <1>2, <2>2, <3>1 DEF PromiseInv, CreateQuorumCert
    <3> QED
      BY <3>1, <3>2
  <2> QED
    BY <2>2, <2>3, <2>4, <2>5 DEF CertsOf
<1> QED
  BY <1>1, <1>4

LEMMA ProposeKeepsPromise ==
    ASSUME PromiseInv, NEW b, MayPropose(b)
    PROVE  PromiseInv'
<1>1. /\ b \in Block
      /\ b.proposer = GetLeaderByView(b.view)
      /\ b.cert \in CertsOf(b)
      /\ \A x \in Chain : x.view # b.view /\ x.hash # b.hash
      /\ b.hash # ZeroHash
      /\ proposed' = proposed \cup {b}
      /\ UNCHANGED executed
      /\ Chain' = Chain \cup {b}
  BY DEF MayPropose, CertsOf, Chain
<1>2. proposed' \subseteq Block /\ executed' \in [Replica -> SUBSET proposed']
  BY <1>1 DEF PromiseInv
<1>3. \A x, y \in Chain' : x.hash = y.hash \/ x.view = y.view => x = y
  BY <1>1 DEF PromiseInv
<1>4. \A x \in proposed' : /\ x.hash # ZeroHash /\ x.view # 0
                           /\ x.proposer = GetLeaderByView(x.view)
                           /\ x.cert \in CertsOf(x)'
  <2>1. Genesis \in Chain /\ Genesis.view = 0
    BY DEF Chain, Genesis
  <2> QED
    BY <1>1, <2>1 DEF PromiseInv, CertsOf
<1>5. Consistency'
  <2> SUFFICES ASSUME NEW r \in Replica, NEW s \in Replica,
                      NEW x \in executed[r], NEW y \in executed[s],
                      x.view <= y.view
               PROVE  Extends(Chain', y, x)
    BY <1>1 DEF Consistency
  <2>1. Extends(Chain, y, x)
    BY DEF PromiseInv, Consistency
  <2>2. y \in Chain
    BY DEF PromiseInv, Chain
  <2>3. Chain \subseteq Chain'
    BY <1>1
  <2>4. \A u, w \in Chain' : u.hash = w.hash => u = w
    BY <1>3
  <2> QED
    BY <2>1, <2>2, <2>3, <2>4, ParentIsEarlier, ExtendsStays
<1> QED
  BY <1>2, <1>3, <1>4, <1>5 DEF PromiseInv

LEMMA ExecuteKeepsPromise ==
    ASSUME PromiseInv, NEW r \in Replica, NEW b \in proposed, MayExecute(r, b),
           \A s \in Replica : \A x \in executed[s] :
              IF x.view <= b.view THEN Extends(Chain, b, x) ELSE Extends(Chain, x, b)
    PROVE  PromiseInv'
<1>1. /\ executed' = [executed EXCEPT ![r] = @ \cup {b}]
      /\ UNCHANGED <<proposed, Chain>>
  BY DEF MayExecute, Chain
<1>2. executed' \in [Replica -> SUBSET proposed']
  BY <1>1 DEF PromiseInv
<1>3. \A s \in Replica : \A x \in executed'[s] : x \in executed[s] \/ x = b
  BY <1>1 DEF PromiseInv
<1>4. b \in Chain /\ b.view \in Nat /\ Extends(Chain, b, b)
  <2>1. b \in Chain /\ b.view \in Nat
    BY DEF PromiseInv, Chain, Block, View
  <2>2. ~(b.view > b.view)
    BY <2>1
  <2> QED
    BY <2>1, <2>2, ExtendsStep
<1>5. ASSUME NEW s \in Replica, NEW x \in executed[s], b.view <= x.view
      PROVE  Extends(Chain, x, b)
  <2>1. x \in Chain /\ x.view \in Nat
    BY DEF PromiseInv, Chain, Block, View
  <2>2. CASE x.view = b.view
    <3>1. x = b
      BY <1>4, <2>1, <2>2 DEF PromiseInv
    <3> QED
      BY <1>4, <3>1
  <2>3. CASE x.view # b.view
    <3>1. ~(x.view <= b.view)
      BY <1>4, <1>5, <2>1, <2>3
    <3> QED
      BY <3>1
  <2> QED
    BY <2>2, <2>3
<1>6. Consistency'
  <2> SUFFICES ASSUME NEW p \in Replica, NEW s \in Replica,
                      NEW x \in executed'[p], NEW y \in executed'[s],
                      x.view <= y.view
               PROVE  Extends(Chain, y, x)
    BY <1>1 DEF Consistency
  <2>1. CASE x \in executed[p] /\ y \in executed[s]
    BY <2>1 DEF PromiseInv, Consistency
  <2>2. CASE x \in executed[p] /\ y = b
    BY <2>2
  <2>3. CASE x = b /\ y \in executed[s]
    BY <1>5, <2>3
  <2>4. CASE x = b /\ y = b
    BY <1>4, <2>4
  <2> QED
    BY <1>3, <2>1, <2>2, <2>3, <2>4
<1>7. \A x \in proposed : CertsOf(x)' = CertsOf(x)
  BY <1>1 DEF CertsOf
<1> QED
  BY <1>1, <1>2, <1>6, <1>7 DEF PromiseInv

\* The abstract specification keeps its promise, for every number of replicas,
\* six among them: of any two blocks that replicas execute, one extends the
\* other.  So it is the meeting of quorums that six replicas lose, and not the
\* rules of proposing and deciding.
THEOREM AgreementIsConsistent == Promise!Spec => []Consistency
<1>1. Promise!Init => PromiseInv
  <2> SUFFICES ASSUME Promise!Init PROVE PromiseInv
    OBVIOUS
  <2>1. proposed = {} /\ executed = [r \in Replica |-> {}]
    BY SameData DEF Promise!Init
  <2>2. Chain = {Genesis}
    BY <2>1 DEF Chain
  <2> QED
    BY <2>1, <2>2 DEF PromiseInv, Consistency
<1>2. PromiseInv /\ [Promise!Next]_<<proposed, executed>> => PromiseInv'
  <2> SUFFICES ASSUME PromiseInv, [Promise!Next]_<<proposed, executed>>
               PROVE  PromiseInv'
    OBVIOUS
  <2>1. CASE UNCHANGED <<proposed, executed>>
    BY <2>1 DEF PromiseInv, Consistency, Chain, CertsOf
  <2>2. ASSUME NEW b, Promise!Propose(b)
        PROVE  PromiseInv'
    <3>1. Promise!CertsBefore(b.view) = CertsOf(b)
      BY SameData DEF Promise!CertsBefore, CertsOf
    <3>2. MayPropose(b)
      BY <2>2, <3>1, SameData DEF Promise!Propose, MayPropose, CertsOf
    <3> QED
      BY <3>2, ProposeKeepsPromise
  <2>3. ASSUME NEW r \in Replica, NEW b \in proposed, Promise!Execute(r, b)
        PROVE  MayExecute(r, b)
    BY <2>3 DEF Promise!Execute, MayExecute
  <2>4. ASSUME NEW r \in Replica, NEW b \in proposed, Promise!Decide(r, b)
        PROVE  PromiseInv'
    <3>1. MayExecute(r, b)
      BY <2>3, <2>4 DEF Promise!Decide
    <3>2. \A s \in Replica : \A x \in executed[s] : x \in Promise!Decided
      BY SameData DEF Promise!Decided
    <3>3. \A x \in Promise!Decided :
              IF x.view <= b.view THEN Extends(Chain, b, x) ELSE Extends(Chain, x, b)
      BY <2>4, SameData, SameExtends DEF Promise!Decide, Promise!Agrees
    <3> QED
      BY <3>1, <3>2, <3>3, ExecuteKeepsPromise
  <2>5. ASSUME NEW r \in Replica, NEW b \in proposed, Promise!Learn(r, b)
        PROVE  PromiseInv'
    <3>1. MayExecute(r, b) /\ b \in executed[b.proposer]
      BY <2>3, <2>5 DEF Promise!Learn
    <3>2. b.proposer \in Replica /\ b.view \in Nat
      BY LeaderIsReplica DEF PromiseInv, Block, View
    <3>3. ASSUME NEW s \in Replica, NEW x \in executed[s]
          PROVE  IF x.view <= b.view THEN Extends(Chain, b, x)
                                     ELSE Extends(Chain, x, b)
      <4>1. x.view \in Nat
        BY DEF PromiseInv, Block, View
      <4>2. x.view <= b.view \/ b.view <= x.view
        BY <3>2, <4>1
      <4> QED
        BY <3>1, <3>2, <4>2 DEF PromiseInv, Consistency
    <3> QED
      BY <3>1, <3>3, ExecuteKeepsPromise
  <2> QED
    BY <2>1, <2>2, <2>4, <2>5, SameData DEF Promise!Next
<1>3. PromiseInv => Consistency
  BY DEF PromiseInv
<1> QED
  BY <1>1, <1>2, <1>3, PTL DEF Promise!Spec
=============================================================================
