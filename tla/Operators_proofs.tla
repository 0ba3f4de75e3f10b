--------------------------- MODULE Operators_proofs ---------------------------
(***************************************************************************)
(* Theorems about the operators that the replicas are built from: quorums  *)
(* meet, the walk of Extends goes from block to parent until it is at the  *)
(* target's height, what sending and taking do to the links, and that the  *)
(* handlers that basic HotStuff and Cogsworth share keep the types,        *)
(* whatever other messages there are.                                      *)
(***************************************************************************)
EXTENDS HotStuffImpl, FiniteSetTheorems, FunctionTheorems, TLAPS

-----------------------------------------------------------------------------
(* NodeManager: replicas and their quorums. *)

LEMMA LeaderIsReplica == \A v \in View : GetLeaderByView(v) \in Replica
<1> SUFFICES ASSUME NEW v \in Nat PROVE v % TotalNumber \in 0..TotalNumber - 1
  BY DEF View, GetLeaderByView, Replica
<1>1. TotalNumber \in 4..16 BY TotalNumberAssumption
<1>2. CASE TotalNumber \in 4..7 BY <1>2
<1>3. CASE TotalNumber \in 8..11 BY <1>3
<1>4. CASE TotalNumber \in 12..16 BY <1>4
<1> QED BY <1>1, <1>2, <1>3, <1>4

LEMMA QuorumIsNat == QuorumSize \in Nat /\ QuorumSize >= 3 /\ F \in Nat
<1>1. TotalNumber \in 4..16 BY TotalNumberAssumption
<1> QED BY <1>1 DEF QuorumSize, F

LEMMA ReplicasFinite == IsFiniteSet(Replica) /\ Cardinality(Replica) = TotalNumber
<1>1. TotalNumber \in 4..16
  BY TotalNumberAssumption
<1> QED
  BY <1>1, FS_Interval DEF Replica

Quorums == {Q \in SUBSET Replica : Cardinality(Q) >= QuorumSize}

\* Any two quorums have a replica in common, unless there are six replicas:
\* CalQuorumSize gives these a quorum of three.
THEOREM QuorumsMeet ==
    ASSUME TotalNumber # 6, NEW P \in Quorums, NEW Q \in Quorums
    PROVE  P \cap Q # {}
<1>1. TotalNumber \in 4..16
  BY TotalNumberAssumption
<1>2. 2 * QuorumSize > TotalNumber
  <2>1. CASE TotalNumber \in {4, 5, 7, 8}
    BY <2>1 DEF QuorumSize, F
  <2>2. CASE TotalNumber \in {9, 10, 11, 12}
    BY <2>2 DEF QuorumSize, F
  <2>3. CASE TotalNumber \in {13, 14, 15, 16}
    BY <2>3 DEF QuorumSize, F
  <2> QED
    BY <1>1, <2>1, <2>2, <2>3
<1>3. P \in SUBSET Replica /\ Q \in SUBSET Replica
  BY DEF Quorums
<1>4. Cardinality(P) \in Nat /\ Cardinality(Q) \in Nat
  BY <1>3, ReplicasFinite, FS_Subset, FS_CardinalityType
<1>5. Cardinality(P) >= QuorumSize /\ Cardinality(Q) >= QuorumSize
  BY DEF Quorums
<1>6. Cardinality(P) + Cardinality(Q) > Cardinality(Replica)
  BY <1>1, <1>2, <1>4, <1>5, QuorumIsNat, ReplicasFinite
<1> QED
  BY <1>3, <1>6, ReplicasFinite, FS_MajoritiesIntersect

\* The senders of enough messages, each from another sender, are a quorum.
LEMMA SendersAreQuorum ==
    ASSUME NEW S, Cardinality(S) >= QuorumSize, NEW f \in [S -> Replica],
           \A x, y \in S : f[x] = f[y] => x = y
    PROVE  {f[x] : x \in S} \in Quorums
<1> DEFINE Q == {f[x] : x \in S}
<1>1. f \in Injection(S, Replica)
  BY Fun_IsInj
<1>2. IsFiniteSet(S)
  BY <1>1, ReplicasFinite, FS_Injection
<1>3. Q \in SUBSET Replica
  OBVIOUS
<1>4. f \in [S -> Q]
  OBVIOUS
<1>5. f \in Surjection(S, Q) /\ f \in Injection(S, Q)
  BY <1>4, Fun_IsSurj, Fun_IsInj
<1>6. Cardinality(Q) = Cardinality(S)
  BY <1>2, <1>5, FS_Surjection
<1> QED
  BY <1>3, <1>6 DEF Quorums

-----------------------------------------------------------------------------
(* BlockChain: the walk of Extends. *)

LEMMA GetStored ==
    ASSUME NEW chain, NEW h, Has(chain, h)
    PROVE  Get(chain, h) \in chain /\ Get(chain, h).hash = h
BY DEF Has, Get

\* The function that Extends defines, on the blocks of S.
Walk(S, chain, target) ==
    LET walk[b \in S] ==
            IF b.view > target.view
            THEN Has(chain, Parent(b)) /\ walk[Get(chain, Parent(b))]
            ELSE b.hash = target.hash
    IN  walk

\* There is such a function: it tells the blocks from which parents lead to the
\* target's height, and there to the target's hash.
Path(chain, target, n, p) ==
    /\ p \in [0..n -> chain]
    /\ \A i \in 0..n-1 : /\ p[i].view > target.view
                         /\ Has(chain, Parent(p[i]))
                         /\ p[i + 1] = Get(chain, Parent(p[i]))
    /\ ~(p[n].view > target.view)
    /\ p[n].hash = target.hash

Reaches(chain, target, b) ==
    \E n \in Nat : \E p : Path(chain, target, n, p) /\ p[0] = b

LEMMA ReachesStep ==
    ASSUME NEW chain, NEW target, NEW b \in chain
    PROVE  Reaches(chain, target, b) <=>
               IF b.view > target.view
               THEN /\ Has(chain, Parent(b))
                    /\ Reaches(chain, target, Get(chain, Parent(b)))
               ELSE b.hash = target.hash
<1> DEFINE next == Get(chain, Parent(b))
<1>1. CASE b.view > target.view
  <2>1. ASSUME Reaches(chain, target, b)
        PROVE  Has(chain, Parent(b)) /\ Reaches(chain, target, next)
    <3>1. PICK n \in Nat : \E p : Path(chain, target, n, p) /\ p[0] = b
      BY <2>1 DEF Reaches
    <3>2. PICK p : Path(chain, target, n, p) /\ p[0] = b
      BY <3>1
    <3>3. n # 0
      BY <1>1, <3>2 DEF Path
    <3>4. n - 1 \in Nat /\ 0 \in 0..n-1
      BY <3>1, <3>3
    <3>5. Has(chain, Parent(b)) /\ p[1] = next
      BY <3>2, <3>4 DEF Path
    <3> DEFINE tail == [i \in 0..n-1 |-> p[i + 1]]
    <3>6. Path(chain, target, n - 1, tail) /\ tail[0] = next
      <4>1. \A i \in 0..n-1 : i + 1 \in 0..n
        BY <3>1
      <4>2. tail \in [0..n-1 -> chain]
        BY <3>2, <4>1 DEF Path
      <4>3. \A i \in 0..(n-1)-1 : /\ i \in 0..n-1 /\ i + 1 \in 0..n-1
                                  /\ tail[i] = p[i + 1] /\ tail[i + 1] = p[(i + 1) + 1]
        BY <3>1
      <4>4. tail[n - 1] = p[n] /\ tail[0] = p[1]
        BY <3>4
      <4> HIDE DEF tail
      <4> QED
        BY <3>2, <3>5, <4>2, <4>3, <4>4 DEF Path
    <3> QED
      BY <3>4, <3>5, <3>6 DEF Reaches
  <2>2. ASSUME Has(chain, Parent(b)), Reaches(chain, target, next)
        PROVE  Reaches(chain, target, b)
    <3>1. PICK n \in Nat : \E p : Path(chain, target, n, p) /\ p[0] = next
      BY <2>2 DEF Reaches
    <3>2. PICK p : Path(chain, target, n, p) /\ p[0] = next
      BY <3>1
    <3> DEFINE path == [i \in 0..n+1 |-> IF i = 0 THEN b ELSE p[i - 1]]
    <3>3. Path(chain, target, n + 1, path) /\ path[0] = b
      <4>1. \A i \in 0..n+1 : i # 0 => i - 1 \in 0..n
        BY <3>1
      <4>2. path \in [0..n+1 -> chain]
        BY <3>2, <4>1 DEF Path
      <4>3. \A i \in 0..(n+1)-1 : /\ path[i + 1] = p[i]
                                  /\ i # 0 => i - 1 \in 0..n-1 /\ path[i] = p[i - 1]
                                  /\ i = (i - 1) + 1
        BY <3>1
      <4>4. path[n + 1] = p[n] /\ path[0] = b
        BY <3>1
      <4> HIDE DEF path
      <4>5. ASSUME NEW i \in 0..(n+1)-1
            PROVE  /\ path[i].view > target.view
                   /\ Has(chain, Parent(path[i]))
                   /\ path[i + 1] = Get(chain, Parent(path[i]))
        <5>1. CASE i = 0
          BY <1>1, <2>2, <3>2, <4>3, <4>4, <5>1
        <5>2. CASE i # 0
          BY <3>2, <4>3, <5>2 DEF Path
        <5> QED
          BY <5>1, <5>2
      <4> QED
        BY <3>2, <4>2, <4>4, <4>5 DEF Path
    <3> QED
      BY <3>1, <3>3 DEF Reaches
  <2> QED
    BY <1>1, <2>1, <2>2
<1>2. CASE ~(b.view > target.view)
  <2>1. ASSUME Reaches(chain, target, b)
        PROVE  b.hash = target.hash
    <3>1. PICK n \in Nat : \E p : Path(chain, target, n, p) /\ p[0] = b
      BY <2>1 DEF Reaches
    <3>2. PICK p : Path(chain, target, n, p) /\ p[0] = b
      BY <3>1
    <3>3. n # 0 => 0 \in 0..n-1
      BY <3>1
    <3> QED
      BY <1>2, <3>2, <3>3 DEF Path
  <2>2. ASSUME b.hash = target.hash
        PROVE  Reaches(chain, target, b)
    <3> DEFINE path == [i \in 0..0 |-> b]
    <3>1. Path(chain, target, 0, path) /\ path[0] = b
      BY <1>2, <2>2 DEF Path
    <3> QED
      BY <3>1 DEF Reaches
  <2> QED
    BY <1>2, <2>1, <2>2
<1> QED
  BY <1>1, <1>2

LEMMA WalkStep ==
    ASSUME NEW chain, NEW target, NEW b \in chain
    PROVE  Walk(chain, chain, target)[b] <=>
               IF b.view > target.view
               THEN /\ Has(chain, Parent(b))
                    /\ Walk(chain, chain, target)[Get(chain, Parent(b))]
               ELSE b.hash = target.hash
<1> DEFINE Step(f, x) == IF x.view > target.view
                         THEN Has(chain, Parent(x)) /\ f[Get(chain, Parent(x))]
                         ELSE x.hash = target.hash
           Solves(f) == f = [x \in chain |-> Step(f, x)]
           g == [x \in chain |-> Reaches(chain, target, x)]
<1>1. \E f : Solves(f)
  <2>1. ASSUME NEW x \in chain
        PROVE  g[x] = Step(g, x)
    <3>1. \A y \in chain : g[y] \in BOOLEAN /\ (g[y] <=> Reaches(chain, target, y))
      <4>1. \A y : Reaches(chain, target, y) \in BOOLEAN
        BY DEF Reaches
      <4> QED
        BY <4>1
    <3> HIDE DEF g
    <3>2. Has(chain, Parent(x)) => Get(chain, Parent(x)) \in chain
      BY GetStored
    <3>3. CASE x.view > target.view
      <4>1. g[x] <=> Has(chain, Parent(x)) /\ g[Get(chain, Parent(x))]
        BY <3>1, <3>2, <3>3, ReachesStep
      <4> QED
        BY <3>1, <3>3, <4>1
    <3>4. CASE ~(x.view > target.view)
      <4>1. g[x] <=> x.hash = target.hash
        BY <3>1, <3>4, ReachesStep
      <4> QED
        BY <3>1, <3>4, <4>1
    <3> QED
      BY <3>3, <3>4
  <2>2. g = [x \in chain |-> g[x]]
    OBVIOUS
  <2>3. Solves(g)
    BY <2>1, <2>2
  <2> QED
    BY <2>3
<1>2. Walk(chain, chain, target) = CHOOSE f : Solves(f)
  BY DEF Walk
<1>3. Solves(Walk(chain, chain, target))
  <2> HIDE DEF Solves
  <2> QED
    BY <1>1, <1>2
<1>4. Walk(chain, chain, target)[b] = Step(Walk(chain, chain, target), b)
  BY <1>3
<1> QED
  BY <1>4

\* What Extends says of a stored block.
LEMMA ExtendsStep ==
    ASSUME NEW chain, NEW target, NEW b \in chain
    PROVE  Extends(chain, b, target) <=>
               IF b.view > target.view
               THEN /\ Has(chain, Parent(b))
                    /\ Extends(chain, Get(chain, Parent(b)), target)
               ELSE b.hash = target.hash
<1>1. ASSUME NEW x \in chain
      PROVE  Extends(chain, x, target) = Walk(chain, chain, target)[x]
  <2>1. Extends(chain, x, target) = Walk(chain \cup {x}, chain, target)[x]
    BY DEF Extends, Walk
  <2>2. chain \cup {x} = chain
    OBVIOUS
  <2> QED
    BY <2>1, <2>2
<1>2. Has(chain, Parent(b)) => Get(chain, Parent(b)) \in chain
  BY GetStored
<1>3. Extends(chain, b, target) = Walk(chain, chain, target)[b]
  BY <1>1
<1>4. Has(chain, Parent(b)) =>
          Extends(chain, Get(chain, Parent(b)), target)
            = Walk(chain, chain, target)[Get(chain, Parent(b))]
  BY <1>1, <1>2
<1>5. CASE b.view > target.view
  <2>1. Walk(chain, chain, target)[b] <=>
            /\ Has(chain, Parent(b))
            /\ Walk(chain, chain, target)[Get(chain, Parent(b))]
    BY <1>5, WalkStep
  <2> QED
    BY <1>3, <1>4, <1>5, <2>1
<1>6. CASE ~(b.view > target.view)
  <2>1. Walk(chain, chain, target)[b] <=> b.hash = target.hash
    BY <1>6, WalkStep
  <2> QED
    BY <1>3, <1>6, <2>1
<1> QED
  BY <1>5, <1>6

-----------------------------------------------------------------------------
(* MessageQueue: what Pop deletes besides the message it returns. *)

\* A view is a word, and view - 100 wraps around below 100, to one of the last
\* hundred words.  As long as no message is of so late a view, Pop deletes what
\* it would delete with a subtraction that does not wrap, as in the model.
THEOREM PopWraps ==
    ASSUME NEW words \in Nat, NEW q, NEW v \in View, NEW m, v < words,
           \A x \in q : x.view \in View /\ x.view + 100 < words
    PROVE  Pop(q, v, m) = {x \in q \ {m} : x.view # (v - 100) % words}
<1> SUFFICES ASSUME NEW x \in q
             PROVE  x.view # v - 100 <=> x.view # (v - 100) % words
  BY DEF Pop
<1>1. x.view \in Nat /\ v \in Nat /\ x.view + 100 < words
  BY DEF View
<1>2. CASE v >= 100
  <2>1. v - 100 \in Nat /\ v - 100 < words
    BY <1>1, <1>2
  <2>2. \A n \in Nat : n < words => n % words = n
    OBVIOUS
  <2> QED
    BY <2>1, <2>2
<1>3. CASE v < 100
  <2>1. (v - 100) % words = v - 100 + words
    BY <1>1, <1>3
  <2> QED
    BY <1>1, <1>3, <2>1
<1> QED
  BY <1>1, <1>2, <1>3

-----------------------------------------------------------------------------
(* Links of messages M. *)

NetOf(M) == [Replica -> [Replica -> Seq(M)]]

\* Network n after r has sent x to the replicas D.
Send(n, r, x, D) ==
    [s \in Replica |-> [d \in Replica |->
        IF s = r /\ d \in D THEN Append(n[s][d], x) ELSE n[s][d]]]

LEMMA UnicastSends ==
    ASSUME NEW M, NEW n \in NetOf(M), NEW s \in Replica, NEW d \in Replica, NEW x
    PROVE  Unicast(n, s, d, x) = Send(n, s, x, {d})
BY DEF NetOf, Unicast, Send

LEMMA MulticastSends ==
    ASSUME NEW M, NEW n \in NetOf(M), NEW s \in Replica, NEW x
    PROVE  Multicast(n, s, x) = Send(n, s, x, Replica \ {s})
BY DEF NetOf, Multicast, Send

LEMMA NothingSent ==
    ASSUME NEW M, NEW n \in NetOf(M), NEW s, NEW x
    PROVE  Send(n, s, x, {}) = n
BY DEF NetOf, Send

LEMMA SendType ==
    ASSUME NEW M, NEW n \in NetOf(M), NEW s \in Replica, NEW D, NEW x \in M
    PROVE  Send(n, s, x, D) \in NetOf(M)
BY DEF NetOf, Send

LEMMA UnicastTypeOf ==
    ASSUME NEW M, NEW n \in NetOf(M), NEW s \in Replica, NEW d \in Replica,
           NEW x \in M
    PROVE  Unicast(n, s, d, x) \in NetOf(M)
BY DEF NetOf, Unicast

LEMMA MulticastTypeOf ==
    ASSUME NEW M, NEW n \in NetOf(M), NEW s \in Replica, NEW x \in M
    PROVE  Multicast(n, s, x) \in NetOf(M)
BY DEF NetOf, Multicast

LEMMA TakenTypeOf ==
    ASSUME NEW M, net \in NetOf(M), NEW r \in Replica, NEW s \in Replica,
           net[s][r] # <<>>
    PROVE  Head(net[s][r]) \in M /\ Taken(r, s) \in NetOf(M)
<1>1. net[s][r] \in Seq(M)
  BY DEF NetOf
<1>2. Head(net[s][r]) \in M /\ Tail(net[s][r]) \in Seq(M)
  BY <1>1
<1> QED
  BY <1>2 DEF Taken, NetOf

-----------------------------------------------------------------------------
(* Types, with messages M on the links and reports T in highQCTmp. *)

\* The variables that the handlers change.
ImplTypeOK(M, T) ==
    /\ view \in [Replica -> View]
    /\ prepareQC \in [Replica -> QuorumCert]
    /\ preCommitQC \in [Replica -> QuorumCert]
    /\ highQC \in [Replica -> QuorumCert]
    /\ votes \in [Replica -> SUBSET VoteRecord]
    /\ finishedVotes \in [Replica -> SUBSET (VoteType \X Hash)]
    /\ highQCTmp \in [Replica -> SUBSET T]
    /\ viewChanged \in [Replica -> BOOLEAN]
    /\ blockChain \in [Replica -> SUBSET Block]
    /\ executed \in [Replica -> SUBSET Block]
    /\ timer \in [Replica -> BOOLEAN]
    /\ holding \in [Replica -> BOOLEAN]
    /\ status \in [Replica -> {"up", "panicked", "blocked"}]
    /\ msgQueue \in [Replica -> SUBSET M]
    /\ net \in NetOf(M)

\* The others.
RestTypeOK(M) ==
    /\ clock \in [Replica -> Nat]
    /\ hand \in [Replica -> SUBSET M]
    /\ chasing \in [Replica -> BOOLEAN]
    /\ proposed \in SUBSET Block
    /\ lost \in Nat

LEMMA QCType == ZeroQC \in QuorumCert /\ GenesisQC \in QuorumCert
BY DEF ZeroQC, GenesisQC, QuorumCert, View, Hash, ZeroHash, GenesisHash

LEMMA GenesisType == Genesis \in Block
BY QCType DEF Genesis, Block, View, Hash, GenesisHash

LEMMA QuorumCertType ==
    ASSUME NEW b \in Block
    PROVE  CreateQuorumCert(b) \in QuorumCert
BY DEF CreateQuorumCert, QuorumCert, Block

LEMMA InitImplType ==
    ASSUME NEW M, NEW T, Init
    PROVE  ImplTypeOK(M, T) /\ RestTypeOK(M)
BY LeaderIsReplica, QCType, GenesisType
   DEF Init, ImplTypeOK, RestTypeOK, View, NetOf

LEMMA VoteMsgType ==
    ASSUME view \in [Replica -> View], NEW r \in Replica, NEW type \in VoteType,
           NEW b \in Block
    PROVE  VoteFrom(r, type, b) \in VoteMsg
BY DEF VoteFrom, VoteMsg

LEMMA LeaderMsgType ==
    ASSUME NEW type \in LeaderType, NEW v \in View, NEW b \in Block,
           NEW qc \in QuorumCert
    PROVE  PhaseMsg(type, v, b, qc) \in LeaderMsg
BY DEF PhaseMsg, LeaderMsg

LEMMA IgnoreImplType ==
    ASSUME NEW M, NEW T, ImplTypeOK(M, T), NEW r \in Replica, NEW n \in NetOf(M),
           NEW q \in SUBSET M, Ignore(r, n, q)
    PROVE  ImplTypeOK(M, T)'
BY DEF Ignore, ImplTypeOK, leaderVars, viewVars, chainVars

LEMMA PanicImplType ==
    ASSUME NEW M, NEW T, ImplTypeOK(M, T), NEW r \in Replica, NEW n \in NetOf(M),
           NEW q \in SUBSET M, Panic(r, n, q)
    PROVE  ImplTypeOK(M, T)'
BY DEF Panic, ImplTypeOK, leaderVars, chainVars

LEMMA CountedType ==
    ASSUME votes \in [Replica -> SUBSET VoteRecord], NEW r \in Replica,
           NEW m \in VoteMsg
    PROVE  /\ Counted(r, m) \in SUBSET VoteRecord
           /\ LeftVotes(r, m) \in SUBSET VoteRecord
           /\ <<m.type, m.block.hash>> \in VoteType \X Hash
BY DEF Counted, LeftVotes, OwnVote, VoteRecord, VoteMsg, Block

LEMMA StoreVoteImplType ==
    ASSUME NEW M, NEW T, ImplTypeOK(M, T), NEW r \in Replica, NEW m \in VoteMsg,
           NEW n \in NetOf(M), NEW q \in SUBSET M, StoreVote(r, m, n, q)
    PROVE  ImplTypeOK(M, T)'
BY CountedType DEF StoreVote, ImplTypeOK, viewVars, chainVars

LEMMA VoteImplType ==
    ASSUME NEW M, NEW T, VoteMsg \subseteq M, ImplTypeOK(M, T), NEW r \in Replica,
           NEW type \in VoteType, NEW b \in Block, NEW n \in NetOf(M),
           NEW q \in SUBSET M, Vote(r, type, b, n, q),
           prepareQC' \in [Replica -> QuorumCert],
           preCommitQC' \in [Replica -> QuorumCert]
    PROVE  ImplTypeOK(M, T)'
<1>1. Leader(r) \in Replica
  BY LeaderIsReplica DEF Leader, ImplTypeOK
<1>2. VoteFrom(r, type, b) \in M
  BY VoteMsgType DEF ImplTypeOK
<1>3. net' \in NetOf(M)
  BY <1>1, <1>2, UnicastTypeOf DEF Vote
<1> QED
  BY <1>3 DEF Vote, ImplTypeOK, leaderVars, viewVars, chainVars

LEMMA StartPhaseImplType ==
    ASSUME NEW M, NEW T, LeaderMsg \subseteq M, ImplTypeOK(M, T), NEW r \in Replica,
           NEW m \in VoteMsg, NEW type \in LeaderType, NEW voteType \in VoteType,
           NEW n \in NetOf(M), NEW q \in SUBSET M,
           StartPhase(r, m, type, voteType, n, q),
           prepareQC' \in [Replica -> QuorumCert],
           preCommitQC' \in [Replica -> QuorumCert]
    PROVE  ImplTypeOK(M, T)'
<1>1. m.block \in Block
  BY DEF VoteMsg
<1>2. OwnVote(r, voteType, m.block) \in VoteRecord
  BY <1>1 DEF OwnVote, VoteRecord, Block
<1>3. votes' \in [Replica -> SUBSET VoteRecord]
  BY <1>2, CountedType DEF StartPhase, ImplTypeOK
<1>4. finishedVotes' \in [Replica -> SUBSET (VoteType \X Hash)]
  BY CountedType DEF StartPhase, FinishVotes, ImplTypeOK
<1>5. PhaseMsg(type, view[r], m.block, CreateQuorumCert(m.block)) \in M
  BY <1>1, QuorumCertType, LeaderMsgType DEF ImplTypeOK
<1>6. net' \in NetOf(M)
  BY <1>5, MulticastTypeOf DEF StartPhase
<1> QED
  BY <1>3, <1>4, <1>6 DEF StartPhase, ImplTypeOK, viewVars, chainVars

LEMMA ExecuteImplType ==
    ASSUME blockChain \in [Replica -> SUBSET Block],
           executed \in [Replica -> SUBSET Block],
           NEW r \in Replica, NEW b \in Block, Execute(r, b)
    PROVE  /\ blockChain' \in [Replica -> SUBSET Block]
           /\ executed' \in [Replica -> SUBSET Block]
<1>1. Clean(Store(blockChain[r], b), b) \in SUBSET Block
  BY DEF Clean, Store
<1> QED
  BY <1>1 DEF Execute

\* The handlers of the three phases keep the types.
LEMMA PhaseImplType ==
    ASSUME NEW M, NEW T, VoteMsg \cup LeaderMsg \subseteq M, ImplTypeOK(M, T),
           NEW r \in Replica, NEW m \in VoteMsg \cup LeaderMsg,
           NEW n \in NetOf(M), NEW q \in SUBSET M,
           \/ m.type = "Prepare" /\ OnReceivePrepare(r, m, n, q)
           \/ m.type = "PrepareVote" /\ OnReceivePrepareVote(r, m, n, q)
           \/ m.type = "PreCommit" /\ OnReceivePreCommit(r, m, n, q)
           \/ m.type = "PreCommitVote" /\ OnReceivePreCommitVote(r, m, n, q)
           \/ m.type = "Commit" /\ OnReceiveCommit(r, m, n, q)
    PROVE  ImplTypeOK(M, T)'
<1>1. VoteMsg \subseteq M /\ LeaderMsg \subseteq M /\ m.block \in Block
  BY DEF VoteMsg, LeaderMsg
<1>2. /\ m.type \in LeaderType => m.qc \in QuorumCert
      /\ m.type \in VoteType => m \in VoteMsg
  BY DEF VoteMsg, LeaderMsg, VoteType, LeaderType
<1>3. CASE Ignore(r, n, q) \/ Panic(r, n, q)
  BY <1>3, IgnoreImplType, PanicImplType
<1>4. CASE m.type \in VoteType /\ StoreVote(r, m, n, q)
  BY <1>2, <1>4, StoreVoteImplType
<1>5. ASSUME NEW type \in VoteType, Vote(r, type, m.block, n, q),
             m.type \in LeaderType,
             \/ UNCHANGED <<prepareQC, preCommitQC>>
             \/ prepareQC' = [prepareQC EXCEPT ![r] = m.qc] /\ UNCHANGED preCommitQC
             \/ preCommitQC' = [preCommitQC EXCEPT ![r] = m.qc] /\ UNCHANGED prepareQC
      PROVE  ImplTypeOK(M, T)'
  <2>1. /\ prepareQC' \in [Replica -> QuorumCert]
        /\ preCommitQC' \in [Replica -> QuorumCert]
    BY <1>2, <1>5 DEF ImplTypeOK
  <2> QED
    BY <1>1, <1>5, <2>1, VoteImplType
<1>6. ASSUME NEW type \in LeaderType, NEW voteType \in VoteType, m.type \in VoteType,
             StartPhase(r, m, type, voteType, n, q),
             NEW qc \in QuorumCert,
             \/ prepareQC' = [prepareQC EXCEPT ![r] = qc] /\ UNCHANGED preCommitQC
             \/ preCommitQC' = [preCommitQC EXCEPT ![r] = qc] /\ UNCHANGED prepareQC
      PROVE  ImplTypeOK(M, T)'
  <2>1. /\ prepareQC' \in [Replica -> QuorumCert]
        /\ preCommitQC' \in [Replica -> QuorumCert]
    BY <1>6 DEF ImplTypeOK
  <2> QED
    BY <1>1, <1>2, <1>6, <2>1, StartPhaseImplType
<1>7. CreateQuorumCert(m.block) \in QuorumCert
  BY <1>1, QuorumCertType
<1> USE DEF VoteType, LeaderType
<1>8. CASE m.type = "Prepare" /\ OnReceivePrepare(r, m, n, q)
  BY <1>3, <1>5, <1>8 DEF OnReceivePrepare
<1>9. CASE m.type = "PrepareVote" /\ OnReceivePrepareVote(r, m, n, q)
  BY <1>3, <1>4, <1>6, <1>7, <1>9 DEF OnReceivePrepareVote
<1>10. CASE m.type = "PreCommit" /\ OnReceivePreCommit(r, m, n, q)
  BY <1>3, <1>5, <1>10 DEF OnReceivePreCommit
<1>11. CASE m.type = "PreCommitVote" /\ OnReceivePreCommitVote(r, m, n, q)
  BY <1>3, <1>4, <1>6, <1>7, <1>11 DEF OnReceivePreCommitVote
<1>12. CASE m.type = "Commit" /\ OnReceiveCommit(r, m, n, q)
  BY <1>3, <1>5, <1>12 DEF OnReceiveCommit
<1> QED
  BY <1>8, <1>9, <1>10, <1>11, <1>12

LEMMA SendPrepareImplType ==
    ASSUME NEW M, NEW T, LeaderMsg \subseteq M, ImplTypeOK(M, T), RestTypeOK(M),
           NEW r \in Replica, NEW c \in Cmd, SendPrepare(r, c)
    PROVE  /\ CreateLeaf(r, c) \in Block
           /\ net' \in NetOf(M)
           /\ votes' \in [Replica -> SUBSET VoteRecord]
           /\ timer' \in [Replica -> BOOLEAN]
           /\ clock' \in [Replica -> Nat]
           /\ proposed' \in SUBSET Block
<1> DEFINE b == CreateLeaf(r, c)
<1>1. b \in Block
  BY DEF CreateLeaf, Block, Hash, Replica, ImplTypeOK, RestTypeOK
<1>2. CASE Leader(r) = r
  <2>1. PhaseMsg("Prepare", view[r], b, highQC[r]) \in M
    BY <1>1, LeaderMsgType DEF LeaderType, ImplTypeOK
  <2>2. net \in NetOf(M)
    BY DEF ImplTypeOK
  <2>3. net' \in NetOf(M)
    BY <1>2, <2>1, <2>2, MulticastTypeOf DEF SendPrepare
  <2>4. OwnVote(r, "PrepareVote", b) \in VoteRecord
    BY <1>1 DEF OwnVote, VoteRecord, VoteType, Block
  <2>5. votes' \in [Replica -> SUBSET VoteRecord]
    BY <1>2, <2>4 DEF SendPrepare, ImplTypeOK
  <2>6. /\ timer' = [timer EXCEPT ![r] = TRUE]
        /\ clock' = [clock EXCEPT ![r] = @ + 1]
        /\ proposed' = proposed \cup {b}
    BY <1>2 DEF SendPrepare
  <2> HIDE DEF b
  <2> QED
    BY <1>1, <2>3, <2>5, <2>6 DEF ImplTypeOK, RestTypeOK, b
<1>3. CASE Leader(r) # r
  BY <1>1, <1>3 DEF SendPrepare, ImplTypeOK, RestTypeOK
<1> QED
  BY <1>2, <1>3

\* HandleReq, and what happens to a message that is not handled at once.
LEMMA OtherStepsImplType ==
    ASSUME NEW M, NEW T, LeaderMsg \subseteq M, ImplTypeOK(M, T), RestTypeOK(M),
           NEW r \in Replica, NEW s \in Replica,
           \/ ReceiveFuture(r, s) \/ ReceiveStale(r, s) \/ HoldCurrent(r, s)
           \/ HandleReq(r) \/ Lose(r, s) \/ UNCHANGED vars
    PROVE  ImplTypeOK(M, T)' /\ RestTypeOK(M)'
<1>1. ASSUME net[s][r] # <<>>
      PROVE  Head(net[s][r]) \in M /\ Taken(r, s) \in NetOf(M)
  BY <1>1, TakenTypeOf DEF ImplTypeOK
<1>2. CASE ReceiveFuture(r, s)
  BY <1>1, <1>2
     DEF ReceiveFuture, CanReceive, Pending, Put, leaderVars, viewVars, chainVars,
         requestVars, ImplTypeOK, RestTypeOK
<1>3. CASE ReceiveStale(r, s)
  BY <1>1, <1>3
     DEF ReceiveStale, CanReceive, Pending, leaderVars, viewVars, chainVars,
         requestVars, ImplTypeOK, RestTypeOK
<1>4. CASE HoldCurrent(r, s)
  BY <1>1, <1>4
     DEF HoldCurrent, CanReceive, leaderVars, viewVars, chainVars, requestVars,
         ImplTypeOK, RestTypeOK
<1>5. CASE HandleReq(r)
  <2>1. PICK c \in Cmd : SendPrepare(r, c)
    BY <1>5 DEF HandleReq
  <2>2. /\ net' \in NetOf(M)
        /\ votes' \in [Replica -> SUBSET VoteRecord]
        /\ timer' \in [Replica -> BOOLEAN]
        /\ clock' \in [Replica -> Nat]
        /\ proposed' \in SUBSET Block
    BY <2>1, SendPrepareImplType
  <2> QED
    BY <1>5, <2>2 DEF HandleReq, chainVars, handVars, ImplTypeOK, RestTypeOK
<1>6. CASE Lose(r, s)
  BY <1>1, <1>6
     DEF Lose, leaderVars, viewVars, chainVars, requestVars, handVars,
         ImplTypeOK, RestTypeOK
<1>7. CASE UNCHANGED vars
  BY <1>7 DEF vars, leaderVars, viewVars, chainVars, requestVars, handVars,
              ImplTypeOK, RestTypeOK
<1> QED
  BY <1>2, <1>3, <1>4, <1>5, <1>6, <1>7
=============================================================================
