---------------------------- MODULE Counting_proofs ----------------------------
(***************************************************************************)
(* No vote is counted twice, with or without the pacemaker, for every      *)
(* number of replicas but six: Combine, which refuses two signatures of    *)
(* one replica, never fails.  A message is in one place only (Alone), a    *)
(* vote is sent once because the message that asks for it is handled once  *)
(* (AskedOnce), and a phase starts once because the votes for it end once  *)
(* (PhasesEnded).                                                          *)
(*                                                                         *)
(* As in Safety_proofs, the invariant is first shown to survive any step   *)
(* with a certain effect, and then the handlers that both kinds of replica *)
(* have to have it.                                                        *)
(***************************************************************************)
EXTENDS Safety_proofs

\* What network n, queue q and hands h hold for d.
Arrives(n, d, q, h) ==
    q \cup h \cup UNION {{n[s][d][i] : i \in DOMAIN n[s][d]} : s \in Replica}

\* No message for d is in two places.
Apart(n, d, q, h) ==
    /\ \A s, t \in Replica : \A i \in DOMAIN n[s][d], j \in DOMAIN n[t][d] :
          n[s][d][i] = n[t][d][j] => s = t /\ i = j
    /\ \A s \in Replica : \A i \in DOMAIN n[s][d] :
          n[s][d][i] \notin q /\ n[s][d][i] \notin h
    /\ \A x \in q : x \notin h

Alone == \A d \in Replica : Apart(net, d, msgQueue[d], hand[d])

\* What a message says beside its type, sender and block follows from these.
Determined ==
    \A d \in Replica : \A x \in InTransit(d) :
        /\ x.type \in VoteType => x.signed = ~IsFaultNode(x.from)
        /\ x.type = "Prepare" => x.qc = x.block.cert

\* s has voted for the block with hash h, and the vote is about.
Cast(type, s, h) ==
    \E d \in Replica :
        \/ [type |-> type, hash |-> h, from |-> s] \in votes[d]
        \/ \E x \in InTransit(d) : x.type = type /\ x.from = s /\ x.block.hash = h

\* What the leader's messages ask for.
Asks == {<<"Prepare", "PrepareVote">>, <<"PreCommit", "PreCommitVote">>,
         <<"Commit", "CommitVote">>}

\* Who is still to be asked for a vote has not cast it.
AskedOnce ==
    \A s \in Replica : \A x \in InTransit(s) : \A type \in VoteType :
        <<x.type, type>> \in Asks => ~Cast(type, s, x.block.hash)

\* The messages that the end of a phase starts.
Follows == {<<"PrepareVote", "PreCommit">>, <<"PrepareVote", "PreCommitVote">>,
            <<"PreCommitVote", "Commit">>, <<"PreCommitVote", "CommitVote">>,
            <<"CommitVote", "Decide">>}

Ended(type, h) == <<type, h>> \in finishedVotes[h[1]]

PhasesEnded ==
    \A d \in Replica : \A type \in VoteType :
        /\ \A x \in InTransit(d) :
              <<type, x.type>> \in Follows => Ended(type, x.block.hash)
        /\ \A y \in votes[d] : <<type, y.type>> \in Follows => Ended(type, y.hash)

\* A vote still under way is not counted already.
VotesCountedOnce ==
    \A r \in Replica : \A m \in InTransit(r) :
        m.type \in VoteType => OwnVote(m.from, m.type, m.block) \notin votes[r]

CountingInv ==
    /\ Alone
    /\ Determined
    /\ AskedOnce
    /\ PhasesEnded
    /\ VotesCountedOnce

-----------------------------------------------------------------------------
(* Networks and queues. *)

LEMMA ArrivesInTransit ==
    ASSUME NEW d \in Replica
    PROVE  InTransit(d) = Arrives(net, d, msgQueue[d], hand[d])
BY DEF InTransit, OnTheWay, Arrives

LEMMA SubQueueApart ==
    ASSUME NEW n, NEW d \in Replica, NEW q, NEW h, Apart(n, d, q, h),
           NEW p, p \subseteq q, NEW g, g \subseteq h
    PROVE  /\ Apart(n, d, p, g)
           /\ Arrives(n, d, p, g) \subseteq Arrives(n, d, q, h)
           /\ \A x \in q : x \notin p => x \notin Arrives(n, d, p, g)
           /\ \A x \in h : x \notin g => x \notin Arrives(n, d, p, g)
BY DEF Apart, Arrives

LEMMA AppendedApart ==
    ASSUME NEW n, IsNet(n), NEW p, NEW d \in Replica, NEW q, NEW h,
           Apart(n, d, q, h), NEW t \in Replica, NEW x,
           x \notin Arrives(n, d, q, h),
           \A s \in Replica : \/ p[s][d] = n[s][d]
                              \/ s = t /\ p[s][d] = Append(n[s][d], x)
    PROVE  /\ Apart(p, d, q, h)
           /\ \A y \in Arrives(p, d, q, h) : y \in Arrives(n, d, q, h) \/ y = x
<1>n. PICK M : n \in NetOf(M)
  BY DEF IsNet
<1>1. ASSUME NEW s \in Replica, NEW i \in DOMAIN p[s][d]
      PROVE  \/ i \in DOMAIN n[s][d] /\ p[s][d][i] = n[s][d][i]
             \/ s = t /\ i = Len(n[t][d]) + 1 /\ p[s][d][i] = x
  <2>1. n[s][d] \in Seq(M)
    BY <1>n DEF NetOf
  <2>2. CASE p[s][d] = n[s][d]
    BY <1>1, <2>2
  <2>3. CASE s = t /\ p[s][d] = Append(n[s][d], x)
    <3>1. i \in 1..Len(n[s][d]) + 1
      BY <1>1, <2>1, <2>3
    <3>2. CASE i = Len(n[s][d]) + 1
      BY <2>1, <2>3, <3>2
    <3>3. CASE i \in 1..Len(n[s][d])
      BY <2>1, <2>3, <3>3
    <3> QED
      BY <2>1, <3>1, <3>2, <3>3
  <2> QED
    BY <2>2, <2>3
<1>2. \A s \in Replica : \A i \in DOMAIN n[s][d] : n[s][d][i] # x
  BY DEF Arrives
<1>3. x \notin q /\ x \notin h
  BY DEF Arrives
<1>4. ASSUME NEW s \in Replica, NEW u \in Replica,
             NEW i \in DOMAIN p[s][d], NEW j \in DOMAIN p[u][d],
             p[s][d][i] = p[u][d][j]
      PROVE  s = u /\ i = j
  BY <1>1, <1>2, <1>4 DEF Apart
<1>5. ASSUME NEW s \in Replica, NEW i \in DOMAIN p[s][d]
      PROVE  p[s][d][i] \notin q /\ p[s][d][i] \notin h
  BY <1>1, <1>3, <1>5 DEF Apart
<1>6. Apart(p, d, q, h)
  BY <1>4, <1>5 DEF Apart
<1> QED
  BY <1>1, <1>6 DEF Arrives

LEMMA UnicastApart ==
    ASSUME NEW n, IsNet(n), NEW r \in Replica, NEW e \in Replica, NEW x,
           NEW d \in Replica, NEW q, NEW h, Apart(n, d, q, h),
           d = e => x \notin Arrives(n, d, q, h)
    PROVE  /\ Apart(Unicast(n, r, e, x), d, q, h)
           /\ \A y \in Arrives(Unicast(n, r, e, x), d, q, h) :
                 y \in Arrives(n, d, q, h) \/ (y = x /\ d = e)
<1> DEFINE p == Unicast(n, r, e, x)
<1>1. PICK M : n \in NetOf(M)
  BY DEF IsNet
<1>2. CASE d = e
  <2>1. \A s \in Replica : \/ p[s][d] = n[s][d]
                           \/ s = r /\ p[s][d] = Append(n[s][d], x)
    BY <1>1 DEF Unicast, NetOf
  <2> HIDE DEF p
  <2>2. /\ Apart(p, d, q, h)
        /\ \A y \in Arrives(p, d, q, h) : y \in Arrives(n, d, q, h) \/ y = x
    BY <1>2, <2>1, AppendedApart
  <2> QED
    BY <1>2, <2>2 DEF p
<1>3. CASE d # e
  <2>1. \A s \in Replica : p[s][d] = n[s][d]
    BY <1>1, <1>3 DEF Unicast, NetOf
  <2> HIDE DEF p
  <2>2. Apart(p, d, q, h) /\ Arrives(p, d, q, h) = Arrives(n, d, q, h)
    BY <2>1 DEF Apart, Arrives
  <2> QED
    BY <2>2 DEF p
<1> QED
  BY <1>2, <1>3

LEMMA MulticastApart ==
    ASSUME NEW n, IsNet(n), NEW r \in Replica, NEW x,
           NEW d \in Replica, NEW q, NEW h, Apart(n, d, q, h),
           x \notin Arrives(n, d, q, h)
    PROVE  /\ Apart(Multicast(n, r, x), d, q, h)
           /\ \A y \in Arrives(Multicast(n, r, x), d, q, h) :
                 y \in Arrives(n, d, q, h) \/ y = x
<1> DEFINE p == Multicast(n, r, x)
<1>1. PICK M : n \in NetOf(M)
  BY DEF IsNet
<1>2. \A s \in Replica : \/ p[s][d] = n[s][d]
                         \/ s = r /\ p[s][d] = Append(n[s][d], x)
  BY <1>1 DEF Multicast, NetOf
<1> HIDE DEF p
<1>3. /\ Apart(p, d, q, h)
      /\ \A y \in Arrives(p, d, q, h) : y \in Arrives(n, d, q, h) \/ y = x
  BY <1>2, AppendedApart
<1> QED
  BY <1>3 DEF p

LEMMA TakenApart ==
    ASSUME IsNet(net), NEW r \in Replica, NEW s \in Replica, net[s][r] # <<>>,
           NEW d \in Replica, NEW q, NEW h, Apart(net, d, q, h)
    PROVE  /\ Apart(Taken(r, s), d, q, h)
           /\ Arrives(Taken(r, s), d, q, h) \subseteq Arrives(net, d, q, h)
           /\ d = r => /\ Head(net[s][r]) \in Arrives(net, d, q, h)
                       /\ Head(net[s][r]) \notin Arrives(Taken(r, s), d, q, h)
<1> DEFINE n == Taken(r, s)
<1>n. PICK M : net \in NetOf(M)
  BY DEF IsNet
<1>1. CASE d # r
  <2>1. \A t \in Replica : n[t][d] = net[t][d]
    BY <1>n, <1>1 DEF Taken, NetOf
  <2> HIDE DEF n
  <2>2. Apart(n, d, q, h) /\ Arrives(n, d, q, h) = Arrives(net, d, q, h)
    BY <2>1 DEF Apart, Arrives
  <2> QED
    BY <1>1, <2>2 DEF n
<1>2. CASE d = r
  <2>1. net[s][r] \in Seq(M)
    BY <1>n DEF NetOf
  <2>2. 1 \in DOMAIN net[s][r] /\ Head(net[s][r]) = net[s][r][1]
    BY <2>1
  <2>3. ASSUME NEW t \in Replica, NEW i \in DOMAIN n[t][r]
        PROVE  \/ t # s /\ i \in DOMAIN net[t][r] /\ n[t][r][i] = net[t][r][i]
               \/ /\ t = s /\ i + 1 \in DOMAIN net[t][r] /\ i \in Nat /\ i # 0
                  /\ n[t][r][i] = net[t][r][i + 1]
    <3>1. CASE t = s
      <4>1. n[t][r] = Tail(net[s][r])
        BY <1>n, <3>1 DEF Taken, NetOf
      <4>2. i \in 1..Len(net[s][r]) - 1 /\ n[t][r][i] = net[s][r][i + 1]
        BY <2>1, <2>3, <4>1
      <4> QED
        BY <2>1, <3>1, <4>2
    <3>2. CASE t # s
      BY <1>n, <2>3, <3>2 DEF Taken, NetOf
    <3> QED
      BY <3>1, <3>2
  <2> HIDE DEF n
  <2>4. ASSUME NEW t \in Replica, NEW u \in Replica,
               NEW i \in DOMAIN n[t][r], NEW j \in DOMAIN n[u][r],
               n[t][r][i] = n[u][r][j]
        PROVE  t = u /\ i = j
    <3>1. CASE t = s /\ u = s
      <4>1. i + 1 = j + 1
        BY <1>2, <2>3, <2>4, <3>1 DEF Apart
      <4> QED
        BY <2>3, <3>1, <4>1
    <3>2. CASE t = s /\ u # s
      BY <1>2, <2>3, <2>4, <3>2 DEF Apart
    <3>3. CASE t # s /\ u = s
      BY <1>2, <2>3, <2>4, <3>3 DEF Apart
    <3>4. CASE t # s /\ u # s
      BY <1>2, <2>3, <2>4, <3>4 DEF Apart
    <3> QED
      BY <3>1, <3>2, <3>3, <3>4
  <2>5. ASSUME NEW t \in Replica, NEW i \in DOMAIN n[t][r]
        PROVE  /\ n[t][r][i] \notin q /\ n[t][r][i] \notin h
               /\ n[t][r][i] # net[s][r][1]
    <3>1. CASE t # s
      BY <1>2, <2>2, <2>3, <3>1 DEF Apart
    <3>2. CASE t = s
      BY <1>2, <2>2, <2>3, <3>2 DEF Apart
    <3> QED
      BY <3>1, <3>2
  <2>6. Apart(n, d, q, h)
    BY <1>2, <2>4, <2>5 DEF Apart
  <2>7. Arrives(n, d, q, h) \subseteq Arrives(net, d, q, h)
    BY <1>2, <2>3 DEF Arrives
  <2>8. Head(net[s][r]) \in Arrives(net, d, q, h)
    BY <1>2, <2>2 DEF Arrives
  <2>9. Head(net[s][r]) \notin Arrives(n, d, q, h)
    BY <1>2, <2>2, <2>5 DEF Apart, Arrives
  <2> QED
    BY <2>6, <2>7, <2>8, <2>9 DEF n
<1> QED
  BY <1>1, <1>2

-----------------------------------------------------------------------------
(* What a step may do: it sends the messages new and records the votes recs. *)

\* Links, queues and what a leader keeps are there for every replica.
Shaped ==
    /\ IsNet(net)
    /\ DOMAIN msgQueue = Replica
    /\ DOMAIN hand = Replica
    /\ DOMAIN finishedVotes = Replica

\* What is under way about blocks: votes go to the leader of their view, the
\* rest comes from there.
BlocksAsked ==
    \A d \in Replica : \A x \in InTransit(d) :
        x.type \in VoteType \cup LeaderType =>
            /\ x \in VoteMsg \cup LeaderMsg
            /\ x.block \in proposed
            /\ x.block.view = x.view
            /\ x.type \in VoteType <=> GetLeaderByView(x.view) = d

CountingBefore ==
    /\ Shaped
    /\ SafeState
    /\ BlocksAsked
    /\ CountingInv
    /\ BlocksAsked'

LEMMA TypesApart ==
    /\ "NewView" \notin VoteType \cup LeaderType
    /\ \A type \in VoteType : type \notin LeaderType /\ type # "Prepare"
    /\ \A p \in Asks : p[1] \in LeaderType /\ p[2] \in VoteType
    /\ \A p \in Follows : p[1] \in VoteType /\ p[2] \in VoteType \cup LeaderType
BY DEF VoteType, LeaderType, Asks, Follows

LEMMA HashOwner ==
    ASSUME SafeState, NEW b \in proposed
    PROVE  b.hash[1] = b.proposer /\ b.hash[1] \in Replica
BY LeaderIsReplica
   DEF SafeState, SafetyInv, ProposedByLeader, HashesKnown, SafetyTypeOK, Block

LEMMA AboutProposed ==
    ASSUME SafeState, BlocksAsked, NEW d \in Replica
    PROVE  /\ \A x \in InTransit(d) :
                 x.type \in VoteType \cup LeaderType =>
                     x.block \in proposed /\ x.block.hash[1] \in Replica
           /\ \A y \in votes[d] :
                 y.hash[1] \in Replica /\ \E b \in proposed : b.hash = y.hash
<1>1. \A y \in votes[d] : \E b \in proposed : b.hash = y.hash
  BY DEF SafeState, SafetyInv, HashesKnown
<1> QED
  BY <1>1, HashOwner DEF BlocksAsked

CountingEffect(new, recs) ==
    /\ Alone'
    /\ \A d \in Replica :
        /\ \A x \in InTransit(d)' : x \in InTransit(d) \/ x \in new
        /\ \A y \in votes'[d] : y \in votes[d] \/ y \in recs
        /\ finishedVotes[d] \subseteq finishedVotes'[d]
    /\ \A x \in new :
        /\ x.type \in VoteType => x.signed = ~IsFaultNode(x.from)
        /\ x.type = "Prepare" => x.qc = x.block.cert
    /\ \A type \in VoteType :
        /\ \A x \in new : <<type, x.type>> \in Follows => Ended(type, x.block.hash)'
        /\ \A y \in recs : <<type, y.type>> \in Follows => Ended(type, y.hash)'

\* Votes are sent once, asked for once and not counted before.
SentOnce(new, recs) ==
    /\ \A d \in Replica : \A x \in InTransit(d)' :
        x.type \in VoteType =>
            /\ OwnVote(x.from, x.type, x.block) \notin recs
            /\ x \in new => OwnVote(x.from, x.type, x.block) \notin votes[d]
    /\ \A s \in Replica : \A x \in InTransit(s)' : \A type \in VoteType :
        <<x.type, type>> \in Asks =>
            /\ x \in new => ~Cast(type, s, x.block.hash)
            /\ [type |-> type, hash |-> x.block.hash, from |-> s] \notin recs
            /\ ~\E y \in new : y.type = type /\ y.from = s /\ y.block.hash = x.block.hash

LEMMA EffectKeepsCounting ==
    ASSUME CountingBefore, NEW new, NEW recs, CountingEffect(new, recs),
           SentOnce(new, recs)
    PROVE  CountingInv'
<1>1. Determined'
  BY DEF Determined, CountingEffect, CountingBefore, CountingInv
<1>2. AskedOnce'
  <2> SUFFICES ASSUME NEW s \in Replica, NEW x \in InTransit(s)',
                      NEW type \in VoteType, <<x.type, type>> \in Asks,
                      Cast(type, s, x.block.hash)'
               PROVE  FALSE
    BY DEF AskedOnce
  <2>1. PICK d \in Replica :
          \/ [type |-> type, hash |-> x.block.hash, from |-> s] \in votes'[d]
          \/ \E y \in InTransit(d)' :
                y.type = type /\ y.from = s /\ y.block.hash = x.block.hash
    BY DEF Cast
  <2>2. Cast(type, s, x.block.hash)
    BY <2>1 DEF Cast, CountingEffect, SentOnce
  <2>3. x \in InTransit(s)
    BY <2>2 DEF CountingEffect, SentOnce
  <2> QED
    BY <2>2, <2>3 DEF CountingBefore, CountingInv, AskedOnce
<1>3. PhasesEnded'
  <2>1. ASSUME NEW d \in Replica, NEW type \in VoteType, NEW x \in InTransit(d)',
               <<type, x.type>> \in Follows
        PROVE  Ended(type, x.block.hash)'
    <3>1. CASE x \in InTransit(d)
      <4>1. Ended(type, x.block.hash)
        BY <2>1, <3>1 DEF CountingBefore, CountingInv, PhasesEnded
      <4>2. x.type \in VoteType \cup LeaderType
        BY <2>1, TypesApart
      <4>3. x.block.hash[1] \in Replica
        BY <3>1, <4>2, AboutProposed DEF CountingBefore
      <4> QED
        BY <4>1, <4>3 DEF Ended, CountingEffect
    <3>2. CASE x \in new
      BY <2>1, <3>2 DEF CountingEffect
    <3> QED
      BY <3>1, <3>2 DEF CountingEffect
  <2>2. ASSUME NEW d \in Replica, NEW type \in VoteType, NEW y \in votes'[d],
               <<type, y.type>> \in Follows
        PROVE  Ended(type, y.hash)'
    <3>1. CASE y \in votes[d]
      <4>1. Ended(type, y.hash)
        BY <2>2, <3>1 DEF CountingBefore, CountingInv, PhasesEnded
      <4>2. y.hash[1] \in Replica
        BY <3>1, AboutProposed DEF CountingBefore
      <4> QED
        BY <4>1, <4>2 DEF Ended, CountingEffect
    <3>2. CASE y \in recs
      BY <2>2, <3>2 DEF CountingEffect
    <3> QED
      BY <3>1, <3>2 DEF CountingEffect
  <2> QED
    BY <2>1, <2>2 DEF PhasesEnded
<1>4. VotesCountedOnce'
  <2> SUFFICES ASSUME NEW d \in Replica, NEW x \in InTransit(d)', x.type \in VoteType,
                      OwnVote(x.from, x.type, x.block) \in votes'[d]
               PROVE  FALSE
    BY DEF VotesCountedOnce, OwnVote
  <2>1. OwnVote(x.from, x.type, x.block) \in votes[d]
    BY DEF CountingEffect, SentOnce
  <2>2. x \in InTransit(d)
    BY <2>1 DEF CountingEffect, SentOnce
  <2> QED
    BY <2>1, <2>2 DEF CountingBefore, CountingInv, VotesCountedOnce
<1> QED
  BY <1>1, <1>2, <1>3, <1>4 DEF CountingInv, CountingEffect

\* A step that votes for no block keeps the invariant, whatever else it sends.
\* The leader that decides a block says so.
Voteless(new) ==
    /\ Alone'
    /\ \A d \in Replica :
        /\ \A x \in InTransit(d)' : x \in InTransit(d) \/ x \in new
        /\ \A y \in votes'[d] : y \in votes[d]
        /\ finishedVotes[d] \subseteq finishedVotes'[d]
    /\ \A x \in new : x.type \in VoteType \cup LeaderType =>
                          x.type = "Decide" /\ Ended("CommitVote", x.block.hash)'

LEMMA VotelessKeepsCounting ==
    ASSUME CountingBefore, NEW new, Voteless(new)
    PROVE  CountingInv'
<1>1. ASSUME NEW x \in new
      PROVE  /\ x.type \notin VoteType
             /\ x.type # "Prepare"
             /\ \A t \in VoteType : <<x.type, t>> \notin Asks
             /\ \A t \in VoteType : <<t, x.type>> \in Follows => Ended(t, x.block.hash)'
  <2>1. CASE x.type = "Decide" /\ Ended("CommitVote", x.block.hash)'
    BY <2>1 DEF VoteType, Asks, Follows
  <2>2. CASE x.type \notin VoteType \cup LeaderType
    BY <2>2 DEF VoteType, LeaderType, Asks, Follows
  <2> QED
    BY <2>1, <2>2 DEF Voteless
<1>2. CountingEffect(new, {})
  BY <1>1 DEF CountingEffect, Voteless
<1>3. SentOnce(new, {})
  BY <1>1 DEF SentOnce
<1> QED
  BY <1>2, <1>3, EffectKeepsCounting

-----------------------------------------------------------------------------
(* A message m for r is taken out; n and q are what is left of network and   *)
(* queue, and hand' of the hands.                                            *)

QueueOf(r, q, d) == IF d = r THEN q ELSE msgQueue[d]

Delivers(r, m, n, q) ==
    /\ m \in InTransit(r)
    /\ IsNet(n)
    /\ \A d \in Replica :
        /\ Apart(n, d, QueueOf(r, q, d), hand'[d])
        /\ Arrives(n, d, QueueOf(r, q, d), hand'[d]) \subseteq InTransit(d)
    /\ m \notin Arrives(n, r, q, hand'[r])
    /\ UNCHANGED proposed

\* m is handled, and new messages are on their way.
Moved(r, m, new) ==
    /\ Alone'
    /\ \A d \in Replica : \A x \in InTransit(d)' :
        x \in new \/ (x \in InTransit(d) /\ (d = r => x # m))

LEMMA ArrivesAfter ==
    ASSUME NEW d \in Replica
    PROVE  InTransit(d)' = Arrives(net', d, msgQueue'[d], hand'[d])
BY DEF InTransit, OnTheWay, Arrives

LEMMA QueueAfter ==
    ASSUME Shaped, NEW r \in Replica, NEW q,
           msgQueue' = [msgQueue EXCEPT ![r] = q]
    PROVE  \A d \in Replica : msgQueue'[d] = QueueOf(r, q, d)
BY DEF Shaped, QueueOf

LEMMA RestMoves ==
    ASSUME Shaped, NEW r \in Replica, NEW m, NEW n, NEW q, Delivers(r, m, n, q),
           net' = n, msgQueue' = [msgQueue EXCEPT ![r] = q]
    PROVE  Moved(r, m, {})
<1>1. \A d \in Replica : msgQueue'[d] = QueueOf(r, q, d)
  BY QueueAfter
<1>2. Alone'
  BY <1>1 DEF Delivers, Alone, Apart
<1>3. ASSUME NEW d \in Replica, NEW x \in InTransit(d)'
      PROVE  x \in InTransit(d) /\ (d = r => x # m)
  BY <1>1, <1>3, ArrivesAfter DEF Delivers, QueueOf
<1> QED
  BY <1>2, <1>3 DEF Moved

LEMMA UnicastMoves ==
    ASSUME Shaped, NEW r \in Replica, NEW m, NEW n, NEW q, Delivers(r, m, n, q),
           NEW e \in Replica, NEW x, x \notin InTransit(e),
           net' = Unicast(n, r, e, x), msgQueue' = [msgQueue EXCEPT ![r] = q]
    PROVE  Moved(r, m, {x})
<1>1. \A d \in Replica : msgQueue'[d] = QueueOf(r, q, d)
  BY QueueAfter
<1>2. ASSUME NEW d \in Replica
      PROVE  /\ Apart(net', d, msgQueue'[d], hand'[d])
             /\ \A y \in InTransit(d)' :
                   y = x \/ y \in Arrives(n, d, QueueOf(r, q, d), hand'[d])
  BY <1>1, UnicastApart, ArrivesAfter DEF Delivers
<1>3. Alone'
  BY <1>2 DEF Alone, Apart
<1> QED
  BY <1>2, <1>3 DEF Moved, Delivers, QueueOf

LEMMA MulticastMoves ==
    ASSUME Shaped, NEW r \in Replica, NEW m, NEW n, NEW q, Delivers(r, m, n, q),
           NEW x, \A d \in Replica : x \notin InTransit(d),
           net' = Multicast(n, r, x), msgQueue' = [msgQueue EXCEPT ![r] = q]
    PROVE  Moved(r, m, {x})
<1>1. \A d \in Replica : msgQueue'[d] = QueueOf(r, q, d)
  BY QueueAfter
<1>2. ASSUME NEW d \in Replica
      PROVE  /\ Apart(net', d, msgQueue'[d], hand'[d])
             /\ \A y \in InTransit(d)' :
                   y = x \/ y \in Arrives(n, d, QueueOf(r, q, d), hand'[d])
  BY <1>1, MulticastApart, ArrivesAfter DEF Delivers
<1>3. Alone'
  BY <1>2 DEF Alone, Apart
<1> QED
  BY <1>2, <1>3 DEF Moved, Delivers, QueueOf

\* A message about a block is known by its type, its block and, if it is a vote,
\* its sender.
LEMMA SameMessage ==
    ASSUME CountingBefore, NEW d \in Replica, NEW e \in Replica,
           NEW x \in InTransit(d), NEW y \in InTransit(e),
           x.type = y.type, x.type \in VoteType \cup LeaderType,
           x.type \in VoteType => x.from = y.from,
           x.block.hash = y.block.hash
    PROVE  x = y /\ (x.type \in VoteType => d = e)
<1>1. /\ x \in VoteMsg \cup LeaderMsg /\ y \in VoteMsg \cup LeaderMsg
      /\ x.block \in proposed /\ y.block \in proposed
      /\ x.block.view = x.view /\ y.block.view = y.view
      /\ x.type \in VoteType <=> GetLeaderByView(x.view) = d
      /\ y.type \in VoteType <=> GetLeaderByView(y.view) = e
  BY DEF CountingBefore, BlocksAsked
<1>2. x.block = y.block
  BY <1>1 DEF CountingBefore, SafeState, SafetyInv, HashesKnown
<1>3. x.view = y.view
  BY <1>1, <1>2
<1>4. CASE x.type \in VoteType
  <2>1. x \in VoteMsg /\ y \in VoteMsg
    BY <1>1, <1>4 DEF VoteMsg, LeaderMsg, VoteType, LeaderType
  <2>2. x.signed = y.signed
    BY <1>4 DEF CountingBefore, CountingInv, Determined
  <2> QED
    BY <1>1, <1>2, <1>3, <1>4, <2>1, <2>2 DEF VoteMsg
<1>5. CASE x.type \in LeaderType
  <2>1. x \in LeaderMsg /\ y \in LeaderMsg
    BY <1>1, <1>5 DEF VoteMsg, LeaderMsg, VoteType, LeaderType
  <2>2. x.qc = y.qc
    <3>1. CASE x.type = "Prepare"
      BY <1>2, <3>1 DEF CountingBefore, CountingInv, Determined
    <3>2. CASE x.type # "Prepare"
      BY <1>2, <1>5, <3>2
         DEF CountingBefore, SafeState, SafetyInv, LeaderMsgsKnown, Transit, LeaderType
    <3> QED
      BY <3>1, <3>2
  <2> QED
    BY <1>2, <1>3, <1>5, <2>1, <2>2 DEF LeaderMsg, VoteType, LeaderType
<1> QED
  BY <1>4, <1>5

-----------------------------------------------------------------------------
(* The handlers that stay in the view. *)

\* The counting goes on, and what is new is about blocks.
Counts ==
    /\ CountingInv'
    /\ \A d \in Replica : \A x \in InTransit(d)' :
          x \in InTransit(d) \/ x.type \in VoteType \cup LeaderType

LEMMA RestCounts ==
    ASSUME CountingBefore, NEW r \in Replica, NEW m, NEW n, NEW q,
           Delivers(r, m, n, q), net' = n, msgQueue' = [msgQueue EXCEPT ![r] = q],
           UNCHANGED <<votes, finishedVotes>>
    PROVE  Counts
<1>1. Moved(r, m, {})
  BY RestMoves DEF CountingBefore
<1>2. Voteless({})
  BY <1>1 DEF Voteless, Moved
<1> QED
  BY <1>1, <1>2, VotelessKeepsCounting DEF Counts, Moved

LEMMA VoteCounts ==
    ASSUME CountingBefore, NEW r \in Replica, NEW m, NEW n, NEW q,
           Delivers(r, m, n, q), NEW type \in VoteType, <<m.type, type>> \in Asks,
           Vote(r, type, m.block, n, q)
    PROVE  Counts
<1> DEFINE x == VoteFrom(r, type, m.block)
           h == m.block.hash
<1>1. m \in InTransit(r) /\ m.type \in LeaderType
  BY TypesApart DEF Delivers
<1>2. /\ x.type = type /\ x.from = r /\ x.block = m.block
      /\ x.signed = ~IsFaultNode(r)
  BY DEF VoteFrom
<1> HIDE DEF x
<1>3. ~Cast(type, r, h)
  BY <1>1 DEF CountingBefore, CountingInv, AskedOnce
<1>4. \A d \in Replica : x \notin InTransit(d)
  BY <1>2, <1>3 DEF Cast
<1>5. Leader(r) \in Replica
  BY LeaderIsReplica DEF Leader, CountingBefore, SafeState, SafetyTypeOK
<1>6. /\ net' = Unicast(n, r, Leader(r), x)
      /\ msgQueue' = [msgQueue EXCEPT ![r] = q]
      /\ UNCHANGED <<votes, finishedVotes>>
  BY DEF Vote, leaderVars, x
<1>7. Moved(r, m, {x})
  BY <1>4, <1>5, <1>6, UnicastMoves DEF CountingBefore
<1>8. CountingEffect({x}, {})
  <2>1. ASSUME NEW t \in VoteType, <<t, type>> \in Follows PROVE Ended(t, h)'
    <3>1. <<t, m.type>> \in Follows
      BY <2>1 DEF Follows, Asks
    <3> QED
      BY <1>1, <1>6, <3>1 DEF CountingBefore, CountingInv, PhasesEnded, Ended
  <2> QED
    BY <1>2, <1>6, <1>7, <2>1, TypesApart DEF CountingEffect, Moved
<1>9. ASSUME NEW d \in Replica, NEW y \in InTransit(d)', y.type \in VoteType, y = x
      PROVE  OwnVote(y.from, y.type, y.block) \notin votes[d]
  BY <1>2, <1>3, <1>9 DEF Cast, OwnVote
<1>10. ASSUME NEW s \in Replica, NEW y \in InTransit(s)', NEW t \in VoteType,
              <<y.type, t>> \in Asks
       PROVE  /\ y # x
              /\ ~(x.type = t /\ x.from = s /\ x.block.hash = y.block.hash)
  <2>1. y # x /\ y.type \in LeaderType
    BY <1>2, <1>10, TypesApart
  <2>2. ASSUME t = type, s = r, y.block.hash = h PROVE FALSE
    <3>1. y \in InTransit(r) /\ y # m
      BY <1>7, <2>1, <2>2 DEF Moved
    <3>2. y.type = m.type /\ y.type \notin VoteType
      BY <1>10, <2>1, <2>2, TypesApart DEF Asks
    <3> QED
      BY <1>1, <2>2, <3>1, <3>2, SameMessage
  <2> QED
    BY <1>2, <2>1, <2>2
<1>11. SentOnce({x}, {})
  BY <1>9, <1>10 DEF SentOnce
<1>12. CountingInv'
  BY <1>8, <1>11, EffectKeepsCounting
<1> QED
  BY <1>2, <1>7, <1>12 DEF Counts, Moved

LEMMA StoreVoteCounts ==
    ASSUME CountingBefore, NEW r \in Replica, NEW m, NEW n, NEW q,
           Delivers(r, m, n, q), m.type \in VoteType, StoreVote(r, m, n, q)
    PROVE  Counts
<1> DEFINE rec == OwnVote(m.from, m.type, m.block)
<1>1. m \in InTransit(r)
  BY DEF Delivers
<1>2. /\ votes' = [votes EXCEPT ![r] = @ \cup {rec}]
      /\ net' = n /\ msgQueue' = [msgQueue EXCEPT ![r] = q]
      /\ UNCHANGED finishedVotes
  BY DEF StoreVote, Counted
<1>3. rec.type = m.type /\ rec.from = m.from /\ rec.hash = m.block.hash
  BY DEF OwnVote
<1>4. Moved(r, m, {})
  BY <1>2, RestMoves DEF CountingBefore
<1>5. CountingEffect({}, {rec})
  <2>1. \A d \in Replica : \A y \in votes'[d] : y \in votes[d] \/ y = rec
    BY <1>2 DEF CountingBefore, SafeState, SafetyTypeOK
  <2>2. \A t \in VoteType : <<t, rec.type>> \in Follows => Ended(t, rec.hash)'
    BY <1>1, <1>2, <1>3 DEF CountingBefore, CountingInv, PhasesEnded, Ended
  <2> HIDE DEF rec
  <2> QED
    BY <1>2, <1>4, <2>1, <2>2 DEF CountingEffect, Moved
<1>6. ASSUME NEW d \in Replica, NEW y \in InTransit(d)', y.type \in VoteType,
             OwnVote(y.from, y.type, y.block) = rec
      PROVE  FALSE
  <2>1. y.from = m.from /\ y.type = m.type /\ y.block.hash = m.block.hash
    BY <1>6 DEF OwnVote
  <2>2. y \in InTransit(d) /\ (d = r => y # m)
    BY <1>4 DEF Moved
  <2> QED
    BY <1>1, <1>6, <2>1, <2>2, SameMessage
<1>7. ASSUME NEW s \in Replica, NEW y \in InTransit(s)', NEW t \in VoteType,
             <<y.type, t>> \in Asks,
             [type |-> t, hash |-> y.block.hash, from |-> s] = rec
      PROVE  FALSE
  <2>1. t = m.type /\ s = m.from /\ y.block.hash = m.block.hash
    BY <1>7 DEF OwnVote
  <2>2. Cast(t, s, y.block.hash)
    BY <1>1, <2>1 DEF Cast
  <2>3. y \in InTransit(s)
    BY <1>4 DEF Moved
  <2> QED
    BY <1>7, <2>2, <2>3 DEF CountingBefore, CountingInv, AskedOnce
<1>8. SentOnce({}, {rec})
  BY <1>6, <1>7 DEF SentOnce
<1>9. CountingInv'
  BY <1>5, <1>8, EffectKeepsCounting
<1> QED
  BY <1>4, <1>9 DEF Counts, Moved

\* The end of a phase has not been there before, so nothing follows it yet.
LEMMA NothingFollows ==
    ASSUME CountingBefore, NEW r \in Replica, NEW m \in InTransit(r),
           m.type \in VoteType, IsFresh(r, m)
    PROVE  LET h == m.block.hash
           IN  /\ m.block \in proposed /\ m.block \in Block /\ h[1] = r
               /\ m.view = view[r] /\ Leader(r) = r
               /\ ~Ended(m.type, h)
               /\ \A d \in Replica : \A x \in InTransit(d) :
                     <<m.type, x.type>> \in Follows => x.block.hash # h
               /\ \A t \in VoteType : <<m.type, t>> \in Follows =>
                     \A s \in Replica : ~Cast(t, s, h)
<1>1. /\ m.block \in proposed /\ m.view = view[r] /\ GetLeaderByView(m.view) = r
      /\ m.block.view = m.view
  BY DEF CountingBefore, BlocksAsked, IsFresh, MatchingMsg
<1>2. m.block.hash[1] = r /\ m.block \in Block
  BY <1>1, HashOwner DEF CountingBefore, SafeState, ProposedByLeader, SafetyTypeOK
<1>3. ~Ended(m.type, m.block.hash)
  BY <1>2 DEF IsFresh, Ended
<1>4. ASSUME NEW d \in Replica, NEW x \in InTransit(d), <<m.type, x.type>> \in Follows
      PROVE  x.block.hash # m.block.hash
  BY <1>3, <1>4 DEF CountingBefore, CountingInv, PhasesEnded
<1>5. ASSUME NEW t \in VoteType, <<m.type, t>> \in Follows, NEW s \in Replica,
             Cast(t, s, m.block.hash)
      PROVE  FALSE
  <2>1. PICK d \in Replica :
          [type |-> t, hash |-> m.block.hash, from |-> s] \in votes[d]
    BY <1>4, <1>5 DEF Cast
  <2>2. Ended(m.type, m.block.hash)
    BY <1>5, <2>1 DEF CountingBefore, CountingInv, PhasesEnded
  <2> QED
    BY <1>3, <2>2
<1> QED
  BY <1>1, <1>2, <1>3, <1>4, <1>5 DEF Leader

LEMMA LeftVotesOld ==
    ASSUME NEW r \in Replica, NEW m
    PROVE  LeftVotes(r, m) \subseteq votes[r]
BY DEF LeftVotes, Counted, VotesLike, OwnVote

LEMMA StartPhaseCounts ==
    ASSUME CountingBefore, NEW r \in Replica, NEW m, NEW n, NEW q,
           Delivers(r, m, n, q), m.type \in VoteType, IsFresh(r, m),
           NEW type \in LeaderType, NEW voteType \in VoteType,
           <<m.type, type>> \in Follows, <<m.type, voteType>> \in Follows,
           <<type, voteType>> \in Asks,
           StartPhase(r, m, type, voteType, n, q)
    PROVE  Counts
<1> DEFINE b == m.block
           h == b.hash
           x == PhaseMsg(type, view[r], b, CreateQuorumCert(b))
           rec == OwnVote(r, voteType, b)
<1>1. m \in InTransit(r)
  BY DEF Delivers
<1>2. /\ h[1] = r /\ m.view = view[r] /\ Leader(r) = r
      /\ \A d \in Replica : \A y \in InTransit(d) :
            <<m.type, y.type>> \in Follows => y.block.hash # h
      /\ \A s \in Replica : ~Cast(voteType, s, h)
  BY <1>1, NothingFollows
<1>3. x.type = type /\ x.view = view[r] /\ x.block = b
  BY DEF PhaseMsg
<1>4. rec = [type |-> voteType, hash |-> h, from |-> r]
  BY DEF OwnVote
<1>5. type \notin VoteType /\ type # "Prepare"
  BY DEF VoteType, LeaderType, Follows
<1>6. \A d \in Replica : x \notin InTransit(d)
  BY <1>2, <1>3
<1>7. /\ net' = Multicast(n, r, x)
      /\ msgQueue' = [msgQueue EXCEPT ![r] = q]
      /\ votes' = [votes EXCEPT ![r] = LeftVotes(r, m) \cup {rec}]
      /\ finishedVotes' = [finishedVotes EXCEPT ![r] = @ \cup {<<m.type, h>>}]
  BY DEF StartPhase, FinishVotes
<1> HIDE DEF x, rec
<1>8. Moved(r, m, {x})
  BY <1>6, <1>7, MulticastMoves DEF CountingBefore
<1>9. CountingEffect({x}, {rec})
  <2>1. \A d \in Replica : \A y \in votes'[d] : y \in votes[d] \/ y = rec
    BY <1>7, LeftVotesOld DEF CountingBefore, SafeState, SafetyTypeOK
  <2>2. \A d \in Replica : finishedVotes[d] \subseteq finishedVotes'[d]
    BY <1>7 DEF CountingBefore, Shaped
  <2>3. Ended(m.type, h)'
    BY <1>2, <1>7 DEF Ended, CountingBefore, Shaped
  <2>4. \A t \in VoteType :
          <<t, type>> \in Follows \/ <<t, voteType>> \in Follows => t = m.type
    BY DEF Follows
  <2> QED
    BY <1>3, <1>4, <1>5, <1>8, <2>1, <2>2, <2>3, <2>4 DEF CountingEffect, Moved
<1>10. ASSUME NEW d \in Replica, NEW y \in InTransit(d)'
       PROVE  y = x \/ y \in InTransit(d)
  BY <1>8, <1>10 DEF Moved
<1>11. ASSUME NEW d \in Replica, NEW y \in InTransit(d)', y.type \in VoteType
       PROVE  y # x /\ OwnVote(y.from, y.type, y.block) # rec
  <2>1. y # x /\ y \in InTransit(d)
    BY <1>3, <1>5, <1>10, <1>11
  <2>2. ASSUME OwnVote(y.from, y.type, y.block) = rec PROVE FALSE
    <3>1. y.type = voteType /\ y.from = r /\ y.block.hash = h
      BY <1>4, <2>2 DEF OwnVote
    <3> QED
      BY <1>2, <2>1, <3>1 DEF Cast
  <2> QED
    BY <2>1, <2>2
<1>12. ASSUME NEW s \in Replica, NEW y \in InTransit(s)', NEW t \in VoteType,
              <<y.type, t>> \in Asks
       PROVE  /\ y = x => ~Cast(t, s, y.block.hash)
              /\ [type |-> t, hash |-> y.block.hash, from |-> s] # rec
              /\ x.type # t
  <2>1. y = x => ~Cast(t, s, y.block.hash)
    <3>1. type = y.type => t = voteType
      BY <1>12 DEF Asks
    <3> QED
      BY <1>2, <1>3, <3>1
  <2>2. ASSUME [type |-> t, hash |-> y.block.hash, from |-> s] = rec PROVE FALSE
    <3>1. t = voteType /\ s = r /\ y.block.hash = h
      BY <1>4, <2>2
    <3>2. y.type = type
      BY <1>12, <3>1 DEF Asks
    <3>3. y = x
      BY <1>2, <1>10, <3>1, <3>2
    <3>4. x.type \in VoteType <=> GetLeaderByView(x.view) = r
      BY <1>3, <1>12, <3>1, <3>3 DEF CountingBefore, BlocksAsked
    <3> QED
      BY <1>2, <1>3, <1>5, <3>4 DEF Leader
  <2> QED
    BY <1>3, <1>5, <2>1, <2>2
<1>13. SentOnce({x}, {rec})
  BY <1>11, <1>12 DEF SentOnce
<1>14. CountingInv'
  BY <1>9, <1>13, EffectKeepsCounting
<1> QED
  BY <1>3, <1>10, <1>14 DEF Counts

\* The handlers of the three phases.
LEMMA PhaseCounts ==
    ASSUME CountingBefore, NEW r \in Replica, NEW m, NEW n, NEW q,
           Delivers(r, m, n, q),
           \/ m.type = "Prepare" /\ OnReceivePrepare(r, m, n, q)
           \/ m.type = "PrepareVote" /\ OnReceivePrepareVote(r, m, n, q)
           \/ m.type = "PreCommit" /\ OnReceivePreCommit(r, m, n, q)
           \/ m.type = "PreCommitVote" /\ OnReceivePreCommitVote(r, m, n, q)
           \/ m.type = "Commit" /\ OnReceiveCommit(r, m, n, q)
    PROVE  Counts
<1>1. CASE Ignore(r, n, q) \/ Panic(r, n, q)
  BY <1>1, RestCounts DEF Ignore, Panic, leaderVars
<1>2. CASE m.type \in VoteType /\ StoreVote(r, m, n, q)
  BY <1>2, StoreVoteCounts
<1>3. CASE m.type = "Prepare" /\ OnReceivePrepare(r, m, n, q)
  BY <1>1, <1>3, VoteCounts DEF OnReceivePrepare, VoteType, Asks
<1>4. CASE m.type = "PreCommit" /\ OnReceivePreCommit(r, m, n, q)
  BY <1>1, <1>4, VoteCounts DEF OnReceivePreCommit, VoteType, Asks
<1>5. CASE m.type = "Commit" /\ OnReceiveCommit(r, m, n, q)
  BY <1>1, <1>5, VoteCounts DEF OnReceiveCommit, VoteType, Asks
<1>6. CASE m.type = "PrepareVote" /\ OnReceivePrepareVote(r, m, n, q)
  <2>1. CASE IsFresh(r, m) /\ StartPhase(r, m, "PreCommit", "PreCommitVote", n, q)
    BY <1>6, <2>1, StartPhaseCounts DEF VoteType, LeaderType, Follows, Asks
  <2> QED
    BY <1>1, <1>2, <1>6, <2>1 DEF OnReceivePrepareVote, VoteType
<1>7. CASE m.type = "PreCommitVote" /\ OnReceivePreCommitVote(r, m, n, q)
  <2>1. CASE IsFresh(r, m) /\ StartPhase(r, m, "Commit", "CommitVote", n, q)
    BY <1>7, <2>1, StartPhaseCounts DEF VoteType, LeaderType, Follows, Asks
  <2> QED
    BY <1>1, <1>2, <1>7, <2>1 DEF OnReceivePreCommitVote, VoteType
<1> QED
  BY <1>3, <1>4, <1>5, <1>6, <1>7

LEMMA ProposeCounts ==
    ASSUME CountingBefore, NEW r \in Replica, HandleReq(r)
    PROVE  Counts
<1>1. PICK c \in Cmd : SendPrepare(r, c)
  BY DEF HandleReq
<1> DEFINE b == CreateLeaf(r, c)
           x == PhaseMsg("Prepare", view[r], b, highQC[r])
           rec == OwnVote(r, "PrepareVote", b)
<1>2. Leader(r) = r
  BY DEF HandleReq, CountingBefore, SafeState, TokenDiscipline
<1>3. /\ net' = Multicast(net, r, x)
      /\ votes' = [votes EXCEPT ![r] = @ \cup {rec}]
      /\ UNCHANGED <<finishedVotes, msgQueue, hand>>
  BY <1>1, <1>2 DEF SendPrepare, HandleReq, chainVars, handVars
<1>4. b.hash = <<r, clock[r]>> /\ b.cert = highQC[r]
  BY DEF CreateLeaf
<1>5. /\ x.type = "Prepare" /\ x.block = b /\ x.qc = b.cert
      /\ x.view = view[r]
  BY <1>4 DEF PhaseMsg
<1>6. rec = [type |-> "PrepareVote", hash |-> b.hash, from |-> r]
  BY DEF OwnVote
<1> HIDE DEF b, x, rec
<1>7. \A a \in proposed : a.hash # b.hash
  <2>1. ASSUME NEW a \in proposed, a.hash = b.hash PROVE FALSE
    <3>1. a.proposer = a.hash[1] /\ a.hash[2] < clock[a.proposer]
      BY DEF CountingBefore, SafeState, SafetyInv, HashesKnown
    <3>2. a.hash[1] = r /\ a.hash[2] = clock[r] /\ clock[r] \in Nat
      BY <1>4, <2>1 DEF CountingBefore, SafeState, SafetyTypeOK
    <3> QED
      BY <3>1, <3>2
  <2> QED
    BY <2>1
<1>8. ASSUME NEW d \in Replica
      PROVE  /\ \A y \in InTransit(d) :
                   y.type \in VoteType \cup LeaderType => y.block.hash # b.hash
             /\ \A y \in votes[d] : y.hash # b.hash
  BY <1>7, AboutProposed DEF CountingBefore
<1>9. \A type \in VoteType : \A s \in Replica : ~Cast(type, s, b.hash)
  BY <1>8 DEF Cast
<1>10. \A d \in Replica : x \notin InTransit(d)
  BY <1>5, <1>8 DEF LeaderType
<1>11. ASSUME NEW d \in Replica
       PROVE  /\ Apart(net', d, msgQueue'[d], hand'[d])
              /\ \A y \in InTransit(d)' : y = x \/ y \in InTransit(d)
  <2>1. /\ Apart(net, d, msgQueue[d], hand[d])
        /\ InTransit(d) = Arrives(net, d, msgQueue[d], hand[d])
        /\ InTransit(d)' = Arrives(net', d, msgQueue[d], hand[d])
    BY <1>3, ArrivesInTransit, ArrivesAfter DEF CountingBefore, CountingInv, Alone
  <2> QED
    BY <1>3, <1>10, <2>1, MulticastApart DEF CountingBefore, Shaped
<1>12. CountingEffect({x}, {rec})
  <2>1. Alone'
    BY <1>11 DEF Alone, Apart
  <2>2. \A d \in Replica : \A y \in votes'[d] : y \in votes[d] \/ y = rec
    BY <1>3 DEF CountingBefore, SafeState, SafetyTypeOK
  <2>3. \A t \in VoteType : <<t, "Prepare">> \notin Follows /\ <<t, "PrepareVote">> \notin Follows
    BY DEF Follows
  <2> QED
    BY <1>3, <1>5, <1>6, <1>11, <2>1, <2>2, <2>3, TypesApart DEF CountingEffect
<1>13. ASSUME NEW d \in Replica, NEW y \in InTransit(d)', y.type \in VoteType
       PROVE  y # x /\ OwnVote(y.from, y.type, y.block) # rec
  <2>1. y # x /\ y \in InTransit(d)
    BY <1>5, <1>11, <1>13, TypesApart
  <2>2. y.block.hash # b.hash
    BY <1>8, <1>13, <2>1
  <2> QED
    BY <1>6, <2>1, <2>2 DEF OwnVote
<1>14. ASSUME NEW s \in Replica, NEW y \in InTransit(s)', NEW t \in VoteType,
              <<y.type, t>> \in Asks
       PROVE  /\ y = x => ~Cast(t, s, y.block.hash)
              /\ [type |-> t, hash |-> y.block.hash, from |-> s] # rec
              /\ x.type # t
  <2>1. x.type # t /\ y.type \in LeaderType
    BY <1>5, <1>14, TypesApart
  <2>2. ASSUME [type |-> t, hash |-> y.block.hash, from |-> s] = rec PROVE FALSE
    <3>1. s = r /\ y.block.hash = b.hash
      BY <1>6, <2>2
    <3>2. y = x
      BY <1>8, <1>11, <2>1, <3>1
    <3>3. x.type \in VoteType <=> GetLeaderByView(x.view) = r
      BY <1>5, <1>14, <3>1, <3>2 DEF CountingBefore, BlocksAsked, LeaderType
    <3> QED
      BY <1>2, <1>5, <3>3, TypesApart DEF Leader
  <2> QED
    BY <1>5, <1>9, <2>1, <2>2
<1>15. SentOnce({x}, {rec})
  BY <1>13, <1>14 DEF SentOnce
<1>16. CountingInv'
  BY <1>12, <1>15, EffectKeepsCounting
<1> QED
  BY <1>5, <1>11, <1>16 DEF Counts, LeaderType

-----------------------------------------------------------------------------
(* The end of a view.  Its leader multicasts the decision x before it goes   *)
(* on, with network n.                                                       *)

LEMMA MulticastIsNet ==
    ASSUME NEW n, IsNet(n), NEW r \in Replica, NEW x
    PROVE  IsNet(Multicast(n, r, x))
<1>1. PICK M : n \in NetOf(M)
  BY DEF IsNet
<1>2. \A s, d \in Replica : n[s][d] \in Seq(M \cup {x})
  <2> SUFFICES ASSUME NEW s \in Replica, NEW d \in Replica
               PROVE  n[s][d] \in Seq(M \cup {x})
    OBVIOUS
  <2>1. n[s][d] \in Seq(M)
    BY <1>1 DEF NetOf
  <2>2. \A i \in 1..Len(n[s][d]) : n[s][d][i] \in M \cup {x}
    BY <2>1
  <2> QED
    BY <2>1, <2>2
<1>3. n \in NetOf(M \cup {x})
  BY <1>1, <1>2 DEF NetOf
<1>4. Multicast(n, r, x) \in NetOf(M \cup {x})
  BY <1>3, MulticastTypeOf
<1> QED
  BY <1>4 DEF IsNet

\* r goes to its next view, with network n and queue q; it may have sent new.
Departs(r, n, q, new) ==
    /\ IsNet(n)
    /\ \A d \in Replica :
        /\ Apart(n, d, QueueOf(r, q, d), hand'[d])
        /\ \A x \in Arrives(n, d, QueueOf(r, q, d), hand'[d]) :
              x \in InTransit(d) \/ x \in new
        /\ finishedVotes[d] \subseteq finishedVotes'[d]
    /\ \A x \in new : x.type = "Decide" /\ Ended("CommitVote", x.block.hash)'

LEMMA DecideDeparts ==
    ASSUME CountingBefore, NEW r \in Replica, NEW m, NEW n, NEW q,
           Delivers(r, m, n, q), m.type = "CommitVote", IsFresh(r, m),
           FinishVotes(r, m)
    PROVE  LET x == PhaseMsg("Decide", view[r], m.block, CreateQuorumCert(m.block))
           IN  Departs(r, Multicast(n, r, x), q, {x})
<1> DEFINE b == m.block
           x == PhaseMsg("Decide", view[r], b, CreateQuorumCert(b))
           p == Multicast(n, r, x)
<1>1. m \in InTransit(r) /\ m.type \in VoteType
  BY DEF Delivers, VoteType
<1>2. /\ b.hash[1] = r
      /\ \A d \in Replica : \A y \in InTransit(d) :
            <<m.type, y.type>> \in Follows => y.block.hash # b.hash
  BY <1>1, NothingFollows
<1>3. x.type = "Decide" /\ x.block = b
  BY DEF PhaseMsg
<1>4. \A d \in Replica : x \notin InTransit(d)
  BY <1>2, <1>3 DEF Follows
<1>5. finishedVotes' = [finishedVotes EXCEPT ![r] = @ \cup {<<m.type, b.hash>>}]
  BY DEF FinishVotes
<1>6. /\ \A d \in Replica : finishedVotes[d] \subseteq finishedVotes'[d]
      /\ Ended("CommitVote", b.hash)'
  BY <1>2, <1>5 DEF Ended, CountingBefore, Shaped
<1> HIDE DEF x
<1>7. IsNet(p)
  BY MulticastIsNet DEF Delivers
<1>8. ASSUME NEW d \in Replica
      PROVE  /\ Apart(p, d, QueueOf(r, q, d), hand'[d])
             /\ \A y \in Arrives(p, d, QueueOf(r, q, d), hand'[d]) :
                   y \in InTransit(d) \/ y = x
  BY <1>4, MulticastApart DEF Delivers
<1> HIDE DEF p
<1>9. Departs(r, p, q, {x})
  BY <1>3, <1>6, <1>7, <1>8 DEF Departs
<1> QED
  BY <1>9 DEF p, x

LEMMA LearnDeparts ==
    ASSUME NEW r \in Replica, NEW m, NEW n, NEW q, Delivers(r, m, n, q),
           UNCHANGED finishedVotes
    PROVE  Departs(r, n, q, {})
BY DEF Departs, Delivers

LEMMA TimeoutDeparts ==
    ASSUME CountingBefore, NEW r \in Replica, UNCHANGED <<finishedVotes, hand>>
    PROVE  Departs(r, net, msgQueue[r], {})
<1>1. ASSUME NEW d \in Replica
      PROVE  /\ Apart(net, d, msgQueue[d], hand[d])
             /\ InTransit(d) = Arrives(net, d, msgQueue[d], hand[d])
             /\ QueueOf(r, msgQueue[r], d) = msgQueue[d]
  BY ArrivesInTransit DEF CountingBefore, CountingInv, Alone, QueueOf
<1> QED
  BY <1>1 DEF Departs, CountingBefore, Shaped

\* Then it may send a message to the leader of that view.
LEMMA DepartedUnicast ==
    ASSUME Shaped, NEW r \in Replica, NEW n, NEW q, NEW new, Departs(r, n, q, new),
           NEW e \in Replica, NEW x, x \notin InTransit(e), x \notin new,
           net' = Unicast(n, r, e, x), msgQueue' = [msgQueue EXCEPT ![r] = q]
    PROVE  /\ Alone'
           /\ \A d \in Replica : \A y \in InTransit(d)' :
                 y \in InTransit(d) \/ y \in new \/ (y = x /\ d = e)
<1>1. \A d \in Replica : msgQueue'[d] = QueueOf(r, q, d)
  BY QueueAfter
<1>2. x \notin Arrives(n, e, QueueOf(r, q, e), hand'[e])
  BY DEF Departs
<1>3. ASSUME NEW d \in Replica
      PROVE  /\ Apart(net', d, msgQueue'[d], hand'[d])
             /\ \A y \in InTransit(d)' :
                   y \in InTransit(d) \/ y \in new \/ (y = x /\ d = e)
  BY <1>1, <1>2, UnicastApart, ArrivesAfter DEF Departs
<1>4. Alone'
  BY <1>3 DEF Alone, Apart
<1> QED
  BY <1>3, <1>4

LEMMA DepartedSilent ==
    ASSUME Shaped, NEW r \in Replica, NEW n, NEW q, NEW new, Departs(r, n, q, new),
           net' = n, NEW p, p \subseteq q, msgQueue' = [msgQueue EXCEPT ![r] = p]
    PROVE  /\ Alone'
           /\ \A d \in Replica : \A y \in InTransit(d)' : y \in InTransit(d) \/ y \in new
           /\ \A y \in q : y \notin p => y \notin InTransit(r)'
<1>1. \A d \in Replica : msgQueue'[d] = QueueOf(r, p, d)
  BY QueueAfter
<1>2. ASSUME NEW d \in Replica
      PROVE  /\ Apart(n, d, QueueOf(r, p, d), hand'[d])
             /\ InTransit(d)' \subseteq Arrives(n, d, QueueOf(r, q, d), hand'[d])
             /\ d = r => \A y \in q : y \notin p => y \notin InTransit(d)'
  <2> DEFINE big == QueueOf(r, q, d)
             small == QueueOf(r, p, d)
             h == hand'[d]
  <2>1. Apart(n, d, big, h) /\ small \subseteq big /\ h \subseteq h
    BY DEF Departs, QueueOf
  <2>2. d = r => small = p /\ big = q
    BY DEF QueueOf
  <2>3. InTransit(d)' = Arrives(n, d, small, h)
    BY <1>1, ArrivesAfter
  <2> HIDE DEF big, small, h
  <2>4. /\ Apart(n, d, small, h)
        /\ Arrives(n, d, small, h) \subseteq Arrives(n, d, big, h)
        /\ \A y \in big : y \notin small => y \notin Arrives(n, d, small, h)
    BY ONLY <2>1, d \in Replica, SubQueueApart
  <2> QED
    BY <2>2, <2>3, <2>4 DEF big, small, h
<1>3. Alone'
  BY <1>1, <1>2 DEF Alone, Apart
<1> QED
  BY <1>2, <1>3 DEF Departs

-----------------------------------------------------------------------------
(* What HandleMsg takes. *)

\* The message that r takes from s, and the places of the others.
LEMMA TakenFrom ==
    ASSUME Shaped, Alone, NEW r \in Replica, NEW s \in Replica, net[s][r] # <<>>
    PROVE  LET m == Head(net[s][r])
               n == Taken(r, s)
           IN  /\ m \in InTransit(r) /\ IsNet(n)
               /\ \A d \in Replica :
                    /\ Apart(n, d, msgQueue[d], hand[d])
                    /\ Arrives(n, d, msgQueue[d], hand[d]) \subseteq InTransit(d)
               /\ m \notin Arrives(n, r, msgQueue[r], hand[r])
<1>1. \A d \in Replica : /\ Apart(net, d, msgQueue[d], hand[d])
                         /\ InTransit(d) = Arrives(net, d, msgQueue[d], hand[d])
  BY ArrivesInTransit DEF Alone
<1>2. IsNet(net)
  BY DEF Shaped
<1>3. IsNet(Taken(r, s))
  BY <1>2, TakenTypeOf DEF IsNet
<1> QED
  BY <1>1, <1>2, <1>3, TakenApart

LEMMA CurrentDelivers ==
    ASSUME Shaped, Alone, NEW r \in Replica, NEW s \in Replica, net[s][r] # <<>>,
           UNCHANGED <<hand, proposed>>
    PROVE  Delivers(r, Head(net[s][r]), Taken(r, s), msgQueue[r])
<1>1. \A d \in Replica : QueueOf(r, msgQueue[r], d) = msgQueue[d]
  BY DEF QueueOf
<1> QED
  BY <1>1, TakenFrom DEF Delivers

LEMMA QueuedDelivers ==
    ASSUME Shaped, Alone, NEW r \in Replica, NEW m \in Last(msgQueue[r], view[r]),
           UNCHANGED <<hand, proposed>>
    PROVE  Delivers(r, m, net, Pop(msgQueue[r], view[r], m))
<1> DEFINE q == Pop(msgQueue[r], view[r], m)
<1>1. m \in msgQueue[r] /\ m \notin q /\ q \subseteq msgQueue[r]
  BY DEF Last, QueuedFor, Pop
<1>2. \A d \in Replica : /\ Apart(net, d, msgQueue[d], hand[d])
                         /\ InTransit(d) = Arrives(net, d, msgQueue[d], hand[d])
  BY ArrivesInTransit DEF Alone
<1> HIDE DEF q
<1>3. ASSUME NEW d \in Replica
      PROVE  /\ Apart(net, d, QueueOf(r, q, d), hand[d])
             /\ Arrives(net, d, QueueOf(r, q, d), hand[d]) \subseteq InTransit(d)
             /\ d = r => m \notin Arrives(net, d, q, hand[d])
  <2> DEFINE p == QueueOf(r, q, d)
             h == hand[d]
             k == msgQueue[d]
  <2>1. p \subseteq k /\ (d = r => p = q /\ m \in k /\ m \notin p)
    BY <1>1 DEF QueueOf
  <2>2. Apart(net, d, k, h) /\ p \subseteq k /\ h \subseteq h
    BY <1>2, <2>1
  <2> HIDE DEF p, h, k
  <2>3. /\ Apart(net, d, p, h)
        /\ Arrives(net, d, p, h) \subseteq Arrives(net, d, k, h)
        /\ \A x \in k : x \notin p => x \notin Arrives(net, d, p, h)
    BY ONLY <2>2, d \in Replica, SubQueueApart
  <2> QED
    BY <1>2, <2>1, <2>3 DEF p, h, k
<1>4. Delivers(r, m, net, q)
  BY <1>1, <1>2, <1>3 DEF Delivers, Arrives, Shaped
<1> QED
  BY <1>4 DEF q

LEMMA HeldDelivers ==
    ASSUME Shaped, Alone, NEW r \in Replica, NEW m \in hand[r],
           hand' = [hand EXCEPT ![r] = {}], UNCHANGED proposed
    PROVE  Delivers(r, m, net, msgQueue[r])
<1>1. hand'[r] = {} /\ \A d \in Replica \ {r} : hand'[d] = hand[d]
  BY DEF Shaped
<1>2. \A d \in Replica : /\ Apart(net, d, msgQueue[d], hand[d])
                         /\ InTransit(d) = Arrives(net, d, msgQueue[d], hand[d])
  BY ArrivesInTransit DEF Alone
<1>3. ASSUME NEW d \in Replica
      PROVE  /\ Apart(net, d, msgQueue[d], hand'[d])
             /\ Arrives(net, d, msgQueue[d], hand'[d]) \subseteq InTransit(d)
             /\ d = r => m \notin Arrives(net, d, msgQueue[d], hand'[d])
  <2> DEFINE h == hand'[d]
             g == hand[d]
             k == msgQueue[d]
  <2>1. h \subseteq g /\ (d = r => m \in g /\ m \notin h)
    BY <1>1
  <2>2. Apart(net, d, k, g) /\ k \subseteq k /\ h \subseteq g
    BY <1>2, <2>1
  <2> HIDE DEF h, g, k
  <2>3. /\ Apart(net, d, k, h)
        /\ Arrives(net, d, k, h) \subseteq Arrives(net, d, k, g)
        /\ \A x \in g : x \notin h => x \notin Arrives(net, d, k, h)
    BY ONLY <2>2, d \in Replica, SubQueueApart
  <2> QED
    BY <1>2, <2>1, <2>3 DEF h, g, k
<1>4. \A d \in Replica : QueueOf(r, msgQueue[r], d) = msgQueue[d]
  BY DEF QueueOf
<1>5. m \in InTransit(r)
  BY <1>2 DEF Arrives
<1> QED
  BY <1>3, <1>4, <1>5 DEF Delivers, Shaped

\* A message that is nowhere may be put in the queue or in the hands.
LEMMA PutApart ==
    ASSUME NEW n, NEW d \in Replica, NEW q, NEW h, Apart(n, d, q, h),
           NEW x, x \notin Arrives(n, d, q, h), NEW p, NEW g,
           \/ p = q \cup {x} /\ g = h
           \/ p = q /\ g = h \cup {x}
           \/ p = q /\ g = h
    PROVE  /\ Apart(n, d, p, g)
           /\ \A y \in Arrives(n, d, p, g) : y \in Arrives(n, d, q, h) \/ y = x
<1>1. /\ x \notin q /\ x \notin h
      /\ \A s \in Replica : \A i \in DOMAIN n[s][d] : n[s][d][i] # x
  BY DEF Arrives
<1>2. CASE p = q \cup {x} /\ g = h
  BY <1>1, <1>2 DEF Apart, Arrives
<1>3. CASE p = q /\ g = h \cup {x}
  BY <1>1, <1>3 DEF Apart, Arrives
<1> QED
  BY <1>2, <1>3

\* A step in which nothing is counted, and a message at most changes place.
Calm ==
    /\ UNCHANGED <<votes, finishedVotes, highQCTmp, view, proposed>>
    /\ Alone'
    /\ \A d \in Replica : InTransit(d)' \subseteq InTransit(d)

LEMMA AsideIsCalm ==
    ASSUME Shaped, Alone, NEW r \in Replica, NEW s \in Replica,
           ReceiveFuture(r, s) \/ ReceiveStale(r, s) \/ HoldCurrent(r, s)
    PROVE  Calm
<1> DEFINE m == Head(net[s][r])
           n == Taken(r, s)
<1>1. net[s][r] # <<>> /\ hand[r] = {}
  BY DEF ReceiveFuture, ReceiveStale, HoldCurrent, CanReceive, Idle
<1>2. /\ m \in InTransit(r)
      /\ \A d \in Replica :
            /\ Apart(n, d, msgQueue[d], hand[d])
            /\ Arrives(n, d, msgQueue[d], hand[d]) \subseteq InTransit(d)
      /\ m \notin Arrives(n, r, msgQueue[r], hand[r])
  BY <1>1, TakenFrom
<1> HIDE DEF m, n
<1>3. /\ UNCHANGED <<votes, finishedVotes, highQCTmp, view, proposed>>
      /\ net' = n
  BY DEF ReceiveFuture, ReceiveStale, HoldCurrent, leaderVars, viewVars,
         requestVars, n
<1>4. /\ \A d \in Replica \ {r} : msgQueue'[d] = msgQueue[d] /\ hand'[d] = hand[d]
      /\ \/ msgQueue'[r] = msgQueue[r] \cup {m} /\ hand'[r] = hand[r]
         \/ msgQueue'[r] = msgQueue[r] /\ hand'[r] = hand[r]
         \/ msgQueue'[r] = msgQueue[r] /\ hand'[r] = hand[r] \cup {m}
  <2>1. CASE ReceiveFuture(r, s)
    BY <2>1 DEF ReceiveFuture, Put, m, Shaped
  <2>2. CASE ReceiveStale(r, s)
    BY <2>2 DEF ReceiveStale
  <2>3. CASE HoldCurrent(r, s)
    BY <1>1, <2>3 DEF HoldCurrent, m, Shaped
  <2> QED
    BY <2>1, <2>2, <2>3
<1>5. ASSUME NEW d \in Replica
      PROVE  /\ Apart(n, d, msgQueue'[d], hand'[d])
             /\ InTransit(d)' \subseteq InTransit(d)
  <2>1. InTransit(d)' = Arrives(n, d, msgQueue'[d], hand'[d])
    BY <1>3, ArrivesAfter
  <2>2. CASE d # r
    BY <1>2, <1>4, <2>1, <2>2
  <2>3. CASE d = r
    <3> DEFINE q == msgQueue[r]
               h == hand[r]
               p == msgQueue'[r]
               g == hand'[r]
    <3>1. /\ Apart(n, r, q, h) /\ Arrives(n, r, q, h) \subseteq InTransit(r)
          /\ m \notin Arrives(n, r, q, h) /\ m \in InTransit(r)
      BY <1>2
    <3>2. \/ p = q \cup {m} /\ g = h
          \/ p = q /\ g = h \cup {m}
          \/ p = q /\ g = h
      BY <1>4
    <3> HIDE DEF q, h, p, g
    <3>3. /\ Apart(n, r, p, g)
          /\ \A y \in Arrives(n, r, p, g) : y \in Arrives(n, r, q, h) \/ y = m
      BY <3>1, <3>2, PutApart
    <3>4. Apart(n, r, p, g) /\ Arrives(n, r, p, g) \subseteq InTransit(r)
      BY <3>1, <3>3
    <3> QED
      BY <2>1, <2>3, <3>4 DEF p, g
  <2> QED
    BY <2>2, <2>3
<1>6. Alone'
  BY <1>3, <1>5 DEF Alone, Apart
<1> QED
  BY <1>3, <1>5, <1>6 DEF Calm

LEMMA LossIsCalm ==
    ASSUME Shaped, Alone, NEW r \in Replica, NEW s \in Replica, Lose(r, s)
    PROVE  Calm
<1>1. /\ UNCHANGED <<votes, finishedVotes, highQCTmp, view, proposed>>
      /\ UNCHANGED <<msgQueue, hand>>
      /\ net' = Taken(r, s) /\ net[s][r] # <<>>
  BY DEF Lose, leaderVars, viewVars, requestVars, handVars
<1>2. \A d \in Replica :
          /\ Apart(Taken(r, s), d, msgQueue[d], hand[d])
          /\ Arrives(Taken(r, s), d, msgQueue[d], hand[d]) \subseteq InTransit(d)
  BY <1>1, TakenFrom
<1>3. \A d \in Replica : /\ Apart(net', d, msgQueue'[d], hand'[d])
                         /\ InTransit(d)' \subseteq InTransit(d)
  BY <1>1, <1>2, ArrivesAfter
<1> QED
  BY <1>1, <1>3 DEF Calm, Alone, Apart

LEMMA StutterIsCalm ==
    ASSUME Alone, UNCHANGED vars
    PROVE  Calm
<1>1. /\ UNCHANGED <<votes, finishedVotes, highQCTmp, view, proposed>>
      /\ UNCHANGED <<net, msgQueue, hand>>
  BY DEF vars, leaderVars, viewVars, requestVars, handVars
<1>2. \A d \in Replica : InTransit(d)' = InTransit(d)
  BY <1>1 DEF InTransit, OnTheWay
<1> QED
  BY <1>1, <1>2 DEF Calm, Alone, Apart

LEMMA CalmCounts ==
    ASSUME CountingBefore, Calm
    PROVE  Counts
<1>1. Voteless({})
  BY DEF Voteless, Calm
<1> QED
  BY <1>1, VotelessKeepsCounting DEF Counts, Calm

LEMMA InitCounting == Init => CountingInv
<1> SUFFICES ASSUME Init PROVE CountingInv
  OBVIOUS
<1>1. \A d \in Replica : /\ votes[d] = {} /\ msgQueue[d] = {} /\ hand[d] = {}
                         /\ \A s \in Replica : net[s][d] = <<>>
  BY DEF Init
<1>2. \A d \in Replica : InTransit(d) = {}
  BY <1>1 DEF InTransit, OnTheWay
<1>3. Alone
  BY <1>1 DEF Alone, Apart
<1> QED
  BY <1>1, <1>2, <1>3
     DEF CountingInv, Determined, AskedOnce, PhasesEnded, VotesCountedOnce
-----------------------------------------------------------------------------
(* Votes that have ended are not collected again. *)

\* A phase ends after the one before it, for a block that was proposed.
PhasesInOrder ==
    \A r \in Replica : \A x \in finishedVotes[r] :
        /\ \E b \in proposed : b.hash = x[2]
        /\ \A type \in VoteType :
              <<type, x[1]>> \in Follows => <<type, x[2]>> \in finishedVotes[r]

ListsInv == PhasesInOrder /\ NoSecondList

\* In r the votes of the phases in ends end, and nobody else's lists change.
\* What the step puts on a list had not ended.
ListsEffect(r, ends) ==
    /\ \A d \in Replica \ {r} :
          votes'[d] = votes[d] /\ finishedVotes'[d] = finishedVotes[d]
    /\ finishedVotes'[r] = finishedVotes[r] \cup ends
    /\ \A y \in votes'[r] :
          /\ y \in votes[r] \/ <<y.type, y.hash>> \notin finishedVotes[r]
          /\ <<y.type, y.hash>> \notin ends
    /\ \A x \in ends :
          /\ \E b \in proposed : b.hash = x[2]
          /\ \A type \in VoteType :
                <<type, x[1]>> \in Follows => <<type, x[2]>> \in finishedVotes[r]
    /\ proposed \subseteq proposed'

LEMMA EffectKeepsLists ==
    ASSUME ListsInv, NEW r \in Replica, NEW ends, ListsEffect(r, ends)
    PROVE  ListsInv'
<1>1. PhasesInOrder'
  <2> SUFFICES ASSUME NEW d \in Replica, NEW x \in finishedVotes'[d]
               PROVE  /\ \E b \in proposed' : b.hash = x[2]
                      /\ \A type \in VoteType : <<type, x[1]>> \in Follows =>
                            <<type, x[2]>> \in finishedVotes'[d]
    BY DEF PhasesInOrder
  <2>1. CASE x \in finishedVotes[d]
    BY <2>1 DEF ListsInv, PhasesInOrder, ListsEffect
  <2>2. CASE x \notin finishedVotes[d]
    BY <2>2 DEF ListsEffect
  <2> QED
    BY <2>1, <2>2
<1>2. NoSecondList'
  BY DEF ListsInv, NoSecondList, ListsEffect
<1> QED
  BY <1>1, <1>2 DEF ListsInv

\* A step that puts nothing on a list, and ends none.
LEMMA FewerVotesKeepLists ==
    ASSUME ListsInv, UNCHANGED finishedVotes, proposed \subseteq proposed',
           \A d \in Replica : votes'[d] \subseteq votes[d]
    PROVE  ListsInv'
BY DEF ListsInv, PhasesInOrder, NoSecondList

LEMMA StoreVoteKeepsLists ==
    ASSUME CountingBefore, ListsInv, NEW r \in Replica, NEW m, NEW n, NEW q,
           IsFresh(r, m), StoreVote(r, m, n, q), UNCHANGED proposed
    PROVE  ListsInv'
<1> DEFINE rec == OwnVote(m.from, m.type, m.block)
<1>1. /\ votes' = [votes EXCEPT ![r] = @ \cup {rec}]
      /\ UNCHANGED finishedVotes
  BY DEF StoreVote, Counted
<1>2. <<rec.type, rec.hash>> \notin finishedVotes[r]
  BY DEF IsFresh, OwnVote
<1> HIDE DEF rec
<1>3. DOMAIN votes = Replica
  BY DEF CountingBefore, SafeState, SafetyTypeOK
<1>4. ListsEffect(r, {})
  BY <1>1, <1>2, <1>3 DEF ListsEffect
<1> QED
  BY <1>4, EffectKeepsLists

\* The end of a phase is in order: a vote was under way, so the phase before it
\* has ended.
LEMMA EndInOrder ==
    ASSUME CountingBefore, NEW r \in Replica, NEW m \in InTransit(r),
           m.type \in VoteType, IsFresh(r, m)
    PROVE  LET h == m.block.hash
           IN  /\ \E b \in proposed : b.hash = h
               /\ \A type \in VoteType :
                     <<type, m.type>> \in Follows => <<type, h>> \in finishedVotes[r]
BY NothingFollows DEF CountingBefore, CountingInv, PhasesEnded, Ended

LEMMA LeftVotesNotEnded ==
    ASSUME NEW r, NEW m
    PROVE  \A y \in LeftVotes(r, m) : <<y.type, y.hash>> # <<m.type, m.block.hash>>
BY DEF LeftVotes, VotesLike

\* The votes of m's phase end; vs are left, or the votes of a next phase begun.
LEMMA EndKeepsLists ==
    ASSUME CountingBefore, ListsInv, NEW r \in Replica, NEW m \in InTransit(r),
           m.type \in VoteType, IsFresh(r, m), FinishVotes(r, m), UNCHANGED proposed,
           \A d \in Replica \ {r} : votes'[d] = votes[d],
           \A y \in votes'[r] :
              \/ y \in LeftVotes(r, m)
              \/ \E type \in VoteType : /\ <<m.type, type>> \in Follows
                                        /\ y = OwnVote(r, type, m.block)
    PROVE  ListsInv'
<1> DEFINE h == m.block.hash
           end == <<m.type, h>>
<1>1. finishedVotes' = [finishedVotes EXCEPT ![r] = @ \cup {end}]
  BY DEF FinishVotes
<1>2. DOMAIN finishedVotes = Replica
  BY DEF CountingBefore, Shaped
<1>3. end \notin finishedVotes[r]
  BY DEF IsFresh
<1>4. ASSUME NEW y \in votes'[r]
      PROVE  /\ y \in votes[r] \/ <<y.type, y.hash>> \notin finishedVotes[r]
             /\ <<y.type, y.hash>> # end
  <2>1. CASE y \in LeftVotes(r, m)
    BY <2>1, LeftVotesOld, LeftVotesNotEnded
  <2>2. ASSUME NEW type \in VoteType, <<m.type, type>> \in Follows,
               y = OwnVote(r, type, m.block)
        PROVE  /\ <<y.type, y.hash>> \notin finishedVotes[r]
               /\ <<y.type, y.hash>> # end
    <3>1. y.type = type /\ y.hash = h
      BY <2>2 DEF OwnVote
    <3>2. <<type, h>> \in finishedVotes[r] => end \in finishedVotes[r]
      BY <2>2 DEF ListsInv, PhasesInOrder
    <3>3. type # m.type
      BY <2>2 DEF Follows
    <3> QED
      BY <1>3, <3>1, <3>2, <3>3
  <2> QED
    BY <2>1, <2>2
<1>5. /\ \E b \in proposed : b.hash = end[2]
      /\ \A type \in VoteType :
            <<type, end[1]>> \in Follows => <<type, end[2]>> \in finishedVotes[r]
  BY EndInOrder
<1> HIDE DEF end
<1>6. ListsEffect(r, {end})
  BY <1>1, <1>2, <1>4, <1>5 DEF ListsEffect
<1> QED
  BY <1>6, EffectKeepsLists

LEMMA StartPhaseKeepsLists ==
    ASSUME CountingBefore, ListsInv, NEW r \in Replica, NEW m \in InTransit(r),
           m.type \in VoteType, IsFresh(r, m), UNCHANGED proposed,
           NEW type, NEW voteType \in VoteType, <<m.type, voteType>> \in Follows,
           NEW n, NEW q, StartPhase(r, m, type, voteType, n, q)
    PROVE  ListsInv'
<1>1. /\ FinishVotes(r, m)
      /\ votes' = [votes EXCEPT
                     ![r] = LeftVotes(r, m) \cup {OwnVote(r, voteType, m.block)}]
  BY DEF StartPhase
<1>2. DOMAIN votes = Replica
  BY DEF CountingBefore, SafeState, SafetyTypeOK
<1>3. \A y \in votes'[r] : y \in LeftVotes(r, m) \/ y = OwnVote(r, voteType, m.block)
  BY <1>1, <1>2
<1> QED
  BY <1>1, <1>2, <1>3, EndKeepsLists

\* The handlers of the three phases.
LEMMA PhaseKeepsLists ==
    ASSUME CountingBefore, ListsInv, NEW r \in Replica, NEW m, NEW n, NEW q,
           m \in InTransit(r), UNCHANGED proposed,
           \/ m.type = "Prepare" /\ OnReceivePrepare(r, m, n, q)
           \/ m.type = "PrepareVote" /\ OnReceivePrepareVote(r, m, n, q)
           \/ m.type = "PreCommit" /\ OnReceivePreCommit(r, m, n, q)
           \/ m.type = "PreCommitVote" /\ OnReceivePreCommitVote(r, m, n, q)
           \/ m.type = "Commit" /\ OnReceiveCommit(r, m, n, q)
    PROVE  ListsInv'
<1>1. CASE UNCHANGED <<votes, finishedVotes>>
  BY <1>1, FewerVotesKeepLists
<1>2. CASE IsFresh(r, m) /\ StoreVote(r, m, n, q)
  BY <1>2, StoreVoteKeepsLists
<1>3. CASE m.type = "PrepareVote" /\ OnReceivePrepareVote(r, m, n, q)
  <2>1. CASE IsFresh(r, m) /\ StartPhase(r, m, "PreCommit", "PreCommitVote", n, q)
    BY <1>3, <2>1, StartPhaseKeepsLists DEF VoteType, Follows
  <2> QED
    BY <1>1, <1>2, <1>3, <2>1 DEF OnReceivePrepareVote, Ignore, leaderVars
<1>4. CASE m.type = "PreCommitVote" /\ OnReceivePreCommitVote(r, m, n, q)
  <2>1. CASE IsFresh(r, m) /\ StartPhase(r, m, "Commit", "CommitVote", n, q)
    BY <1>4, <2>1, StartPhaseKeepsLists DEF VoteType, Follows
  <2> QED
    BY <1>1, <1>2, <1>4, <2>1 DEF OnReceivePreCommitVote, Ignore, Panic, leaderVars
<1> QED
  BY <1>1, <1>3, <1>4
     DEF OnReceivePrepare, OnReceivePreCommit, OnReceiveCommit, Vote, Ignore, leaderVars

LEMMA ProposeKeepsLists ==
    ASSUME CountingBefore, ListsInv, NEW r \in Replica, HandleReq(r)
    PROVE  ListsInv'
<1>1. PICK c \in Cmd : SendPrepare(r, c)
  BY DEF HandleReq
<1> DEFINE b == CreateLeaf(r, c)
           rec == OwnVote(r, "PrepareVote", b)
<1>2. Leader(r) = r
  BY DEF HandleReq, CountingBefore, SafeState, TokenDiscipline
<1>3. /\ votes' = [votes EXCEPT ![r] = @ \cup {rec}]
      /\ proposed' = proposed \cup {b}
      /\ UNCHANGED finishedVotes
  BY <1>1, <1>2 DEF SendPrepare, HandleReq
<1>4. rec.hash = <<r, clock[r]>>
  BY DEF OwnVote, CreateLeaf
<1> HIDE DEF b, rec
<1>5. ASSUME NEW a \in proposed, a.hash = rec.hash PROVE FALSE
  <2>1. a.proposer = a.hash[1] /\ a.hash[2] < clock[a.proposer]
    BY DEF CountingBefore, SafeState, SafetyInv, HashesKnown
  <2>2. a.hash[1] = r /\ a.hash[2] = clock[r] /\ clock[r] \in Nat
    BY <1>4, <1>5 DEF CountingBefore, SafeState, SafetyTypeOK
  <2> QED
    BY <2>1, <2>2
<1>6. <<rec.type, rec.hash>> \notin finishedVotes[r]
  BY <1>5 DEF ListsInv, PhasesInOrder
<1>7. DOMAIN votes = Replica
  BY DEF CountingBefore, SafeState, SafetyTypeOK
<1>8. ListsEffect(r, {})
  BY <1>3, <1>6, <1>7 DEF ListsEffect
<1> QED
  BY <1>8, EffectKeepsLists

\* The leader that decides a block leaves the view: what stays on its lists.
LEMMA DecideKeepsLists ==
    ASSUME CountingBefore, ListsInv, NEW r \in Replica, NEW m \in InTransit(r),
           m.type \in VoteType, IsFresh(r, m), FinishVotes(r, m), UNCHANGED proposed,
           \/ votes' = [votes EXCEPT ![r] = LeftVotes(r, m)]
           \/ votes' = [votes EXCEPT ![r] = {}]
    PROVE  ListsInv'
<1>1. DOMAIN votes = Replica
  BY DEF CountingBefore, SafeState, SafetyTypeOK
<1> QED
  BY <1>1, EndKeepsLists

LEMMA InitLists == Init => ListsInv
BY DEF Init, ListsInv, PhasesInOrder, NoSecondList
=============================================================================
