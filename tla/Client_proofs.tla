---------------------------- MODULE Client_proofs ----------------------------
(***************************************************************************)
(* Theorems about Client, for every number of replicas, of commands, of    *)
(* timeouts and of views.                                                  *)
(***************************************************************************)
EXTENDS Client, SequenceTheorems, FiniteSetTheorems, TLAPS

LEMMA CmdIsNat == \A c \in Cmd : c \in Nat /\ c >= 1
<1>1. Cardinality(Cmd) \in Nat
  BY CmdAssumption, FS_CardinalityType
<1> QED
  BY <1>1, CmdAssumption

\* The commands the client has sent.
SentBy(i) == {c \in Cmd : c <= i}

\* Nothing but these is in the channels, in the blocks and in the responses.
OnlySent ==
    /\ channel \in [Replica -> Seq(SentBy(current))]
    /\ \A b \in proposed : b.cmd \in SentBy(current)
    /\ \A r \in Replica : executed[r] \subseteq proposed
    /\ responses \subseteq Replica \X proposed

ClientInv == ClientTypeOK /\ OnlySent /\ AnsweredInOrder

LEMMA InitClientInv == ClientInit => ClientInv
<1> SUFFICES ASSUME ClientInit PROVE ClientInv
  OBVIOUS
<1>1. ClientTypeOK /\ OnlySent
  BY ClientBoundsAssumption
     DEF ClientInit, Init, ClientTypeOK, OnlySent
<1>2. AnsweredInOrder
  BY CmdIsNat DEF ClientInit, AnsweredInOrder
<1> QED
  BY <1>1, <1>2 DEF ClientInv

LEMMA SentGrows ==
    ASSUME NEW i \in Nat
    PROVE  /\ SentBy(i) \subseteq SentBy(i + 1)
           /\ Seq(SentBy(i)) \subseteq Seq(SentBy(i + 1))
<1>1. SentBy(i) \subseteq SentBy(i + 1)
  BY CmdIsNat DEF SentBy
<1>2. ASSUME NEW s \in Seq(SentBy(i))
      PROVE  s \in Seq(SentBy(i + 1))
  <2> HIDE DEF SentBy
  <2> QED
    BY <1>1, <1>2
<1> QED
  BY <1>1, <1>2

LEMMA SendRequestInv == ClientInv /\ SendRequest => ClientInv'
<1> SUFFICES ASSUME ClientInv, SendRequest PROVE ClientInv'
  OBVIOUS
<1>1. current \in SentBy(current)
  BY CmdIsNat DEF SendRequest, SentBy
<1>2. \A r \in Replica : /\ channel'[r] \in Seq(SentBy(current))
                         /\ channel'[r] \in Seq(Cmd)
  <2> SUFFICES ASSUME NEW r \in Replica
               PROVE  /\ channel'[r] \in Seq(SentBy(current))
                      /\ channel'[r] \in Seq(Cmd)
    OBVIOUS
  <2>1. channel'[r] = Append(channel[r], current)
    BY DEF SendRequest
  <2>2. channel[r] \in Seq(SentBy(current)) /\ channel[r] \in Seq(Cmd)
    BY DEF ClientInv, OnlySent, ClientTypeOK
  <2> QED
    BY <1>1, <2>1, <2>2 DEF SendRequest
<1>3. channel' \in [Replica -> Seq(Cmd)]
      /\ channel' \in [Replica -> Seq(SentBy(current))]
  BY <1>2 DEF SendRequest
<1> QED
  BY <1>3 DEF SendRequest, ClientInv, ClientTypeOK, OnlySent, AnsweredInOrder,
              responseVars

LEMMA SignalInv == ClientInv /\ Signal => ClientInv'
<1> SUFFICES ASSUME ClientInv, Signal PROVE ClientInv'
  OBVIOUS
<1>1. current \in Nat /\ current' = current + 1
  BY DEF ClientInv, ClientTypeOK, Signal
<1>2. ClientTypeOK'
  BY <1>1 DEF ClientInv, ClientTypeOK, Signal
<1>3. OnlySent'
  BY <1>1, SentGrows DEF ClientInv, OnlySent, Signal
<1>4. AnsweredInOrder'
  <2>1. offered = {current} /\ current \in Cmd
    BY DEF ClientInv, ClientTypeOK, AnsweredInOrder, Signal
  <2>2. \A c \in Cmd : c < current + 1 <=> c < current \/ c = current
    BY <1>1, CmdIsNat
  <2>3. /\ doneMap = {c \in Cmd : c < current} \cup {current}
        /\ doneMap' = doneMap /\ offered' = {}
    BY <2>1 DEF ClientInv, AnsweredInOrder, Signal
  <2>4. doneMap' = {c \in Cmd : c < current + 1}
    BY <2>1, <2>2, <2>3
  <2> QED
    BY <1>1, <2>3, <2>4 DEF AnsweredInOrder
<1> QED
  BY <1>2, <1>3, <1>4 DEF ClientInv

\* A response that adds to doneMap is to the command the client waits for:
\* the earlier ones are there already, and the later ones were not sent.
LEMMA SendResponseInv ==
    ASSUME ClientInv, NEW r, NEW b, SendResponse(r, b)
    PROVE  ClientInv'
<1>1. /\ b.cmd \in SentBy(current) /\ offered = {}
      /\ responses' \subseteq responses
      /\ UNCHANGED <<proposed, executed, clientVars, channel>>
  BY DEF SendResponse, ClientInv, OnlySent
<1>2. OnlySent'
  BY <1>1 DEF ClientInv, OnlySent, clientVars
<1>3. CASE UNCHANGED responseVars
  BY <1>1, <1>2, <1>3
     DEF ClientInv, ClientTypeOK, AnsweredInOrder, clientVars, responseVars
<1>4. CASE /\ Kept(b.cmd, resMap[b.cmd] + 1)
           /\ UNCHANGED <<doneMap, offered>>
  <2>1. resMap' \in [Cmd -> Nat]
    BY <1>1, <1>4 DEF Kept, ClientInv, ClientTypeOK, SentBy
  <2> QED
    BY <1>1, <1>2, <1>4, <2>1
       DEF ClientInv, ClientTypeOK, AnsweredInOrder, clientVars
<1>5. CASE /\ b.cmd \notin doneMap
           /\ Kept(b.cmd, 0)
           /\ doneMap' = doneMap \cup {b.cmd}
           /\ offered' = {b.cmd}
  <2>1. resMap' \in [Cmd -> Nat]
    BY <1>1, <1>5 DEF Kept, ClientInv, ClientTypeOK, SentBy
  <2>2. b.cmd = current
    BY <1>1, <1>5, CmdIsNat DEF ClientInv, ClientTypeOK, AnsweredInOrder, SentBy
  <2> QED
    BY <1>1, <1>2, <1>5, <2>1, <2>2
       DEF ClientInv, ClientTypeOK, AnsweredInOrder, clientVars, SentBy
<1> QED
  BY <1>3, <1>4, <1>5 DEF SendResponse

LEMMA ProposeInv ==
    ASSUME ClientInv, NEW r \in Replica, NEW v, HandleReq(r, v)
    PROVE  ClientInv'
<1>1. PICK i \in Unfinished(r), qc \in CertsBefore(v) :
        /\ Propose([hash |-> <<r, v + 1>>, view |-> v, proposer |-> r,
                    cmd |-> channel[r][i], cert |-> qc])
        /\ channel' = [channel EXCEPT ![r] = SubSeq(@, i + 1, Len(@))]
  BY DEF HandleReq
<1> DEFINE b == [hash |-> <<r, v + 1>>, view |-> v, proposer |-> r,
                 cmd |-> channel[r][i], cert |-> qc]
<1>2. /\ b \in Block
      /\ proposed' = proposed \cup {b}
      /\ UNCHANGED <<executed, clientVars, responses, responseVars>>
  BY <1>1 DEF Propose, HandleReq
<1>3. channel[r] \in Seq(SentBy(current)) /\ channel[r] \in Seq(Cmd)
  BY DEF ClientInv, OnlySent, ClientTypeOK
<1>4. i \in 1..Len(channel[r]) /\ b.cmd \in SentBy(current)
  BY <1>3 DEF Unfinished
<1>5. ASSUME NEW S, channel \in [Replica -> Seq(S)]
      PROVE  channel' \in [Replica -> Seq(S)]
  <2>1. channel[r] \in Seq(S)
    BY <1>5
  <2>2. SubSeq(channel[r], i + 1, Len(channel[r])) \in Seq(S)
    BY <1>4, <2>1, SubSeqProperties
  <2> QED
    BY <1>1, <1>5, <2>2
<1> HIDE DEF b
<1>6. OnlySent'
  <2>1. channel' \in [Replica -> Seq(SentBy(current))]
    BY <1>5 DEF ClientInv, OnlySent
  <2> QED
    BY <1>2, <1>4, <2>1 DEF ClientInv, OnlySent, clientVars
<1>7. ClientTypeOK'
  BY <1>2, <1>5 DEF ClientInv, ClientTypeOK, clientVars, responseVars
<1> QED
  BY <1>2, <1>6, <1>7 DEF ClientInv, AnsweredInOrder, clientVars, responseVars

LEMMA RespondInv ==
    ASSUME ClientInv, NEW r \in Replica, NEW b \in proposed, Respond(r, b)
    PROVE  ClientInv'
<1>1. /\ executed' = [executed EXCEPT ![r] = @ \cup {b}]
      /\ responses' = responses \cup {<<r, b>>}
      /\ UNCHANGED <<proposed, clientVars, channel, responseVars>>
  BY DEF Respond, Decide, Learn, Execute
<1>2. b \in Block
  BY DEF ClientInv, ClientTypeOK
<1> QED
  BY <1>1, <1>2 DEF ClientInv, ClientTypeOK, OnlySent, AnsweredInOrder,
                    clientVars, responseVars

LEMMA NextClientInv == ClientInv /\ [ClientNext]_vars => ClientInv'
<1> SUFFICES ASSUME ClientInv, [ClientNext]_vars PROVE ClientInv'
  OBVIOUS
<1>1. CASE Timeout \/ Wake
  <2>1. /\ phase' \in {"send", "wait", "sleep"} /\ resends' \in 0..MaxResend
        /\ UNCHANGED <<proposed, executed, current, channel, responses,
                       responseVars>>
    BY <1>1, ClientBoundsAssumption DEF Timeout, Wake, ClientInv, ClientTypeOK
  <2> QED
    BY <2>1 DEF ClientInv, ClientTypeOK, OnlySent, AnsweredInOrder, responseVars
<1>2. CASE UNCHANGED vars
  BY <1>2 DEF ClientInv, ClientTypeOK, OnlySent, AnsweredInOrder, vars,
              clientVars, responseVars
<1> QED
  BY <1>1, <1>2, SendRequestInv, SignalInv, SendResponseInv, ProposeInv,
     RespondInv
     DEF ClientNext

LEMMA ClientInvCorrect == ClientSpec => []ClientInv
BY InitClientInv, NextClientInv, PTL DEF ClientSpec

\* Type correctness of the client and what it talks to.
THEOREM ClientTypeCorrect == ClientSpec => []ClientTypeOK
BY ClientInvCorrect, PTL DEF ClientInv

\* SendResponse tells SendRequests of the command it waits for and of no other,
\* however late and however often the replicas respond, and no signal is lost
\* in the sleep after a timeout.
THEOREM AnsweredInOrderCorrect == ClientSpec => []AnsweredInOrder
BY ClientInvCorrect, PTL DEF ClientInv

-----------------------------------------------------------------------------
(* An answer takes two responses or more.  They may come from one replica    *)
(* for two blocks, but these then had two proposers, who executed them too.  *)

OneBlockPerView == \A a, b \in proposed : a.view = b.view => a = b

ProposersAreReplicas == \A b \in proposed : b.proposer \in Replica

\* A block is executed by its proposer first.
ProposerFirst ==
    \A r \in Replica : \A b \in executed[r] : b \in executed[b.proposer]

\* A leader does not propose again what it executed.
ProposerForgetsNothing ==
    \A a, b \in proposed :
        /\ a.proposer = b.proposer /\ a.view < b.view
        /\ a \in executed[a.proposer]
        => a.cmd # b.cmd

ResponsesExecuted == \A p \in responses : p[2] \in executed[p[1]]

\* A response that counts is not among those that are under way.
CountedExecuted ==
    \A c \in Cmd \ doneMap : resMap[c] # 0 =>
        \E r \in Replica : \E b \in executed[r] :
            b.cmd = c /\ <<r, b>> \notin responses

FinishedTwice(c) ==
    \E r, s \in Replica : r # s /\ IsFinished(r, c) /\ IsFinished(s, c)

ExecutionInv ==
    /\ OneBlockPerView
    /\ ProposersAreReplicas
    /\ ProposerFirst
    /\ ProposerForgetsNothing
    /\ ResponsesExecuted
    /\ CountedExecuted
    /\ \A c \in doneMap : FinishedTwice(c)

LEMMA InitExecutionInv == ClientInit => ExecutionInv
BY DEF ClientInit, Init, ExecutionInv, OneBlockPerView, ProposersAreReplicas,
       ProposerFirst, ProposerForgetsNothing, ResponsesExecuted,
       CountedExecuted

\* Two responses to a command, of one replica or of two.
LEMMA TwoResponses ==
    ASSUME ClientInv, ExecutionInv,
           NEW r \in Replica, NEW a \in executed[r],
           NEW s \in Replica, NEW b \in executed[s],
           <<r, a>> # <<s, b>>, a.cmd = b.cmd
    PROVE  FinishedTwice(a.cmd)
<1>1. CASE r # s
  BY <1>1 DEF FinishedTwice, IsFinished
<1>2. CASE r = s /\ a.proposer # r
  <2>1. a.proposer \in Replica /\ a \in executed[a.proposer]
    BY DEF ClientInv, OnlySent, ExecutionInv, ProposersAreReplicas, ProposerFirst
  <2> QED
    BY <1>2, <2>1 DEF FinishedTwice, IsFinished
<1>3. CASE r = s /\ b.proposer # r
  <2>1. b.proposer \in Replica /\ b \in executed[b.proposer]
    BY DEF ClientInv, OnlySent, ExecutionInv, ProposersAreReplicas, ProposerFirst
  <2> QED
    BY <1>3, <2>1 DEF FinishedTwice, IsFinished
<1>4. CASE r = s /\ a.proposer = r /\ b.proposer = r
  <2>1. a # b /\ a \in proposed /\ b \in proposed
    BY <1>4 DEF ClientInv, OnlySent
  <2>2. a.view \in Nat /\ b.view \in Nat
    BY <2>1 DEF ClientInv, ClientTypeOK, Block, View
  <2>3. a.view < b.view \/ b.view < a.view
    BY <2>1, <2>2 DEF ExecutionInv, OneBlockPerView
  <2> QED
    BY <1>4, <2>1, <2>3 DEF ExecutionInv, ProposerForgetsNothing
<1> QED
  BY <1>1, <1>2, <1>3, <1>4

LEMMA SendResponseExecution ==
    ASSUME ClientInv, ExecutionInv, NEW p \in responses,
           SendResponse(p[1], p[2])
    PROVE  ExecutionInv'
<1> DEFINE r == p[1]
           b == p[2]
<1>1. /\ r \in Replica /\ b \in executed[r] /\ p = <<r, b>>
      /\ b.cmd \in Cmd /\ resMap \in [Cmd -> Nat]
      /\ responses' = responses \ {<<r, b>>}
      /\ UNCHANGED <<proposed, executed>>
  BY DEF SendResponse, ClientInv, ClientTypeOK, OnlySent, ExecutionInv,
         ResponsesExecuted, SentBy
<1> HIDE DEF r, b
<1>2. /\ OneBlockPerView' /\ ProposersAreReplicas' /\ ProposerFirst'
      /\ ProposerForgetsNothing' /\ ResponsesExecuted'
  BY <1>1 DEF ExecutionInv, OneBlockPerView, ProposersAreReplicas, ProposerFirst,
              ProposerForgetsNothing, ResponsesExecuted
<1>3. \A c : FinishedTwice(c) => FinishedTwice(c)'
  BY <1>1 DEF FinishedTwice, IsFinished
<1>4. CASE UNCHANGED responseVars
  <2>1. CountedExecuted'
    BY <1>1, <1>4 DEF ExecutionInv, CountedExecuted, responseVars
  <2> QED
    BY <1>2, <1>3, <1>4, <2>1 DEF ExecutionInv, responseVars
<1>5. CASE /\ Kept(b.cmd, resMap[b.cmd] + 1)
           /\ UNCHANGED <<doneMap, offered>>
  <2>1. CountedExecuted'
    <3> SUFFICES ASSUME NEW c \in Cmd \ doneMap, resMap'[c] # 0
                 PROVE  \E x \in Replica : \E y \in executed[x] :
                            y.cmd = c /\ <<x, y>> \notin responses'
      BY <1>1, <1>5 DEF CountedExecuted
    <3>1. CASE c = b.cmd
      BY <1>1, <3>1
    <3>2. CASE c # b.cmd
      <4>1. resMap[c] # 0
        BY <1>1, <1>5, <3>2 DEF Kept
      <4> QED
        BY <1>1, <4>1 DEF ExecutionInv, CountedExecuted
    <3> QED
      BY <3>1, <3>2
  <2> QED
    BY <1>2, <1>3, <1>5, <2>1 DEF ExecutionInv
<1>6. CASE /\ b.cmd \notin doneMap
           /\ resMap[b.cmd] # 0
           /\ Kept(b.cmd, 0)
           /\ doneMap' = doneMap \cup {b.cmd}
  <2>1. FinishedTwice(b.cmd)
    <3>1. PICK s \in Replica : \E a \in executed[s] :
            a.cmd = b.cmd /\ <<s, a>> \notin responses
      BY <1>1, <1>6 DEF ExecutionInv, CountedExecuted
    <3>2. PICK a \in executed[s] : a.cmd = b.cmd /\ <<s, a>> \notin responses
      BY <3>1
    <3>3. <<s, a>> # <<r, b>>
      BY <1>1, <3>2
    <3> QED
      BY <1>1, <3>2, <3>3, TwoResponses
  <2>2. CountedExecuted'
    <3> SUFFICES ASSUME NEW c \in Cmd \ doneMap', resMap'[c] # 0
                 PROVE  \E x \in Replica : \E y \in executed[x] :
                            y.cmd = c /\ <<x, y>> \notin responses'
      BY <1>1 DEF CountedExecuted
    <3>1. c \notin doneMap /\ resMap[c] # 0
      BY <1>1, <1>6 DEF Kept
    <3> QED
      BY <1>1, <3>1 DEF ExecutionInv, CountedExecuted
  <2> QED
    BY <1>2, <1>3, <1>6, <2>1, <2>2 DEF ExecutionInv
<1> QED
  BY <1>4, <1>5, <1>6 DEF SendResponse, r, b

LEMMA ProposeExecution ==
    ASSUME ClientInv, ExecutionInv, NEW r \in Replica, NEW v, HandleReq(r, v)
    PROVE  ExecutionInv'
<1>1. PICK b : b.proposer = r /\ Propose(b)
  BY DEF HandleReq
<1>2. /\ \A x \in proposed : x.view # b.view
      /\ \A x \in executed[r] : x.cmd # b.cmd
      /\ proposed' = proposed \cup {b}
      /\ UNCHANGED <<executed, responses, responseVars>>
  BY <1>1 DEF Propose, Chain, HandleReq
<1>3. b \notin executed[r]
  BY <1>2 DEF ClientInv, OnlySent
<1>4. OneBlockPerView' /\ ProposersAreReplicas' /\ ProposerFirst'
  BY <1>1, <1>2 DEF ExecutionInv, OneBlockPerView, ProposersAreReplicas,
                    ProposerFirst
<1>5. ProposerForgetsNothing'
  <2> SUFFICES ASSUME NEW x \in proposed', NEW y \in proposed',
                      x.proposer = y.proposer, x.view < y.view,
                      x \in executed[x.proposer]
               PROVE  x.cmd # y.cmd
    BY <1>2 DEF ProposerForgetsNothing
  <2>1. x # b
    BY <1>1, <1>3
  <2> QED
    BY <1>1, <1>2, <2>1 DEF ExecutionInv, ProposerForgetsNothing
<1>6. ResponsesExecuted' /\ CountedExecuted'
  BY <1>2 DEF ExecutionInv, ResponsesExecuted, CountedExecuted, responseVars
<1>7. \A c \in doneMap' : FinishedTwice(c)'
  BY <1>2 DEF ExecutionInv, FinishedTwice, IsFinished, responseVars
<1> QED
  BY <1>4, <1>5, <1>6, <1>7 DEF ExecutionInv

LEMMA RespondExecution ==
    ASSUME ClientInv, ExecutionInv, NEW r \in Replica, NEW b \in proposed,
           Respond(r, b)
    PROVE  ExecutionInv'
<1>1. /\ \A x \in executed[r] : x.view < b.view
      /\ executed' = [executed EXCEPT ![r] = @ \cup {b}]
      /\ responses' = responses \cup {<<r, b>>}
      /\ UNCHANGED <<proposed, resMap, doneMap>>
      /\ \/ /\ b.proposer = r
            /\ \A x \in proposed : x.proposer = r => x.view <= b.view
         \/ b \in executed[b.proposer]
  BY DEF Respond, Decide, Learn, Execute, responseVars
<1>2. /\ executed \in [Replica -> SUBSET Block] /\ b.view \in Nat
      /\ \A x \in proposed : x.view \in Nat
  BY DEF ClientInv, ClientTypeOK, Block, View
<1>3. b \notin executed[r]
  BY <1>1, <1>2
<1>4. \A s \in Replica : executed[s] \subseteq executed'[s]
  BY <1>1, <1>2
<1>5. OneBlockPerView' /\ ProposersAreReplicas'
  BY <1>1 DEF ExecutionInv, OneBlockPerView, ProposersAreReplicas
<1>6. ProposerFirst'
  <2> SUFFICES ASSUME NEW s \in Replica, NEW x \in executed'[s]
               PROVE  x \in executed'[x.proposer]
    BY DEF ProposerFirst
  <2>1. x \in proposed /\ x.proposer \in Replica
    BY <1>1, <1>2 DEF ClientInv, OnlySent, ExecutionInv, ProposersAreReplicas
  <2>2. CASE x \in executed[s]
    BY <1>4, <2>1, <2>2 DEF ExecutionInv, ProposerFirst
  <2>3. CASE x = b
    BY <1>1, <1>2, <1>4, <2>1, <2>3
  <2> QED
    BY <1>1, <1>2, <2>2, <2>3
<1>7. ProposerForgetsNothing'
  <2> SUFFICES ASSUME NEW x \in proposed, NEW y \in proposed,
                      x.proposer = y.proposer, x.view < y.view,
                      x \in executed'[x.proposer]
               PROVE  x.cmd # y.cmd
    BY <1>1 DEF ProposerForgetsNothing
  <2>1. CASE x \in executed[x.proposer]
    BY <2>1 DEF ExecutionInv, ProposerForgetsNothing
  <2>2. CASE x = b /\ x.proposer = r /\ x \notin executed[x.proposer]
    BY <1>1, <1>2, <2>2
  <2>3. x.proposer \in Replica
    BY DEF ExecutionInv, ProposersAreReplicas
  <2> QED
    BY <1>1, <1>2, <2>1, <2>2, <2>3
<1>8. ResponsesExecuted'
  <2> SUFFICES ASSUME NEW p \in responses' PROVE p[2] \in executed'[p[1]]
    BY DEF ResponsesExecuted
  <2>1. CASE p \in responses
    BY <1>4, <2>1 DEF ExecutionInv, ResponsesExecuted, ClientInv, OnlySent
  <2>2. CASE p = <<r, b>>
    BY <1>1, <1>2, <2>2
  <2> QED
    BY <1>1, <2>1, <2>2
<1>9. CountedExecuted'
  <2> SUFFICES ASSUME NEW c \in Cmd \ doneMap, resMap[c] # 0
               PROVE  \E x \in Replica : \E y \in executed'[x] :
                          y.cmd = c /\ <<x, y>> \notin responses'
    BY <1>1 DEF CountedExecuted
  <2>1. PICK x \in Replica : \E y \in executed[x] :
            y.cmd = c /\ <<x, y>> \notin responses
    BY DEF ExecutionInv, CountedExecuted
  <2>2. PICK y \in executed[x] : y.cmd = c /\ <<x, y>> \notin responses
    BY <2>1
  <2>3. <<x, y>> # <<r, b>>
    BY <1>3
  <2> QED
    BY <1>1, <1>4, <2>2, <2>3
<1>10. \A c \in doneMap' : FinishedTwice(c)'
  BY <1>1, <1>4 DEF ExecutionInv, FinishedTwice, IsFinished
<1> QED
  BY <1>5, <1>6, <1>7, <1>8, <1>9, <1>10 DEF ExecutionInv

LEMMA NextExecutionInv ==
    ClientInv /\ ExecutionInv /\ [ClientNext]_vars => ExecutionInv'
<1> SUFFICES ASSUME ClientInv, ExecutionInv, [ClientNext]_vars
             PROVE  ExecutionInv'
  OBVIOUS
<1>1. ASSUME UNCHANGED <<proposed, executed, responses, resMap, doneMap>>
      PROVE  ExecutionInv'
  BY <1>1 DEF ExecutionInv, OneBlockPerView, ProposersAreReplicas, ProposerFirst,
              ProposerForgetsNothing, ResponsesExecuted, CountedExecuted,
              FinishedTwice, IsFinished
<1>2. CASE SendRequest \/ Signal \/ Timeout \/ Wake \/ UNCHANGED vars
  BY <1>1, <1>2 DEF SendRequest, Signal, Timeout, Wake, vars, responseVars
<1> QED
  BY <1>2, SendResponseExecution, ProposeExecution, RespondExecution
     DEF ClientNext

LEMMA TwoAreEnough ==
    ASSUME F = 1, NEW c, FinishedTwice(c)
    PROVE  Cardinality({r \in Replica : IsFinished(r, c)}) >= F + 1
<1> DEFINE S == {r \in Replica : IsFinished(r, c)}
<1>1. PICK r \in Replica, s \in Replica : r # s /\ {r, s} \subseteq S
  BY DEF FinishedTwice
<1>2. IsFiniteSet(Replica)
  BY TotalNumberAssumption, FS_Interval DEF Replica
<1>3. IsFiniteSet(S)
  BY <1>2, FS_Subset
<1>4. IsFiniteSet({r}) /\ Cardinality({r}) = 1
  BY FS_Singleton
<1>5. Cardinality({r} \cup {s}) = 2
  BY <1>1, <1>4, FS_AddElement
<1>6. {r} \cup {s} \in SUBSET S
  BY <1>1
<1> HIDE DEF S
<1>7. Cardinality(S) >= 2
  <2>1. Cardinality({r} \cup {s}) <= Cardinality(S)
    BY <1>3, <1>6, FS_Subset
  <2>2. Cardinality(S) \in Nat
    BY <1>3, FS_CardinalityType
  <2> QED
    BY <1>5, <2>1, <2>2
<1> QED
  BY <1>7 DEF S

LEMMA ExecutionInvCorrect == ClientSpec => []ExecutionInv
<1>1. ClientInit => ClientInv /\ ExecutionInv
  BY InitClientInv, InitExecutionInv
<1>2. ClientInv /\ ExecutionInv /\ [ClientNext]_vars => (ClientInv /\ ExecutionInv)'
  BY NextClientInv, NextExecutionInv
<1> QED
  BY <1>1, <1>2, PTL DEF ClientSpec

\* The client takes no single replica's word: whatever the number of replicas,
\* two of them have executed a command that is answered, though SendResponse
\* counts responses and one replica may give all of them.
AnsweredByTwo == \A c \in doneMap : FinishedTwice(c)

THEOREM AnsweredByTwoCorrect == ClientSpec => []AnsweredByTwo
BY ExecutionInvCorrect, PTL DEF ExecutionInv, AnsweredByTwo

\* With four to six replicas, two are the F + 1 that are meant to have executed
\* a command that is answered.
THEOREM AnsweredIsExecutedCorrect ==
    ASSUME F = 1
    PROVE  ClientSpec => []AnsweredIsExecuted
<1>1. ExecutionInv => AnsweredIsExecuted
  BY TwoAreEnough DEF ExecutionInv, AnsweredIsExecuted
<1> QED
  BY <1>1, ExecutionInvCorrect, PTL
=============================================================================
