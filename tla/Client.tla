-------------------------------- MODULE Client --------------------------------
(***************************************************************************)
(* server/client.go with service/cmd.go: the client, the requests that     *)
(* wait in the replicas, and the replicas as Agreement describes them.     *)
(* Two goroutines of the client meet at the channel Chan:                  *)
(*                                                                         *)
(*  - SendRequests sends one command at a time to all replicas and waits   *)
(*    for Chan or for a timeout, after which it sleeps and sends it again. *)
(*  - SendResponse, which the connections from the replicas call, counts   *)
(*    the responses to a command under a mutex and with the last one       *)
(*    offers Chan, which has no buffer, without leaving the mutex.         *)
(***************************************************************************)
EXTENDS Agreement, Sequences, FiniteSets

CONSTANTS
    MaxView,   \* bound: no proposal in a later view
    MaxResend  \* bound on the timeouts of the client

\* The client numbers its commands.
ASSUME CmdAssumption == IsFiniteSet(Cmd) /\ Cmd = 1..Cardinality(Cmd)
ASSUME ClientBoundsAssumption == MaxView \in Nat /\ MaxResend \in Nat

VARIABLES
    current,   \* i of SendRequests
    phase,     \* where SendRequests is
    resends,   \* how often it timed out
    channel,   \* CmdCache.channel and the link from the client, per replica
    responses, \* responses under way: <<replica, block>>
    resMap,    \* how many responses to a command are kept
    doneMap,   \* commands with enough responses
    offered    \* what the SendResponse that holds the mutex waits to say

clientVars == <<current, phase, resends>>
responseVars == <<resMap, doneMap, offered>>
vars == <<proposed, executed, clientVars, channel, responses, responseVars>>

-----------------------------------------------------------------------------
(* SendRequests. *)

\* With every command answered the client exits.
SendRequest ==
    /\ phase = "send" /\ current \in Cmd
    /\ channel' = [r \in Replica |-> Append(channel[r], current)]
    /\ phase' = "wait"
    /\ UNCHANGED <<proposed, executed, current, resends, responses, responseVars>>

\* Chan: on to the next command.
Signal ==
    /\ phase = "wait" /\ offered # {}
    /\ offered' = {}
    /\ current' = current + 1
    /\ phase' = "send"
    /\ UNCHANGED <<proposed, executed, resends, channel, responses, resMap, doneMap>>

Timeout ==
    /\ phase = "wait" /\ resends < MaxResend
    /\ phase' = "sleep"
    /\ resends' = resends + 1
    /\ UNCHANGED <<proposed, executed, current, channel, responses, responseVars>>

\* Mutant: the client gives up after a timeout, as a comment has it.
Wake_Exit ==
    /\ phase = "sleep"
    /\ phase' = "exit"
    /\ UNCHANGED <<proposed, executed, current, resends, channel, responses,
                   responseVars>>

Wake ==
    /\ phase = "sleep"
    /\ phase' = "send"
    /\ UNCHANGED <<proposed, executed, current, resends, channel, responses,
                   responseVars>>

-----------------------------------------------------------------------------
(* SendResponse. *)

Kept(c, n) == resMap' = [resMap EXCEPT ![c] = n]

\* Mutant: a command that was answered is not remembered.
SendResponse_Forgetful(r, b) ==
    /\ <<r, b>> \in responses /\ offered = {}
    /\ responses' = responses \ {<<r, b>>}
    /\ \/ /\ resMap[b.cmd] = 0 \/ resMap[b.cmd] + 1 < F + 1
          /\ Kept(b.cmd, resMap[b.cmd] + 1)
          /\ UNCHANGED <<doneMap, offered>>
       \/ /\ resMap[b.cmd] # 0 /\ resMap[b.cmd] + 1 >= F + 1
          /\ Kept(b.cmd, 0)
          /\ doneMap' = doneMap \cup {b.cmd}
          /\ offered' = {b.cmd}
    /\ UNCHANGED <<proposed, executed, clientVars, channel>>

\* Mutant: F responses are enough.
SendResponse_Early(r, b) ==
    /\ <<r, b>> \in responses /\ offered = {}
    /\ responses' = responses \ {<<r, b>>}
    /\ \/ /\ b.cmd \in doneMap
          /\ UNCHANGED responseVars
       \/ /\ b.cmd \notin doneMap
          /\ resMap[b.cmd] + 1 >= F
          /\ Kept(b.cmd, 0)
          /\ doneMap' = doneMap \cup {b.cmd}
          /\ offered' = {b.cmd}
    /\ UNCHANGED <<proposed, executed, clientVars, channel>>

\* The mutex is free when no other SendResponse offers Chan.  Who responds is
\* not looked at.
SendResponse(r, b) ==
    /\ <<r, b>> \in responses /\ offered = {}
    /\ responses' = responses \ {<<r, b>>}
    /\ \/ /\ b.cmd \in doneMap
          /\ UNCHANGED responseVars
       \/ /\ b.cmd \notin doneMap
          /\ resMap[b.cmd] = 0 \/ resMap[b.cmd] + 1 < F + 1
          /\ Kept(b.cmd, resMap[b.cmd] + 1)
          /\ UNCHANGED <<doneMap, offered>>
       \/ /\ b.cmd \notin doneMap
          /\ resMap[b.cmd] # 0 /\ resMap[b.cmd] + 1 >= F + 1
          /\ Kept(b.cmd, 0)
          /\ doneMap' = doneMap \cup {b.cmd}
          /\ offered' = {b.cmd}
    /\ UNCHANGED <<proposed, executed, clientVars, channel>>

-----------------------------------------------------------------------------
(* The replicas. *)

IsFinished(r, c) == \E b \in executed[r] : b.cmd = c

\* The places in the channel whose command is not finished.
Unfinished(r) == {i \in DOMAIN channel[r] : ~IsFinished(r, channel[r][i])}

\* HandleReq of the leader of v: it takes commands until one is not finished
\* and proposes it.
HandleReq(r, v) ==
    /\ \E i \in Unfinished(r) :
        /\ \A j \in Unfinished(r) : i <= j
        /\ \E qc \in CertsBefore(v) :
              Propose([hash |-> <<r, v + 1>>, view |-> v, proposer |-> r,
                       cmd |-> channel[r][i], cert |-> qc])
        /\ channel' = [channel EXCEPT ![r] = SubSeq(@, i + 1, Len(@))]
    /\ UNCHANGED <<clientVars, responses, responseVars>>

\* A replica that executes a block tells the client.
Respond(r, b) ==
    /\ Decide(r, b) \/ Learn(r, b)
    /\ responses' = responses \cup {<<r, b>>}
    /\ UNCHANGED <<clientVars, channel, responseVars>>

-----------------------------------------------------------------------------

ClientInit ==
    /\ Init
    /\ current = 1
    /\ phase = "send"
    /\ resends = 0
    /\ channel = [r \in Replica |-> <<>>]
    /\ responses = {}
    /\ resMap = [c \in Cmd |-> 0]
    /\ doneMap = {}
    /\ offered = {}

ClientNext ==
    \/ SendRequest
    \/ Signal
    \/ Timeout
    \/ Wake
    \/ \E p \in responses : SendResponse(p[1], p[2])
    \/ \E r \in Replica, v \in 1..MaxView : HandleReq(r, v)
    \/ \E r \in Replica, b \in proposed : Respond(r, b)

ClientSpec == ClientInit /\ [][ClientNext]_vars

\* The goroutine of SendRequests keeps running, and its select, which chooses
\* at random among the channels that are ready, does not always miss Chan.
ClientFairSpec ==
    /\ ClientSpec
    /\ WF_vars(SendRequest)
    /\ WF_vars(Wake)
    /\ SF_vars(Signal)

-----------------------------------------------------------------------------
(* Properties. *)

ClientTypeOK ==
    /\ proposed \in SUBSET Block
    /\ executed \in [Replica -> SUBSET Block]
    /\ current \in Nat /\ resends \in 0..MaxResend
    /\ phase \in {"send", "wait", "sleep"}
    /\ channel \in [Replica -> Seq(Cmd)]
    /\ responses \in SUBSET (Replica \X Block)
    /\ resMap \in [Cmd -> Nat]
    /\ {doneMap, offered} \subseteq SUBSET Cmd

\* The client is told of a command exactly when it waits for that command: a
\* late response never confirms the next command, nor is a signal lost in the
\* sleep after a timeout.
AnsweredInOrder ==
    /\ offered \subseteq {current}
    /\ doneMap = {c \in Cmd : c < current} \cup offered

\* With four to six replicas, where F is 1: F + 1 replicas have executed the
\* command that is answered.  The responses are counted, not the replicas, and
\* one replica may respond twice, for a command is proposed again when it is
\* resent to a leader that missed it; but then two leaders were involved.
AnsweredIsExecuted ==
    \A c \in doneMap :
        Cardinality({r \in Replica : IsFinished(r, c)}) >= F + 1

\* The mutex that SendResponse holds while it offers Chan is always released.
OfferTaken == offered # {} ~> offered = {}
=============================================================================
