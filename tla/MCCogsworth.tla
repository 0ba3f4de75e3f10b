---------------------------- MODULE MCCogsworth ----------------------------
(***************************************************************************)
(* Cogsworth on small instances.  Four replicas have more schedules than   *)
(* can be enumerated, so the runs keep to those in which some replicas,    *)
(* Prompt, handle what reaches them at once and in a fixed order.  Those   *)
(* of the others, and all timeouts and losses, are free.                   *)
(***************************************************************************)
EXTENDS Cogsworth, TLC

CONSTANTS
    c1, c2,
    Prompt  \* bound: the replicas that handle their messages at once

OneCmd == {c1}
TwoCmds == {c1, c2}
Symmetry == Permutations(Cmd)

\* Who may time out, and where.
QuorumInView1 == {0, 2, 3} \X {1}
QuorumInTwoViews == {0, 2, 3} \X {1, 2}
OthersInTwoViews == {0, 1, 2} \X {1, 2} \cup {<<3, 1>>}

\* The replicas of Prompt that have something to handle.
Busy ==
    {r \in Prompt :
        /\ status[r] = "up"
        /\ chasing[r] \/ hand[r] # {} \/ \E s \in Replica : net[s][r] # <<>>}

\* The busy replica of Prompt that is served first, and its first link.
First(S) == CHOOSE r \in S : \A x \in S : r <= x

Serve(r) ==
    IF Idle(r)
    THEN Receive(r, First({s \in Replica : net[s][r] # <<>>}))
    ELSE Chase(r) \/ HandleHeld(r)

PromptNext ==
    \/ Busy = {} /\ CogsworthNext
    \/ Busy # {} /\ Serve(First(Busy))
    \/ \E r \in Replica : Timeout(r)
    \/ \E r, s \in Replica : Lose(r, s) /\ UNCHANGED pacemakerVars

PromptSpec == CogsworthInit /\ [][PromptNext]_cogsworthVars
=============================================================================
