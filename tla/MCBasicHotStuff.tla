--------------------------- MODULE MCBasicHotStuff ---------------------------
(***************************************************************************)
(* BasicHotStuff on small instances.  The runs with many schedules keep to *)
(* those in which one replica, Prompt, handles what reaches it at once and *)
(* in a fixed order.  Those of the others, and all timeouts and losses,    *)
(* are free.                                                               *)
(***************************************************************************)
EXTENDS BasicHotStuff, TLC

CONSTANTS
    c1, c2, c3,
    Prompt  \* bound: the replicas that handle their messages at once

OneCmd == {c1}
TwoCmds == {c1, c2}
ThreeCmds == {c1, c2, c3}

\* Commands are interchangeable.
Symmetry == Permutations(Cmd)

\* Who may time out, and where.
Nobody == {}
QuorumInView1 == {0, 2, 3} \X {1}
AnyoneInView1 == Replica \X {1}

\* The replicas of Prompt that have something to handle.
Busy ==
    {r \in Prompt :
        /\ status[r] = "up"
        /\ chasing[r] \/ hand[r] # {} \/ \E s \in Replica : net[s][r] # <<>>}

\* The busy replica of Prompt that is served first, and its first link.
First(S) == CHOOSE r \in S : \A x \in S : r <= x

Serve(r) ==
    IF Idle(r)
    THEN Receive(r, First({s \in Replica : net[s][r] # <<>>}))
    ELSE Chase(r) \/ HandleHeld(r)

PromptNext ==
    \/ Busy = {} /\ Next
    \/ Busy # {} /\ Serve(First(Busy))
    \/ \E r \in Replica : Timeout(r)
    \/ \E r, s \in Replica : Lose(r, s)

PromptSpec == Init /\ [][PromptNext]_vars

PromptFairSpec == PromptSpec /\ Fairness
=============================================================================
