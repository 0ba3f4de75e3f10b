---------------------------- MODULE MCSixReplicas ----------------------------
(***************************************************************************)
(* BasicHotStuff with six replicas, the one number in 4..16 for which two  *)
(* quorums may be disjoint: F is 1 and a quorum has 3 replicas.            *)
(* PartitionSpec keeps to the executions in which the links between two    *)
(* halves deliver only the proposal of the first view, the rest being      *)
(* late.                                                                   *)
(***************************************************************************)
EXTENDS BasicHotStuff

CONSTANTS c1, c2

TwoCmds == {c1, c2}

LeaderSide == {0, 1, 3}
OtherSide == {2, 4, 5}

\* The replicas that hear no more of the first leader give its view up.
OtherSideInView1 == OtherSide \X {1}

\* A message that crosses the partition is received only if it is a proposal.
Partition ==
    \A s, r \in Replica :
        \/ net'[s][r] = net[s][r]
        \/ {s, r} \subseteq LeaderSide \/ {s, r} \subseteq OtherSide
        \/ Len(net'[s][r]) > Len(net[s][r])
        \/ Head(net[s][r]).type = "Prepare"

PartitionSpec == Init /\ [][Next /\ Partition]_vars
=============================================================================
