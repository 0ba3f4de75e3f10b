---------------------------- MODULE NodeManager ----------------------------
(***************************************************************************)
(* service/node.go: who the replicas are, how many of them make a quorum,  *)
(* which of them mock a fault, and who leads a view.                       *)
(***************************************************************************)
EXTENDS Integers

CONSTANTS
    TotalNumber,  \* --total_number of the command line
    FaultNumber   \* --fault_number: how many replicas mock a fault

\* CalQuorumSize panics outside 4..16.
ASSUME TotalNumberAssumption == TotalNumber \in 4..16
ASSUME FaultNumberAssumption == FaultNumber \in Nat

Replica == 0 .. TotalNumber - 1
View == Nat

F == (TotalNumber - 1) \div 3
QuorumSize == 2 * F + 1

\* Replicas 3, 6, 9, ... mock a fault: they vote without a signature, and
\* as leaders they never form a certificate from the prepare votes.
FaultNodes == {3 * i : i \in 1..FaultNumber}
IsFaultNode(r) == r \in FaultNodes

GetLeaderByView(v) == v % TotalNumber
=============================================================================
