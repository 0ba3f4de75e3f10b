------------------------------ MODULE Agreement ------------------------------
(***************************************************************************)
(* What consensus/consensus.go promises, with or without the pacemaker:    *)
(* the blocks that are proposed and those that replicas execute, and none  *)
(* of the messages, views, locks and timeouts that bring it about.         *)
(***************************************************************************)
EXTENDS BlockChain

VARIABLES
    proposed,  \* every block proposed so far
    executed   \* the blocks each replica executed

Chain == proposed \cup {Genesis}
Decided == UNION {executed[r] : r \in Replica}

\* Certificates that a block may extend: of genesis or an earlier block, or
\* none at all.
CertsBefore(v) ==
    {ZeroQC, GenesisQC} \cup {CreateQuorumCert(b) : b \in {x \in proposed : x.view < v}}

\* A leader proposes once per view, and no command that it has executed.
Propose(b) ==
    /\ b \in Block
    /\ b.proposer = GetLeaderByView(b.view)
    /\ b.cert \in CertsBefore(b.view)
    /\ \A x \in Chain : x.view # b.view /\ x.hash # b.hash
    /\ b.hash # ZeroHash
    /\ \A x \in executed[b.proposer] : x.cmd # b.cmd
    /\ proposed' = proposed \cup {b}
    /\ UNCHANGED executed

\* Replicas execute blocks in the order of their views, and may miss some.
Execute(r, b) ==
    /\ b \in proposed
    /\ \A x \in executed[r] : x.view < b.view
    /\ executed' = [executed EXCEPT ![r] = @ \cup {b}]
    /\ UNCHANGED proposed

\* Of two decided blocks the later one extends the other.
Agrees(b) ==
    \A x \in Decided : IF x.view <= b.view THEN Extends(Chain, b, x)
                                           ELSE Extends(Chain, x, b)

\* The first replica to execute a block is the one that proposed it, before it
\* leads a view again.
Decide(r, b) ==
    /\ b.proposer = r
    /\ \A x \in proposed : x.proposer = r => x.view <= b.view
    /\ Agrees(b)
    /\ Execute(r, b)

Learn(r, b) == b \in executed[b.proposer] /\ Execute(r, b)

Init ==
    /\ proposed = {}
    /\ executed = [r \in Replica |-> {}]

Next ==
    \/ \E b \in proposed' \ proposed : Propose(b)
    \/ \E r \in Replica : \E b \in proposed : Decide(r, b) \/ Learn(r, b)

Spec == Init /\ [][Next]_<<proposed, executed>>
=============================================================================
