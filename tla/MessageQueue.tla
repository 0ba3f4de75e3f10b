---------------------------- MODULE MessageQueue ----------------------------
(***************************************************************************)
(* service/queue.go: the messages a replica keeps for views it has not     *)
(* reached.  The queue is a set of messages: Sort orders each view's slice *)
(* by type only, with a sort that is not stable, so among messages of one  *)
(* type the one that comes out is any of them.                             *)
(***************************************************************************)
EXTENDS Integers

\* msgPriority: the later the phase, the higher the priority.
MsgPriority ==
    [WishNextView |-> 0, Timeout |-> 1, TimeoutVote |-> 2, NewView |-> 3,
     Prepare |-> 4, PrepareVote |-> 5, PreCommit |-> 6, PreCommitVote |-> 7,
     Commit |-> 8, CommitVote |-> 9, Decide |-> 10]

QueuedFor(q, v) == {m \in q : m.view = v}

\* Mutant: a message of a later view is dropped.
Put_Dropping(q, m) == q

Put(q, m) == q \cup {m}

\* The messages that Pop(v) may return: it takes the last one after Sort.
Last(q, v) ==
    {m \in QueuedFor(q, v) :
        \A x \in QueuedFor(q, v) : MsgPriority[x.type] <= MsgPriority[m.type]}

\* Pop also deletes the queue of view v - 100.  The subtraction is unsigned:
\* below 100 it names a view that is never reached, so nothing is deleted.
Pop(q, v, m) == {x \in q \ {m} : x.view # v - 100}

\* Pop(v) until nothing is left.
PopAll(q, v) == {x \in q : x.view \notin {v, v - 100}}
=============================================================================
