----------------------------- MODULE BatchLedger -----------------------------
(***************************************************************************)
(* What a batch promises the people who read its ledger, without pumps,    *)
(* runs or files: how an item may move, how many may be launched, and when *)
(* the batch is over.  Orchestrator implements it.                         *)
(***************************************************************************)
EXTENDS Integers, FiniteSets

CONSTANTS Items, Cap

VARIABLES status, completed

vars == <<status, completed>>

Settled == {"done", "failed", "cancelled"}
Waiting == {"proposed", "queued"}

\* Where one step may take an item.  One step may take several: an approval
\* queues and launches, a failed fork fails the whole queue.
Moves ==
    [proposed  |-> {"queued", "running", "cancelled"},
     queued    |-> {"running", "failed", "cancelled"},
     running   |-> {"paused", "done", "failed"},
     paused    |-> {"running", "failed", "cancelled"},
     done      |-> {},
     failed    |-> {"queued", "running"},
     cancelled |-> {"queued", "running"}]

Running   == {i \in Items : status[i] = "running"}
Launched  == {i \in Running' : status[i] \in Waiting \cup {"failed", "cancelled"}}
AllSettled == \A i \in Items : status[i] \in Settled

Init ==
    /\ status \in [Items -> Waiting \cup {"running"}]
    /\ Cardinality(Running) <= Cap
    /\ completed = FALSE

\* A launch needs a slot; a batch is complete only when every item is settled,
\* and reopens only when something settled is tried again.
Step ==
    /\ \A i \in Items : status'[i] = status[i] \/ status'[i] \in Moves[status[i]]
    /\ Launched # {} => Cardinality(Running') <= Cap
    /\ completed' => AllSettled'
    /\ completed /\ ~completed' => ~AllSettled'

Spec == Init /\ [][Step]_vars
=============================================================================
