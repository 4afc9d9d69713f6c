------------------------------ MODULE TaskLedger ------------------------------
(***************************************************************************)
(* What the ledger promises of a delegated task, whoever writes its row:   *)
(* it never goes back to submitted, it asks only while it is at work, it   *)
(* is at work, asks or is done only once a run is stamped on it, the stamp *)
(* is never lost, and nothing follows its end.  All of it until the row is *)
(* overwritten by a writer that had not read it: from then on the ledger   *)
(* promises nothing of that task.                                          *)
(***************************************************************************)
CONSTANT Task

VARIABLES
    status,  \* status[t]: what the row of t says
    manned   \* manned[t]: a run is stamped on it

vars == <<status, manned>>

Init == status = [t \in Task |-> "none"] /\ manned = [t \in Task |-> FALSE]

Becomes(t, s) == status' = [status EXCEPT ![t] = s] /\ UNCHANGED manned

Create(t) == status[t] = "none" /\ Becomes(t, "submitted")

\* A run is stamped on a task, in whatever status: the first one, or another.
Attach(t) ==
    /\ status[t] \notin {"none", "overwritten"}
    /\ manned' = [manned EXCEPT ![t] = TRUE]
    /\ UNCHANGED status

IsOpen(t) == status[t] \in {"submitted", "working", "input_required"}

\* The run reports that it has started, or goes on with an answer ...
Work(t) == IsOpen(t) /\ manned[t] /\ Becomes(t, "working")

\* ... that it needs one ...
Ask(t) == status[t] = "working" /\ manned[t] /\ Becomes(t, "input_required")

\* ... or that it is through.
Finish(t) == IsOpen(t) /\ manned[t] /\ Becomes(t, "done")

\* Failure and cancellation come with or without a run.
End(t) == IsOpen(t) /\ \E s \in {"failed", "canceled"} : Becomes(t, s)

Overwrite(t) ==
    /\ status[t] # "none"
    /\ status' = [status EXCEPT ![t] = "overwritten"]
    /\ manned' = [manned EXCEPT ![t] = FALSE]

Next ==
    \E t \in Task :
        Create(t) \/ Attach(t) \/ Work(t) \/ Ask(t) \/ Finish(t) \/ End(t) \/ Overwrite(t)

Spec == Init /\ [][Next]_vars
===============================================================================
