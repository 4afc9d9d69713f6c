---- MODULE MCTaskDispatch ----
(***************************************************************************)
(* Small instances of TaskDispatch.  Task 1 has a budget of one turn, so   *)
(* the news its creator sends it is refused and fails it; task 2 has none. *)
(***************************************************************************)
EXTENDS TaskDispatch, TLC

CONSTANTS l1, l2, l3

TurnBudget == [t \in Task |-> IF t = 1 THEN 1 ELSE 0]

FromOwner == {"started", "asked", "done"}
FromCreator == {"replied", "note", "canceled"}

AllRequests == (Task \X {"owner"} \X FromOwner) \cup (Task \X {"creator"} \X FromCreator)

\* As the machinery is meant to be used, a task with a turn budget is not canceled: its run
\* starts, asks, is answered and is done; the other task is annotated and canceled too.
NoCancelOverBudget ==
    {<<1, "owner", "started">>, <<1, "owner", "asked">>, <<1, "owner", "done">>,
     <<1, "creator", "replied">>,
     <<2, "owner", "started">>, <<2, "creator", "note">>, <<2, "creator", "canceled">>}

LaneSymmetry == Permutations(Lanes)
====
