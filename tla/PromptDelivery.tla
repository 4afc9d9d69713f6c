---------------------------- MODULE PromptDelivery ----------------------------
(***************************************************************************)
(* What the prompt queue of a process promises of a prompt, whatever       *)
(* objects, drains and edges it takes: a prompt has the process to itself  *)
(* from its setup to the end of its work; a queued one is set up again     *)
(* only when its setup failed, so once its work has started it is never    *)
(* delivered again; removed, it never starts.                              *)
(***************************************************************************)
CONSTANTS
    Queued,  \* prompts put on the queue
    Direct   \* prompts sent without it

Prompt == Queued \cup Direct

VARIABLE state

States == {"new", "waiting", "setup", "running", "over", "removed", "lost"}

Init == state = [p \in Prompt |-> "new"]

\* One prompt moves, the others stay.
Becomes(p, s) == state' = [state EXCEPT ![p] = s]

Accept(p) == p \in Queued /\ state[p] = "new" /\ Becomes(p, "waiting")

\* The user removes prompts that wait: one, or all that are on the queue.
Remove(some) ==
    /\ \A p \in some : p \in Queued /\ state[p] = "waiting"
    /\ state' = [p \in Prompt |-> IF p \in some THEN "removed" ELSE state[p]]

\* Nobody else has the process.
Alone == \A p \in Prompt : state[p] \notin {"setup", "running"}

Setup(p) ==
    /\ state[p] = (IF p \in Queued THEN "waiting" ELSE "new") /\ Alone
    /\ Becomes(p, "setup")

\* A setup fails: a queued prompt waits on, a direct one is given up.
SetupFails(p) ==
    /\ state[p] = "setup"
    /\ Becomes(p, IF p \in Queued THEN "waiting" ELSE "over")

\* A prompt that was not delivered cannot be written back.
Lose(p) == p \in Queued /\ state[p] \in {"waiting", "setup"} /\ Becomes(p, "lost")

Run(p) == state[p] = "setup" /\ Becomes(p, "running")

End(p) == state[p] = "running" /\ Becomes(p, "over")

Next ==
    \/ \E p \in Prompt :
          Accept(p) \/ Setup(p) \/ SetupFails(p) \/ Lose(p) \/ Run(p) \/ End(p)
    \/ \E some \in SUBSET Queued : Remove(some)

Spec == Init /\ [][Next]_state
===============================================================================
