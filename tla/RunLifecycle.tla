---- MODULE RunLifecycle ----
(***************************************************************************)
(* What the engine promises of a run, whatever its document: a run starts  *)
(* with work, goes on by work or by an event that joins it while it lives, *)
(* is sunk only once it has no work, has its end recorded and is           *)
(* forgotten.  From its sinking on it never has any work, unless an event  *)
(* joins it before it is forgotten.                                        *)
(* It is termination detection for a set of independent runs: `busy` is    *)
(* the truth, `phase` is what the engine believes.  One step of the engine *)
(* may sink several runs, so a step moves every run at once.               *)
(***************************************************************************)
CONSTANT Runs

VARIABLES
    phase,
    busy,
    rejoined  \* rejoined[r]: an event joined r after it had sunk

vars == <<phase, busy, rejoined>>

Init ==
    /\ phase = [r \in Runs |-> "none"]
    /\ busy = [r \in Runs |-> FALSE]
    /\ rejoined = [r \in Runs |-> FALSE]

Becomes(r, p, b) == phase'[r] = p /\ busy'[r] = b /\ rejoined'[r] = rejoined[r]

Start(r) == phase[r] = "none" /\ Becomes(r, "live", TRUE)

\* Work goes on, or its last piece ends, noticed at once or not.
Work(r) ==
    /\ phase[r] = "live" /\ busy[r]
    /\ \/ Becomes(r, "live", TRUE)
       \/ Becomes(r, "live", FALSE)
       \/ Becomes(r, "sunk", FALSE)

\* An event joins a run whose work has ended but was not noticed to.
Join(r) == phase[r] = "live" /\ ~busy[r] /\ Becomes(r, "live", TRUE)

Detect(r) == phase[r] = "live" /\ ~busy[r] /\ Becomes(r, "sunk", FALSE)

Record(r) == phase[r] = "sunk" /\ Becomes(r, "ended", busy[r])

Forget(r) == phase[r] = "ended" /\ Becomes(r, "gone", busy[r])

\* An event joins a run that is being finalized ...
Rejoin(r) ==
    /\ phase[r] \in {"sunk", "ended"}
    /\ phase'[r] = phase[r] /\ busy'[r] = TRUE /\ rejoined'[r] = TRUE

\* ... whose work goes on, and ends, beside the finalization.
LateWork(r) ==
    /\ phase[r] \in {"sunk", "ended", "gone"} /\ rejoined[r] /\ busy[r]
    /\ \E b \in BOOLEAN : Becomes(r, phase[r], b)

Stays(r) == Becomes(r, phase[r], busy[r])

Next ==
    \A r \in Runs :
        \/ Start(r) \/ Work(r) \/ Join(r) \/ Detect(r)
        \/ Record(r) \/ Forget(r) \/ Rejoin(r) \/ LateWork(r) \/ Stays(r)

Spec == Init /\ [][Next]_vars
====
