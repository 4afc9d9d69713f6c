----------------------------- MODULE PromptQueue -----------------------------
(***************************************************************************)
(* The prompt queue of one headless process and the turns that empty it:   *)
(* the queue file (prompt_queue.py), the drains that take its head, the    *)
(* one turn slot direct prompts compete for (agentic_process.py), and the  *)
(* life of a print-mode turn (cli_drivers/headless_turn.py).               *)
(*                                                                         *)
(* Every request loads an object of its own for the process; what follows  *)
(* from the request (its drain, its turn, the drains they schedule) runs   *)
(* on that object, with the status it held when it was loaded and a        *)
(* _turn_in_flight flag nobody else sees.  The queue file, the slot and    *)
(* the stored row are shared.                                              *)
(***************************************************************************)
EXTENDS Integers, Sequences, FiniteSets

CONSTANTS
    Queued,     \* prompts put on the queue
    Staged,     \* those that input() may put there, without a drain
    Direct,     \* prompts sent without it, by prompt()
    Objects,    \* objects loaded for the process
    NoPrompt,   \* no prompt, and the free slot
    Failing,    \* prompts whose setup may fail
    Raising,    \* prompts whose launch may raise once the worker is registered
    Abroad,     \* answers of turn_owned_elsewhere: {FALSE} if no other OS process runs turns
    MaxFaults,  \* bound: failed setups, launches, spawns and writes of the queue file
    MaxEdits    \* bound: entries removed, queue switched off or on, drains asked for

Prompt == Queued \cup Direct

ASSUME PromptQueueAssumption ==
    /\ Queued \cap Direct = {} /\ NoPrompt \notin Prompt /\ Objects # {}
    /\ Staged \subseteq Queued /\ Failing \subseteq Prompt /\ Raising \subseteq Prompt
    /\ Abroad \subseteq BOOLEAN
    /\ MaxFaults \in Nat /\ MaxEdits \in Nat

VARIABLES
    queue,     \* the entries of the queue file, oldest first
    enabled,   \* its switch
    row,       \* stored status: "cold" (it can be started) or "running"
    object,    \* object[o]: a loaded copy of the status, and _turn_in_flight
    request,   \* request[o]: a request that will schedule a drain when it has announced
    due,       \* objects with a drain that is scheduled or waits for the queue's lock
    turn,      \* turn[p]: how far prompt p has come, and on which object
    admission, \* _PROMPT_ADMISSIONS: the prompt that holds the slot in setup
    worker,    \* _PROMPT_WORKERS: the prompt whose worker holds it
    task,      \* _PROMPT_TASKS: the prompt of the turn started last
    gone,      \* history: prompts removed by the user
    lost,      \* history: popped prompts that could not be written back
    left,      \* history: the queue was left to whoever comes next, and nobody has come
    faults,    \* failures so far
    edits      \* edits so far

vars == <<queue, enabled, row, object, request, due, turn, admission, worker, task,
          gone, lost, left, faults, edits>>

Status == {"cold", "running"}
Phase == {"none", "popped", "handed", "setup", "marked", "starting", "working", "failing",
          "teardown", "ending", "done"}
Anywhere == CHOOSE o \in Objects : TRUE

Init ==
    /\ queue = <<>> /\ enabled = TRUE /\ row = "cold"
    /\ object = [o \in Objects |-> [status |-> "cold", flying |-> FALSE]]
    /\ request = [o \in Objects |-> FALSE] /\ due = {}
    /\ turn = [p \in Prompt |-> [phase |-> "none", on |-> Anywhere]]
    /\ admission = NoPrompt /\ worker = NoPrompt /\ task = NoPrompt
    /\ gone = {} /\ lost = {} /\ left = FALSE /\ faults = 0 /\ edits = 0

InQueue(p) == \E i \in DOMAIN queue : queue[i] = p
In(p, phases) == turn[p].phase \in phases
Under(p) == ~In(p, {"none", "done"})

\* A drain has popped p and announces it: it has the queue's lock.
Locked == \E p \in Queued : In(p, {"popped"})

\* A queued prompt somebody has asked for, wherever it is now.
Accepted(p) == InQueue(p) \/ ~In(p, {"none"}) \/ p \in gone \cup lost

\* An object that nothing refers to any more; the next request loads another one.
Loose(o) == ~request[o] /\ o \notin due /\ \A p \in Prompt : Under(p) => turn[p].on # o

Load(o) == object' = [object EXCEPT ![o] = [status |-> row, flying |-> FALSE]]
Move(p, phase) == turn' = [turn EXCEPT ![p].phase = phase]

\* Drains are scheduled: whoever comes next has come.
Schedule(some) == due' = due \cup some /\ left' = (left /\ some = {})

-----------------------------------------------------------------------------
(* Requests.                                                               *)

\* enqueue, submit and give_turn: the entry is in the file before the announcement,
\* the drain comes after it.
Enqueue(o, p) ==
    /\ Loose(o) /\ Load(o)
    /\ ~Accepted(p)
    /\ queue' = Append(queue, p)
    /\ request' = [request EXCEPT ![o] = TRUE]
    /\ left' = FALSE
    /\ UNCHANGED <<enabled, row, due, turn, admission, worker, task, gone, lost, faults, edits>>

\* input: the entry, and no drain; a submit without text (DrainQueue) is to follow.
Stage(p) ==
    /\ p \in Staged /\ ~Accepted(p)
    /\ queue' = Append(queue, p)
    /\ left' = TRUE
    /\ UNCHANGED <<enabled, row, object, request, due, turn, admission, worker, task, gone,
                   lost, faults, edits>>

Announced(o) ==
    /\ request[o]
    /\ request' = [request EXCEPT ![o] = FALSE]
    /\ Schedule({o})
    /\ UNCHANGED <<queue, enabled, row, object, turn, admission, worker, task, gone, lost,
                   faults, edits>>

\* drain-queue, and submit without text: a drain, and nothing else.
DrainQueue(o) ==
    /\ Loose(o) /\ Load(o) /\ edits < MaxEdits
    /\ edits' = edits + 1
    /\ Schedule({o})
    /\ UNCHANGED <<queue, enabled, row, request, turn, admission, worker, task, gone, lost, faults>>

\* dequeue takes one entry out, clear-queue all.
Without(i) == [j \in 1..(Len(queue) - 1) |-> queue[IF j < i THEN j ELSE j + 1]]

Dequeue(i) ==
    /\ i \in DOMAIN queue /\ edits < MaxEdits
    /\ edits' = edits + 1
    /\ queue' = Without(i)
    /\ gone' = gone \cup {queue[i]}
    /\ UNCHANGED <<enabled, row, object, request, due, turn, admission, worker, task, lost,
                   left, faults>>

ClearQueue ==
    /\ edits < MaxEdits
    /\ edits' = edits + 1
    /\ queue' = <<>>
    /\ gone' = gone \cup {p \in Queued : InQueue(p)}
    /\ UNCHANGED <<enabled, row, object, request, due, turn, admission, worker, task, lost,
                   left, faults>>

\* set-queue-enabled: switching on is followed by a drain.
Enable(o) ==
    /\ Loose(o) /\ Load(o) /\ ~enabled
    /\ enabled' = TRUE
    /\ request' = [request EXCEPT ![o] = TRUE]
    /\ left' = FALSE
    /\ UNCHANGED <<queue, row, due, turn, admission, worker, task, gone, lost, faults, edits>>

Disable ==
    /\ enabled /\ edits < MaxEdits
    /\ enabled' = FALSE /\ edits' = edits + 1
    /\ UNCHANGED <<queue, row, object, request, due, turn, admission, worker, task, gone, lost,
                   left, faults>>

-----------------------------------------------------------------------------
(* The slot.                                                               *)

\* Mutant of Free: a worker does not keep the next setup out.
FreeOfSetups == admission = NoPrompt

\* try_admit_prompt: neither a setup nor a worker holds the slot.
Free == admission = NoPrompt /\ worker = NoPrompt

\* prompt() on an object of its own; refused, it says so and ends.
Ask(o, p) ==
    /\ Loose(o) /\ Load(o) /\ Free
    /\ p \in Direct /\ In(p, {"none"})
    /\ admission' = p
    /\ turn' = [turn EXCEPT ![p] = [phase |-> "setup", on |-> o]]
    /\ UNCHANGED <<queue, enabled, row, request, due, worker, task, gone, lost, left, faults, edits>>

\* The turn's task has not returned from its tail.
TaskActive == task # NoPrompt /\ In(task, {"working", "failing", "teardown", "ending"})

\* is_turn_busy, for a headless process; elsewhere is what turn_owned_elsewhere says.
Busy(o, elsewhere) == ~Free \/ TaskActive \/ object[o].flying \/ elsewhere

\* _queue_ready: ready for input; or the transcript ends waiting for the user; or cold on
\* this object, whatever the others know.
Ready(o, awaiting, elsewhere) ==
    IF object[o].status = "running"
      THEN ~Busy(o, elsewhere) \/ awaiting
      ELSE ~object[o].flying

\* The flag of a turn whose launch raised: no tail will lower it.
Flies(p) == In(p, {"starting", "working", "failing", "teardown"})
FlagLeftUp(o) == object[o].flying /\ \A p \in Prompt : Flies(p) => turn[p].on # o

-----------------------------------------------------------------------------
(* A drain.  From the check to the pop there is no await; the lock is kept *)
(* while the pop is announced.                                             *)

\* Mutant of Rest: the head is read, not taken.
RestWithHead == queue

\* pop writes what is left back to the file.
Rest == Tail(queue)

\* Nobody comes back to a queue that this drain found busy with the turn of another OS
\* process, or through a flag left up.
DrainBails(o, awaiting, elsewhere) ==
    /\ o \in due /\ ~Locked
    /\ ~enabled \/ queue = <<>> \/ ~Ready(o, awaiting, elsewhere)
    /\ due' = due \ {o}
    /\ left' = (left \/ (enabled /\ queue # <<>> /\ (elsewhere \/ FlagLeftUp(o))))
    /\ UNCHANGED <<queue, enabled, row, object, request, turn, admission, worker, task, gone,
                   lost, faults, edits>>

DrainPops(o, awaiting, elsewhere) ==
    /\ o \in due /\ ~Locked
    /\ enabled /\ queue # <<>> /\ Ready(o, awaiting, elsewhere)
    /\ due' = due \ {o}
    /\ turn' = [turn EXCEPT ![Head(queue)] = [phase |-> "popped", on |-> o]]
    /\ queue' = Rest
    /\ UNCHANGED <<enabled, row, object, request, admission, worker, task, gone, lost, left,
                   faults, edits>>

\* The lock is released.  prompt() may save the row before it asks for the slot, so that
\* other drains pop other heads meanwhile.
HandOver(p) ==
    /\ In(p, {"popped"})
    /\ Move(p, "handed")
    /\ UNCHANGED <<queue, enabled, row, object, request, due, admission, worker, task, gone,
                   lost, left, faults, edits>>

Admit(p) ==
    /\ In(p, {"handed"}) /\ Free
    /\ admission' = p
    /\ Move(p, "setup")
    /\ UNCHANGED <<queue, enabled, row, object, request, due, worker, task, gone, lost, left,
                   faults, edits>>

\* The drain chained to a delivery: one more, if there are entries.
Chained(o) == IF queue' = <<>> THEN {} ELSE {o}

\* Mutants of Requeue: the refusal is not looked at, what is put back is the entry with
\* its object, no drain is chained.
RequeueNothing(p, o, kept) == UNCHANGED <<queue, lost>> /\ Schedule(Chained(o))

RequeueEntry(p, o, kept) ==
    /\ queue' = Append(queue, [prompt |-> p, on |-> o])
    /\ lost' = lost
    /\ Schedule(Chained(o))

RequeueUnchained(p, o, kept) ==
    /\ queue' = IF kept THEN Append(queue, p) ELSE queue
    /\ lost' = IF kept THEN lost ELSE lost \cup {p}
    /\ Schedule({})

\* _requeue_undelivered, at the tail, and the drain that is chained to it.  A failure to
\* write the file is passed over.
Requeue(p, o, kept) ==
    /\ queue' = IF kept THEN Append(queue, p) ELSE queue
    /\ lost' = IF kept THEN lost ELSE lost \cup {p}
    /\ Schedule(Chained(o))

\* Another turn has the slot.
Refuse(p, kept) ==
    /\ In(p, {"handed"}) /\ ~Free
    /\ Requeue(p, turn[p].on, kept)
    /\ Move(p, "none")
    /\ kept \/ faults < MaxFaults
    /\ faults' = IF kept THEN faults ELSE faults + 1
    /\ UNCHANGED <<enabled, row, object, request, admission, worker, task, gone, edits>>

-----------------------------------------------------------------------------
(* A turn.                                                                 *)

\* prompt() fails: a queued prompt is put back, a direct one is reported to whoever sent
\* it, and no drain follows.
Undelivered(p, kept) ==
    /\ faults < MaxFaults /\ faults' = faults + 1
    /\ IF p \in Queued
         THEN Requeue(p, turn[p].on, kept) /\ Move(p, "none")
         ELSE UNCHANGED <<queue, due, lost>> /\ left' = TRUE /\ Move(p, "done")

\* The save before the admission raises.
SaveFails(p, kept) ==
    /\ p \in Failing \cap Queued /\ In(p, {"handed"})
    /\ Undelivered(p, kept)
    /\ UNCHANGED <<enabled, row, object, request, admission, worker, task, gone, edits>>

\* The driver's prologue raises or answers with a failure: the admission is released.
SetupFails(p, kept) ==
    /\ p \in Failing /\ In(p, {"setup", "marked"})
    /\ Undelivered(p, kept)
    /\ admission' = IF admission = p THEN NoPrompt ELSE admission
    /\ UNCHANGED <<enabled, row, object, request, worker, task, gone, edits>>

\* The process is marked running, on the turn's object and, if that is new to the object
\* and the save succeeds, in its row.
MarkRunning(p) ==
    /\ In(p, {"setup"})
    /\ row' \in {row} \cup (IF object[turn[p].on].status = "running" THEN {} ELSE {"running"})
    /\ object' = [object EXCEPT ![turn[p].on].status = "running"]
    /\ Move(p, "marked")
    /\ UNCHANGED <<queue, enabled, request, due, admission, worker, task, gone, lost, left,
                   faults, edits>>

\* register_prompt_worker hands the slot over; the turn is in flight on its object.  (It
\* would raise over another worker, which OneTurn rules out.)
Register(p) ==
    /\ In(p, {"marked"}) /\ worker = NoPrompt
    /\ worker' = p /\ admission' = NoPrompt
    /\ object' = [object EXCEPT ![turn[p].on].flying = TRUE]
    /\ Move(p, "starting")
    /\ UNCHANGED <<queue, enabled, row, request, due, task, gone, lost, left, faults, edits>>

\* What is left of the launch raises: the slot is released, the flag is not lowered.
LaunchFails(p, kept) ==
    /\ p \in Raising /\ In(p, {"starting"})
    /\ Undelivered(p, kept)
    /\ worker' = IF worker = p THEN NoPrompt ELSE worker
    /\ UNCHANGED <<enabled, row, object, request, admission, task, gone, edits>>

\* The turn's task exists; the drain that started it chains another if entries remain.
Launch(p) ==
    /\ In(p, {"starting"})
    /\ task' = p
    /\ Move(p, "working")
    /\ Schedule(IF p \in Queued /\ queue # <<>> THEN {turn[p].on} ELSE {})
    /\ UNCHANGED <<queue, enabled, row, object, request, admission, worker, gone, lost, faults, edits>>

\* Mutant of SpawnFails: the prompt whose subprocess did not start is put back.
SpawnFailsRequeued(p) ==
    /\ In(p, {"working"}) /\ p \in Queued /\ faults < MaxFaults
    /\ faults' = faults + 1
    /\ Requeue(p, turn[p].on, TRUE) /\ Move(p, "none")
    /\ row' = "cold" /\ worker' = NoPrompt
    /\ object' = [object EXCEPT ![turn[p].on] = [status |-> "cold", flying |-> FALSE]]
    /\ UNCHANGED <<enabled, request, admission, task, gone, edits>>

\* No subprocess could be started: latch_spawn_failure.
SpawnFails(p) ==
    /\ In(p, {"working"}) /\ faults < MaxFaults
    /\ faults' = faults + 1
    /\ row' = "cold"
    /\ object' = [object EXCEPT ![turn[p].on].status = "cold"]
    /\ Move(p, "failing")
    /\ UNCHANGED <<queue, enabled, request, due, admission, worker, task, gone, lost, left, edits>>

\* The worker is through: the slot is released, the tail is still to come.
WorkEnds(p) ==
    /\ In(p, {"working", "failing"})
    /\ worker' = IF worker = p THEN NoPrompt ELSE worker
    /\ Move(p, "teardown")
    /\ UNCHANGED <<queue, enabled, row, object, request, due, admission, task, gone, lost, left,
                   faults, edits>>

\* end_headless_turn lowers the flag and announces the end ...
EndTurn(p) ==
    /\ In(p, {"teardown"})
    /\ object' = [object EXCEPT ![turn[p].on].flying = FALSE]
    /\ Move(p, "ending")
    /\ UNCHANGED <<queue, enabled, row, request, due, admission, worker, task, gone, lost, left,
                   faults, edits>>

\* Mutant of AfterTurn: the completion edge drains nothing.
AfterTurnNothing(p) == {}

AfterTurn(p) == {turn[p].on}

\* ... and schedules the drain on the completion edge.
CompleteDrain(p) ==
    /\ In(p, {"ending"})
    /\ Schedule(AfterTurn(p))
    /\ Move(p, "done")
    /\ task' = IF task = p THEN NoPrompt ELSE task
    /\ UNCHANGED <<queue, enabled, row, object, request, admission, worker, gone, lost, faults, edits>>

-----------------------------------------------------------------------------
\* Nothing is scheduled, held or under way.
Quiet ==
    /\ due = {}
    /\ \A o \in Objects : ~request[o]
    /\ \A p \in Prompt : ~Under(p)

AtRest == Quiet /\ UNCHANGED vars

\* The transcript may end waiting for the user, or with a stale entry that says so, at
\* any time.
Drain(o) ==
    \E awaiting \in BOOLEAN, elsewhere \in Abroad :
        DrainBails(o, awaiting, elsewhere) \/ DrainPops(o, awaiting, elsewhere)

Fails(p) ==
    \E kept \in BOOLEAN : SaveFails(p, kept) \/ SetupFails(p, kept) \/ LaunchFails(p, kept)

Delivers(p) == HandOver(p) \/ Admit(p) \/ \E kept \in BOOLEAN : Refuse(p, kept)

\* What the loop carries on with; a worker ends when it ends.
TurnStep(p) ==
    MarkRunning(p) \/ Register(p) \/ Launch(p) \/ EndTurn(p) \/ CompleteDrain(p)

Next ==
    \/ \E o \in Objects, p \in Queued : Enqueue(o, p)
    \/ \E o \in Objects, p \in Direct : Ask(o, p)
    \/ \E o \in Objects : DrainQueue(o) \/ Enable(o) \/ Announced(o) \/ Drain(o)
    \/ \E i \in 1..Cardinality(Queued) : Dequeue(i)
    \/ ClearQueue \/ Disable
    \/ \E p \in Queued : Stage(p) \/ Delivers(p)
    \/ \E p \in Prompt : Fails(p) \/ SpawnFails(p) \/ WorkEnds(p) \/ TurnStep(p)
    \/ AtRest

Spec == Init /\ [][Next]_vars

\* The loop resumes what can go on, and the lock serves its waiters in turn.  Nobody owes
\* a request, nothing owes a failure, and no worker its end: one that waits on background
\* work without a ceiling has none.
FairSpec ==
    /\ Spec
    /\ \A o \in Objects : WF_vars(Announced(o)) /\ SF_vars(Drain(o))
    /\ \A p \in Queued : WF_vars(Delivers(p))
    /\ \A p \in Prompt : WF_vars(TurnStep(p))

-----------------------------------------------------------------------------
(* Properties.                                                             *)

TypeOK ==
    /\ queue \in Seq(Queued) /\ enabled \in BOOLEAN /\ row \in Status
    /\ object \in [Objects -> [status : Status, flying : BOOLEAN]]
    /\ request \in [Objects -> BOOLEAN] /\ due \subseteq Objects
    /\ turn \in [Prompt -> [phase : Phase, on : Objects]]
    /\ {admission, worker, task} \subseteq Prompt \cup {NoPrompt}
    /\ gone \subseteq Queued /\ lost \subseteq Queued /\ left \in BOOLEAN
    /\ faults \in 0..MaxFaults /\ edits \in 0..MaxEdits

\* "Atomically claim the one headless-turn slot" (try_admit_prompt): two turns of one
\* process never overlap, from the setup of one to the end of its worker, whichever
\* objects they run on.
HoldsSlot(p) == In(p, {"setup", "marked", "starting", "working", "failing"})
OneTurn == \A p, q \in Prompt : HoldsSlot(p) /\ HoldsSlot(q) => p = q

\* A queued prompt is never in two places: not on the queue twice, not put back while a
\* drain or a turn has it, not delivered after the user removed it ("a re-fired ready edge
\* can never re-inject it", _maybe_drain_queue).
OnePlace ==
    /\ \A i, j \in DOMAIN queue : queue[i] = queue[j] => i = j
    /\ \A p \in Queued :
         /\ InQueue(p) => In(p, {"none"}) /\ p \notin gone \cup lost
         /\ p \in gone \cup lost => In(p, {"none"})

\* ... and never in none: once it was accepted it stays somewhere, "the only thing
\* standing between a refusal and a silently destroyed user prompt" (_requeue_undelivered),
\* unless the queue file could not be written.
NoneDropped == [][\A p \in Queued : Accepted(p) => Accepted(p)']_vars

\* The machinery implements PromptDelivery: drains, edges and retries deliver a prompt at
\* most once, and no turn of another prompt comes in between.
StateOf(p) ==
    CASE In(p, {"popped", "handed"}) -> "waiting"
      [] In(p, {"setup", "marked", "starting"}) -> "setup"
      [] In(p, {"working", "failing"}) -> "running"
      [] In(p, {"teardown", "ending", "done"}) -> "over"
      [] In(p, {"none"}) /\ p \in gone -> "removed"
      [] In(p, {"none"}) /\ p \in lost \ gone -> "lost"
      [] In(p, {"none"}) /\ p \notin gone \cup lost -> IF InQueue(p) THEN "waiting" ELSE "new"

Delivery == INSTANCE PromptDelivery WITH state <- [p \in Prompt |-> StateOf(p)]
ImplementsDelivery == Delivery!Spec

\* "Headless self-heals through end_headless_turn's complete drain" (agentic_process.py):
\* when the machinery comes to rest, an enabled queue is empty.
SelfHeals == Quiet /\ enabled => queue = <<>>

\* What holds of it: at rest, what waits on an enabled queue was left to whoever comes
\* next.  That is input() without a submit, a direct prompt that failed, and a drain that
\* found the turn of another OS process or the flag of a launch that raised; everything
\* else comes back to the queue.
NothingStranded == Quiet /\ enabled /\ queue # <<>> => left

\* The same over time: a prompt on an enabled queue is taken by a worker, unless a worker
\* stays for ever.
Taken(p) == In(p, {"working", "failing", "teardown", "ending", "done"})
EventuallyTaken ==
    \/ <>[](worker # NoPrompt)
    \/ \A p \in Queued :
          InQueue(p) /\ enabled ~> Taken(p) \/ p \in gone \cup lost \/ ~enabled \/ left
=============================================================================
