# Verification of Flowpad

TLA+ models of the control logic of Flowpad (`src/flow_sdk`), checked with TLC on
small instances and, where it matters most, proved with TLAPS for every instance.

Flowpad is a local server for agents. Its backend is one Python process: an asyncio
event loop serves HTTP routes, runs graph workflows, watches agent processes, polls
sources and dispatches delegated tasks. Almost all of its concurrency is
*interleaving at await points*: a coroutine runs undisturbed until it really
suspends, and anything it read before may be stale after. A few protocols cross
process boundaries (the singleton lock, subprocess functions, agents).

## Inventory

| Part | State it keeps | Operations | Hard behaviour | What makes it correct |
|---|---|---|---|---|
| Run engine (`graph_workflow_manager/manager.py`) | `_runs`: counters `pending`, `active`, `suspended`, budgets, error; `_runtime`: per-node queue, active count, `pending_ids` | `inject`, `on_trigger_fired`, `_route`, `_deliver`, `_drain`, executions, `_watch_agent`, `_finalize` | coroutines of several runs share nodes and sweep each other's runs; slots pass from a drain to a detached watcher; functions fail | a run sinks exactly when nothing of it is outstanding; limits hold; no delivery is forgotten; every run ends |
| Subscriptions of the engine (same file, 380-475) | armed unsubscribers, LRU of seen entries, storm windows | arm, disarm, entry | at-least-once delivery, reload while armed | one entry per envelope and flow; capped |
| Function runner (`function_runner.py`) | one subprocess | spawn, wait, kill at the deadline | timeout | the outcome is reported once |
| Journeys (`builtin/journey.py`) | the run a journey is in | start, advance, stop | advance twice, advance late | a step is released once |
| Singleton lock (`singleton_lock.py`) | lock file, pid sidecar | `acquire`, `release` | crash between two file operations, restart, concurrent starts | one holder; the sidecar names it |
| Task ledger and dispatch (`tasks/`) | task rows (status, run), comments, turns | `create`, `record`, `attach_run`, `dispatch`, `dispatch_waiting`, `give_turn`, `deliver`, `check_budget`, `check_stalls` | read-check-save across awaits; handlers run concurrently; a handler that raises half-way | terminal is final; a waiting task starts when there is room |
| Tags event bus (`tags/bus.py`) | subscriptions, storm windows | `on`, `emit`, `deliver` | handlers are scheduled, not awaited | one failing handler does not hinder others |
| Ingest (`ingest/poller.py`, `sync.py`, `driver_runtime.py`, `ingestor.py`, `reflect.py`) | cursor and manifest on the row, poll slot, follow-up mark, lock per source | poll, sync now, traverse, place, drop what is gone, save the position | crash between records and cursor; lanes with stale copies of the row; failed passes | no position ahead of what is stored; no question lost; the mirror converges |
| Prompt queue (`builtin/agentic_process/`: `prompt_queue/`, `agentic_process.py`, `cli_drivers/headless_turn.py`) | a file with the queue of a process; the slot (admission, worker, task) | enqueue, drain, dequeue, clear, switch; a headless turn | objects that share no flags; pop before delivery; refusals and failed setups | one turn at a time; no prompt lost, doubled or left behind |
| Triggers, automations | trigger rows, run records | fire, run once | throttling, overlapping fires | a firing starts one run |
| Transcript streamer | offsets into transcript files | tail, publish | truncated or replaced files | entries in order, once |
| Entity store, cloud client, server, UI, ... | rows, files | CRUD, HTTP | I/O | not modelled: see `PROJECT.json` |

How they interact: triggers, the bus and HTTP routes call the engine's `inject` and
`on_trigger_fired`; journeys inject the `done` event of guided steps; subprocess
functions come back through the HTTP inject route; agents are processes that the
engine only observes by polling their row. The task runtime listens to `task.*` on
the bus and starts agent processes; it gives them their turns through the prompt queue. Every part saves rows through the entity store,
and each save is a suspension point. The server process itself is guarded by the
singleton lock, and so is the monitor that restarts it.

`PROJECT.json` lists every part with its status, and every hazard with its line.

## Modules

| Module | Models |
|---|---|
| `RunLifecycle` | what the engine promises of a run: termination detection |
| `GraphWorkflowManager`, `MCGraphWorkflow` | the run engine: scheduler, executions, budgets, finalization; small documents for TLC |
| `SingletonLock`, `MCSingletonLock` | `acquire` and `release` of the process singleton |
| `TaskLedger` | what the ledger promises of a delegated task: the graph of its status, and the stamp of its run |
| `TaskDispatch`, `MCTaskDispatch` | the tasks of one creator: ledger, dispatch, delivery, the handler of news |
| `IngestSync`, `MCIngestSync` | one data source: poll slot, cycle, position, mirror |
| `PromptDelivery` | what the prompt queue promises of a prompt: alone from setup to end, its work started at most once |
| `PromptQueue`, `MCPromptQueue` | the prompt queue of one headless process and the turns that empty it |
| `GraphWorkflowManager_proof`, `GraphWorkflowScheduler_proof`, `GraphWorkflowCounters_proof`, `GraphWorkflowLifecycle_proof`, `SingletonLock_proof`, `TaskDispatch_proof`, `IngestSync_proof`, `PromptQueue_proof` | theorems |

The modules are separate components; each takes from the others what it needs as an
action: to `TaskDispatch` a turn given is a prompt enqueued, to `PromptQueue` a prompt
comes from anywhere, to the engine an agent is a watch that ends.

## GraphWorkflowManager

### State and actions

* `run[r]` is the `_Run` object of run `r`. `phase` is where its life is:
  `none` (not started), `live` (in `_runs`), `sunk` (`finalized` set), `ended`
  (`run_end` written, status chosen, still in `_runs`), `gone` (popped). `pending`,
  `active`, `suspended`, `suspendedNodes`, `hops`, `processes` are the fields of
  those names; `error` is whether `error` is set; `late` is `deadline_exceeded`.
* `node[n]` is the `_NodeRuntime` of node `n`: the queue, `active`, `pending_ids`
  (`ids`). A runtime that `_drain` reaps is idle, and so equal to a fresh one: it is
  not a separate state. `ActiveExact` is what makes this sound, as an execution that
  still referred to a reaped runtime would break it.
* `task[t]` is a coroutine. asyncio is cooperative, so a coroutine whose pc is
  `routing` or `draining` *holds the loop* and is the only one to step, micro-step by
  micro-step; the other pcs are the await points of the source at which any
  coroutine may be resumed. `LoopFree` guards every such resumption.
* Two fields of a run are history, read by no action: `rejoined` (an event joined the
  run after it had sunk) and `doubled` (a guided step was entered while it was parked).
* One activation is `StartRun` (a fresh run: `inject` without a live run id, or each
  pair of flow and trigger node in `on_trigger_fired`) or `JoinRun` (`inject` by run
  id). `inject` looks the id up in `_runs` and nothing else (`manager.py:529`), so a
  join may come while the run is being finalized, until it is popped. `_route` is
  `RunSaved` / `HopBegins`, then `Deliver` or `Merge` for each
  target and `RouteEnds`. `_drain` is `TakeGuided` / `TakeExecution` / `TakeRefused`
  until `DrainEnds`, which sweeps every run as `_maybe_finalize_all` does. An
  execution ends by `FunctionDone`, `FunctionEnds`, `FunctionRaises`,
  `ExecuteFails`, or becomes an agent's watcher (`AgentStarted`), which ends by
  `AgentDone` or `AgentFailed`. `_finalize` is `RecordEnd`, then `RemoveRun`.

### Abstractions

* A delivery is its run and its identity (`_delivery_identity`: name and data). A node
  emits one event per execution besides those of `InlineEmit`, and the edges of a
  node carry whichever event it emits; documents with several event names per node
  only restrict the routes.
* Rows, journals, record folders and bus emissions are left out: their failures are
  caught where they happen, and they change no state that is modelled. Where writing a
  row suspends the coroutine, the suspension is modelled.
* `suspended_nodes` is never consulted by a guided step that is entered, and the model
  has the same omission.
* Not modelled: cancellation of a coroutine from outside, subscriptions, pruning,
  document reload (a run keeps the document it was started with; the scheduler's
  limits are those of one document).
* With functions that raise, the node's active count may be 0 while an execution is
  in flight, and the source may then reap a runtime in use. The model keeps a single
  runtime there: `raise_ends` reaches its violation without a reap, and `PendingExact`
  does not depend on the count.

### Properties

Counters: `PendingExact` and `ActiveExact` say that the counters are what they are
meant to count, over every hand-off; `NodeLimit` that serial and parallel nodes are.
Scheduling: `NoLostWakeup`, `PendingIdsMirrorQueue`. Life of a run: `SinkOnlyWhenDone`,
`NothingAfterSink`, `StatusIsFinal`, `RunEnds`. What a run has outstanding is never read
off its counters: it is what is queued, executing or being routed, and the guided steps in
`suspendedNodes`, which the sink does not look at.
`ImplementsLifecycle` is the refinement of `RunLifecycle` under which `busy` is that
truth and `phase` is what the engine believes.

Two things the code does not promise are part of the statements. A run that an event joins
after it has sunk works beside its finalization: `NothingAfterSink` and `StatusIsFinal`
(a budget may trip when the status is already journaled) say nothing of it, and in
`RunLifecycle` it takes `Rejoin` and `LateWork`. A guided step that is entered twice counts
twice in `suspended` (`manager.py:795`) and is named once in `suspended_nodes`, so its answer
releases it once (551) and the run never ends: `RunEnds` excepts a run that is `doubled`. No
comment or test promises otherwise, so neither is a finding.

### Runs and bounds

| Run | Instance | Shows |
|---|---|---|
| `engine_cycle` | function and agent in a cycle, 2 runs, 4 coroutines, 1 extra event, which may join a run in any phase | counters exact, limits, no lost wakeup, no early sink, status final, refinement of `RunLifecycle` |
| `engine_raising` | one parallel subprocess node (limit 2) reached by two edges, merging, 2 identities, 3 coroutines, a function that may raise | `pending` and the merge set are exact even then |
| `engine_live` | a serial agent that starts itself again and asks its user through a guided step, 2 runs, 3 coroutines, 1 extra event (an answer, early, late or never, or another delivery to the step), fair | a run ends unless it is parked: a cycle is cut by `max_hops` and the deadline; a run whose last work ended in a coroutine of the other run is swept by that coroutine's drain; a parked step keeps the run |
| `raise_ends` | the cycle of `engine_cycle` with a function that raises | finding 1 |

Bounds. `Runs`: two runs are what it takes for one run's drain to sweep, or to serve,
another. `Tasks` bounds the
coroutines alive at once; an action that needs one waits for a free slot, so the bound
removes behaviours but never makes a step that the code could not make. Four slots
hold two entries, a hop and a watcher; three hold what `engine_live` needs, two
watchers or entries and a hop. `MaxExtra` bounds the events that come from
outside a run's own cycle: injections by id, and emissions in mid-execution. `MaxHops`
= 1 already lets a cycle go around and be cut. `MaxProcesses` = 1 lets one agent start
and the next be refused; `engine_live` has 2, so that the agent's cycle is cut by hops as
well. Run symmetry is used in safety runs only; in
`engine_raising` delivery identities are symmetric too.

Deadlock is checked in `engine_cycle`: `Quiescent` is the only step at the end, and it
requires every run to be gone. The other runs switch the check off, because there a run
really stops for ever: one that is parked and never answered, one whose step is doubled, one
that is finished twice. What may stop, and why, is the subject of `RunEnds`.

### Fairness

`LoopStep`, `RunSaved`, `HopBegins`, `RecordEnd`, `RemoveRun` are weakly fair because
the event loop resumes every ready coroutine and the row saves return or raise (both
are caught). `Completes` is weakly fair because `run_function_subprocess` kills its
process at the deadline; an inline function is assumed to return or raise, as nothing
in the code can stop it. Nothing is assumed of agents: `AgentDone` is not fair, and a
watcher must fail only once `deadline_exceeded` holds, as its loop tests that each
interval. `DeadlinePasses` is fair because time passes. No activation is fair, so no user
has to answer.

### Finding

**A function that raises is finished twice** (`raise_ends`). The
runners finish the execution and re-raise, and `_drain` finishes it again. The run's
`active` is -1 for good, so it never sinks; the node's is -1 too, so a serial node
executes two deliveries at once. Both `NodeLimit` and `RunEnds` hold without raising
functions, so this is the only cause in the model.

### Proofs

`GraphWorkflowManager_proof` proves `TypeCorrect` by the invariant
`IInv == TypeOK /\ Shape`. `Shape` is needed because an action uses fields of a
coroutine that only make sense at its pc (`task[t].job` while executing, and so on):
`WellFormed` says which, and that at most one coroutine holds the loop. No assumption
beyond those of the module is used: the counters are typed `Int` because with `Raises`
they do become negative.

`GraphWorkflowScheduler_proof` proves `DeliveriesAreWoken` (no lost wakeup, when
`Raises = {}`). `NoLostWakeup` is not inductive: a drain that takes one delivery and
awaits it leaves the rest of the queue to nobody. It is safe because of `DrainRoom`:
whoever drains was called for one new delivery or one freed slot, so there is never
room for a second execution that nobody would start. `DrainRoom` is also where the
assumption comes from: a function that raises frees two slots at once.

`IdsMirrorQueues` proves `PendingIdsMirrorQueue` for every document and with raising
functions; it rests on two lemmas on sequences (`AppendMirrors`, `TailMirrors`): the
identities of the queue stay pairwise different because a delivery is appended only when
its identity is absent.

`GraphWorkflowCounters_proof` proves that the counters are exact. What they count are sets
(`Reserving`, `ExecutingFor`, `ExecutingOn`, `QueuedFor`), so each action is first shown to
move the sizes of those sets (`Moves`, `Seats`): a coroutine joins or leaves one, and popping
a delivery shifts every place behind it, which a bijection between the places before and
after accounts for (`PopPlaces`). `Books` then says of a whole step that it is about one run
and one node, that it moves the sizes and the counters alike, and that every other run is
left alone or swept (`StepBooks`). From it follow, by arithmetic,

* `PendingIsExact`, with no assumption: whatever raises or is injected, `pending` is what
  is queued or routed for the run;
* `ActiveIsExact` and `LimitsHold`, when `Raises = {}`: the finding above is exactly
  the case they exclude.

The invariant is `AInv`: with the counts it carries `Unborn` (a run without a phase is as
new and has no work, so that `StartRun` starts from zero), `Within` (`active` is at most
the limit, as `MayTake` tests) and `ParkedCounted`: a run counts at least as many parked
steps as it names, which is what a sink by the counter says about the steps.

`GraphWorkflowLifecycle_proof` proves that the counters detect the termination of each run.
`CountersTell`: when they are exact, a run whose three counters are zero has no work, so the
sweep of another run's drain never sinks one that has. `Passes` lists what a step may do to
one run: it stands, lives on, starts, ends, is joined late or works late. `SinksWhenDone`,
`QuietAfterSink`, `StatusStays` and the refinement `EngineImplementsLifecycle`, in which each
case is a step of `RunLifecycle` or a stutter, need `Raises = {}` and nothing else: joins are
possible in every phase.

Model-checked only: liveness, which is beyond TLAPS here, as are ENABLED and induction over
data.

## SingletonLock

A step is one file operation of `acquire` or `release`; processes interleave, and may
crash between any two. The kernel's lock belongs to an inode: `held[p]` is the inode
`p` holds, `file` the one at `lock_path`. Opening and locking the file are one step, as
`filelock` retries when the file was unlinked between the two; writing the pid is one step.
A pid is used once, so a dead holder's pid is dead for good (the backend's probe could be
fooled by a reused pid, the monitor's also compares the command line). Windows, where an
open file cannot be unlinked, is not modelled. Starts and stops overlap in any way: nothing
in the code orders them.

What the docstring promises, one singleton per instance, does not hold then.
`singleton_start` (finding): a process that has the lock but has not recorded its pid yet is
taken for stale, its lock file is unlinked, and the challenger locks a new one. A restart
that overlaps does the same harm by another way: the old process releases the lock, the new
one takes it and records its pid, and the old one then removes that pid
(`singleton_lock.py:105`); the next start finds no pid and takes the lock for stale. Both end
in two holders, so the one violation run stands for both.

What does hold is `SecureHolderStays` (`singleton_overlap`: 4 processes, any overlap, crashes
anywhere). A holder is *secure* once it is recorded, holds the present lock file, and
everybody else is down, has yet to look at the sidecar, or has read this holder's pid there;
nobody is on its way out. No number of challengers overthrows a secure holder, wherever they
crash: its record keeps every one of them from unlinking, and nobody but a process that
overlapped with its start could have removed it. Four processes are a holder, one that stopped
or died before it, and two challengers that race.

`SecureStays` proves it for any number of processes. Its invariant `SInv` says that a process
holds a lock exactly from locking to stopping; `OthersKeepSecure` takes the steps of a
challenger one by one: the lock is taken, the pid it reads is the holder's, the probe
finds it alive.

Deadlock is checked: `Ended` is the step of an instance all of whose processes are gone.
Symmetry of processes and inodes is sound: nothing distinguishes them.

## TaskDispatch

### State and actions

`row[t]` is the stored task, as far as the ledger decides by it: its status and whether it
has a run. `run` is the list of processes spawned, with the turns that
`context_data.task_turns` counts and those really given. `news` are the events on the bus
whose handler has not started. A *lane* is a coroutine: an HTTP request that raises an
event, or `on_task_event` on one piece of news. Each step of a lane ends at an await
that reads or writes a row, and what the coroutine carries over it (`copy`, the counted
`turns`, the list `todo` of `dispatch_waiting`, whether its news `frees` capacity) is part
of the lane.

`Request` is `record` up to its save, `SaveRecord` the save, `Announce` comment and event.
`HandleNews` reads the task once, as `on_task_event` does, and keeps what it needs of
it; `Deliver` is `deliver`, which reads it again. `DispatchGoes`, `SpawnRun`, `AttachReads`,
`AttachSaves`, `GiveTurn` are the awaits of `dispatch` in their order: the capacity is read
at the first and the run stamped three awaits later. `Fail` is a failure the machinery
records; `FailRefused` is that record raising for a task that is already terminal, which
ends the whole handler.

`record` and `attach_run` read a row, change it and save it whole an await later
(`ledger.py:150`), and nothing orders the writers of one row: `SaveRow` writes the lane's
copy whatever the row says by then. `Raise` is an exception anywhere in a coroutine: building
the run, stamping it, giving the turn, writing the log or reading a row (`dispatch.py:64-68`,
134-182). `_safely` (`runtime.py:79`) swallows it, so the rest of the handler, and of the
waiting list, is dropped.

Two history variables, read by no action, say that one of these has happened: `raced` are
the tasks whose row was saved over a version its writer had not read, and `broken` that a
coroutine was ended by an exception, or a row so overwritten, since the waiting tasks were
last listed.

Left out: comments, `keep`, the stall watchdog, costs (`BudgetCrossed` is a choice), other
creators, a restart. Participants that are agents rather than runs are left out as well:
`deliver` does nothing for them.

### Properties, runs, findings

The code does not promise that an end is final when saves interleave: a save that was read
before puts the older status back, and may drop a stamp. It does not promise that an
exception costs nothing either. The properties say what is left, and that these two are the
only ways out:

* `TerminalIsFinal`: a task leaves a terminal status only by a save that overtakes a version
  its writer had not read. In particular, the stamp of a run, made seconds after the task was
  looked at, does not.
* `ImplementsLedger` is the refinement of `TaskLedger`, under which a task is its stored status
  and whether a run is stamped on it, until its row is overwritten unread (`Overwrite`).
  The abstract specification sees only whole transitions of the graph: questions only at work,
  work and `done` only with a run, a stamp that is never lost, nothing after the end.
* `NoForgottenTask` and `FreeRoomIsTaken` are about capacity: no timer looks at waiting tasks,
  so every terminal event must reach `dispatch_waiting`, whatever its delivery does on the way,
  and must see the room it made. `broken` is reset when the waiting tasks are listed again, so
  an exception is an excuse until the next end of a task only.

`tasks_dispatch`: 2 tasks for 1 place, 2 lanes, 2 requests out of 7 kinds, 1 exception, up to 5
processes, task 1 with a budget of one turn, task 2 with a budget in dollars and perhaps no
staff member. Two lanes are what it takes for a handler to interleave with a request or with
another handler, and for two saves of a row; with two tasks one can wait for the other's place.

`tasks_cancel` (finding; no exception in this instance, up to 4 processes): when a task that
has used its turns is *canceled*, the
cancellation is delivered as one more turn, `give_turn` fails the task instead, the ledger
refuses, and the exception ends the handler before `dispatch_waiting`. `tasks_dispatch`
excludes only this request. The refusal is the machinery's own doing on every such cancel, so it
is not counted as `broken`.

Not guaranteed by the code, and so no property here: at most `MAX_RUNS` runs and one run per
task (the checks are made before the awaits that build the run), and an exact count of
turns under concurrent news. They are listed as hazards.

### Fairness

The loop resumes a lane that can go on and starts the handler of each event; no
participant is obliged to do anything, a run's owner included, and no exception is owed.
Deadlock is checked; `AtRest` is the state in which only participants could act.

### Proofs

`TypeCorrect`, for every number of tasks, lanes and bounds: the invariant adds
`RunsExist`, as a stamp or a turn refers to a process that was spawned, and `WritesInv`: what
a lane is about to save was checked against the copy it holds. `TerminalStays`
(`TerminalIsFinal`) is one step from it: if that copy is the row, the event was accepted by the
row as it is, and a stamp changes no status.

`DispatchImplementsLedger` proves the refinement, without an assumption. `WritesInv` gives the
edges of the graph but not the run that `working`, `input_required` and `done` require: an
owner's event is accepted because a turn was given to *some* run of the task. `Staffed` closes
the gap: a stamped run is the task's own; and, for a task that was not overwritten, a run that
has had a turn is on a task that is stamped, and so is a task whose owner is being recorded.
`NextLedger` proves for each action that
the invariant is kept and that the step maps to a step of `TaskLedger` or a stutter.

`NobodyForgetsATask` proves `NoForgottenTask`, exceptions and interleaved saves included. At
rest there is nobody to come, so the
invariant `Remembered` says who comes before that, unless the machinery is `broken`: either
somebody is still to list what waits
(`WillList`: an end is announced, or being handled), or there is no room, or every waiting
task is *carried*, by the news of its creation or on the list of a coroutine. A coroutine
loses its list when a failure it records is refused, so a task counts as carried only on a
list whose tasks are all still open (`Sound`). A list stops being sound when one of its
tasks is ended by somebody else, and that end is announced: `WillList` holds from then on. The
one hypothesis, `CancelsAreFree` (no participant cancels a task with a turn budget), excludes what
`tasks_cancel` shows; `tasks_dispatch` makes the same choice of `Requests`.

## IngestSync

### State and actions

The outside system is `up[k]`, a version per key, each change taking the next number of
`clock`; `stored[k]` is what is on this machine. `kind` is one of three kinds of source:
`log` (durable cursor, deltas, no removals), `listing` (`lists_everything`: what is not
listed is gone) and `files` (reflected, diffed against the manifest of the last pass). `pos`
is the row: cursor, manifest, health. A *lane* is one coroutine with its own copy of the row
(`at`), which it loads once and keeps for every pass it makes. `owed`, read by no action, is
the time of the last question a poll has not answered yet.

`Load` reads the row, an await before `Claim` takes the poll slot or `ClaimRefused` finds it
taken (`poller.py:252`, 259); the lanes of the heartbeat and of attention load only a source
that may be polled. A source whose health is `config_error` is *parked*: it is not selected
again (`data_source.py:732-735`, 804) until a person polls it, which clears the latch (`Unlatch`,
`PollNow`). `FollowUp` is `poll_source(follow_up=True)` on a busy source, `SyncNow` the direct
call that takes no slot. `PreSchedule` is the save
before any I/O; `save_runtime` writes every runtime field, so it writes the lane's position
too; it may fail without ending the poll (`PreScheduleFails`). `Acquire` takes the lock of
`_CYCLES`; `Traverse` reads the outside system from the
position of the lane's copy; `Place` writes one record or file; `DropGone` removes what
the pass proves gone; `SavePosition` is the end of the cycle with the idle pass that writes
nothing; `Release` gives back the lock and goes on if asked. `PassFails` is `_fail_source`, with
either class of error. `CycleRaises` is a save of the row that raises (`sync.py:141`, 226): the
exception leaves `sync_source`, and `poller.py:324-329` gives the slot back and discards the
follow-up noted meanwhile. `Crash` forgets everything but the row and the store.

Abstracted: a pass reads its pages as one snapshot, and what a log lists after a cursor is
what changed after it. A version is used once, so a file that goes away and comes back the same
is a new version here: the pass places it again where the code's manifest might say it is
unchanged. Left out: windows, `pages_per_pass`, reset and replay of a source, sources that
only push, renames, `read_older`, `write_back`, reactions, the schedule of due times
(the heartbeat may poll at any time) and the attention lease.

### Properties, runs, findings

`NoGap` is the guarantee of the module's docstring: what the row's position covers is
stored. It is hard because lanes overlap: an old copy of the row may be saved over a newer
one (it only moves the position back), and a position read before waiting for the lock is
used after it. `SlotHasOwner`: no source is locked out of polling, over failures,
exceptions and crashes. `PullIsHonoured`: a poll gives up its slot only after a pass that *read
the source* no earlier than the last question and ended cleanly; or it failed on that question,
in a pass that left no other question open or by an exception, which drops the question (the
code's choice; a question noted before a pass that merely fails is answered by the pass
after it). `Converges`: when
the outside system stops changing and failures stop, the mirror is complete, unless the source
stays parked.

`ingest_mirror`: all three kinds, 2 keys, 2 lanes, 2 changes, 1 fault (a failure of either
class, an exception or a crash). Two lanes
give one stale copy of the row; two changes let a pass miss one and the next find it, or a
key come and go.

`ingest_gap` (finding): with `OriginLost` a file whose origin cannot be reached is skipped
in a report that `_place` drops, and the manifest records it as mirrored.

### Fairness

A lane's steps are weakly fair, and the lock is strongly fair, as an `asyncio.Lock` serves its
waiters in turn; the heartbeat loads a source that may be polled again and again (`WF` of
`Load` by the heartbeat, which a parked source disables). Nobody has to unlatch anything.
Failures and crashes are not owed and are bounded, so `Converges` says what
happens after the last one. Deadlock is checked: a person may always sync.

### Proofs

`TypeCorrect` for every instance. `RecordsBeforeCursor` proves `NoGap` under `~OriginLost`,
with any number of keys, lanes and faults. `NoGap` alone is not inductive: the invariant
`GapInv` says that *every* position in the system (the row's and each lane's copy) is safe
and of the past, that only the lane with the lock is between reading and saving, and that
what such a lane has read and not yet placed is exactly what separates the store from the
position it will save.

`SlotIsOwned` and `PullsAreHonoured` need no hypothesis. Their invariant `SlotInv` says that
the slot is taken iff exactly one lane polls, that no lane does before it has claimed, that a
question is open
(`again`) only while the slot is taken, and that a poll with no question open has, if it has
read the source, read it no earlier than the last question (`Answers`). The last part is what a
poll that ends
relies on: a question that comes while it reads marks the slot, and is answered by going on.

## PromptQueue

### State and actions

`queue` and `enabled` are the file; `row` the stored status. There is no identity map in
the entity store: each request loads an object of its own (`object[o]`: the status as it
was loaded, and `_turn_in_flight`), and its drain, its turn and the drains that follow run
on that object. What they share is process-global: the queue's lock (held by the drain whose
prompt is `popped`), `_PROMPT_ADMISSIONS`, `_PROMPT_WORKERS`, `_PROMPT_TASKS`. `turn[p]`
is how far a prompt has come. Three variables are history: the prompts `gone` by the user's
hand, those `lost` because the file could not be written, and whether the queue was `left` to
whoever comes next.

`Enqueue` stands for `enqueue`, `submit` and the task machinery's `give_turn`: the entry is
in the file, `Announced` schedules the drain after the broadcast. `Stage` is `input`
(`agentic_process.py:3570`), which puts an entry on the queue and schedules no drain.
`DrainBails` and
`DrainPops` are `_maybe_drain_queue` up to the pop (no await from check to
pop); `HandOver` is the release of the lock, after which `prompt()` may save the row before it
asks for the slot (3455-3461), so that several drains may each hold a head; `Admit` and `Refuse`
are the attempt that follows. `Ask` is a prompt sent directly. A turn
goes `MarkRunning`, `Register`, `Launch`, `WorkEnds`, `EndTurn`, `CompleteDrain`, in the order of
the Claude driver. It may leave by `SaveFails` or `SetupFails` (the driver raises or answers with
a failure), by `LaunchFails`, where the worker is registered already: the slot is released and
`_turn_in_flight` stays up (`headless_turn.py:194-199`), or by
`SpawnFails` (`latch_spawn_failure`). `Requeue` puts a prompt back at the tail; when the file
cannot be written the error is logged and the prompt is `lost` (2584-2585). The transcript's
status (`PENDING_USER`) may be
anything at any check, as it is another program's file, and so may `turn_owned_elsewhere`
(`status_predicates.py:167`), as other OS processes serve the same store (`Abroad`).

Left out: PTY sessions, a worker parked between turns, `exit` and `cancel` during a turn, a
crash of the server; the chat request (`_http_prompt`), which takes the same slot but
registers its worker before it marks the process running, as other drivers do.

### Properties, runs, findings

`OneTurn`, `OnePlace` (a prompt is in the file once, in a drain's hand, in a turn, or gone;
never two
of them), `NoneDropped` (and never in none), `NothingStranded` and `EventuallyTaken`.
`ImplementsDelivery` is the refinement of `PromptDelivery`, in
which a prompt has one state: it waits, is set up, runs, is over, was removed or lost. It relates
what `OnePlace` and `OneTurn` say of a state over time: a prompt goes back to the queue only
from a failed setup, never once its worker has started, and nobody else's setup or work comes
in between.

A comment says that headless processes heal themselves by the drain at the end of a turn
(`agentic_process.py:8336`). `SelfHeals` says so, and `prompts_stranded` (finding) refutes it
with nothing but a failed setup of the *direct* prompt: it took the slot as the turn before
ended, so that turn's drain found the process busy; the admission is released and nothing drains.

`NothingStranded` is what does hold, in every instance: at rest, prompts wait on an enabled
queue only if it was `left`, that is, the last word on it was one of the paths that schedule no
drain: `input`, a failed direct prompt, or a drain that bailed on the turn of another OS process
or on a flag that a raised launch left up. As soon as anything schedules a drain, or
accepts a prompt and so will, `left` is down again; every refusal, failed setup of a queued
prompt, end of a turn and switching on of the queue comes back to what waits. A queued prompt
whose launch raises does strand the queue, by way of the flag: its chained drain bails on
that very object. `EventuallyTaken` says the same over time, for workers that end: a worker
that waits for background work has no ceiling (`driver.py:459-465`).

`prompts_queue`: 2 queued prompts, one of which may be staged, and a direct one, 2 objects,
1 fault among failed setups, launches, spawns and writes of the file, 1 edit, any answer of
`turn_owned_elsewhere`. Two objects are a drain on a stale copy beside a turn; the direct
prompt competes with both. The first prompt and the direct one may fail, in setup and in launch.

### Fairness

The loop resumes what can go on; a drain is
strongly fair, as the lock serves its waiters in turn and a drain is disabled while another
holds it. Workers owe no end. Failures and edits are bounded and not owed. Deadlock is
checked; `AtRest` is the state with nothing scheduled.

### Proofs

For any sets of prompts, objects and failures: `TypeCorrect`, `TurnsExclude`, `InOnePlace`,
`PromptsAreKept`, and `QueueImplementsDelivery`, the refinement. The invariant is `TypeOK /\ SlotInv /\ Places`. `SlotInv` ties each phase
of a turn to the registry that holds the slot for it (admission in setup, worker from
registration on), which makes the exclusion inductive; `Places` is `OnePlace`
restated by the fields of the drains and turns (`PlacesIsOnePlace`). The refinement follows
from the same invariant: a prompt that a drain puts back, or pops, is nowhere else, so its
abstract state is read off the one place it is in.

`NobodyStrandsTheQueue` proves `NothingStranded` without an assumption: launches that raise,
staged prompts and other OS processes are part of it. It is inductive over `SlotInv`. The step
that matters is the bail of the last drain (`BailStrandsNothing`): at rest nothing holds the slot
and no turn's task is active, so the drain can only have bailed because the queue was switched
off or empty, because it took the process for busy elsewhere, or because of a flag; and with no
turn under way the flag is one that was left up.

## What is proved, checked, and left out

| | Proved for every instance | Model-checked only |
|---|---|---|
| Engine | `TypeOK`, `PendingIdsMirrorQueue`, `PendingExact`; without raising functions `NoLostWakeup`, `ActiveExact`, `NodeLimit`, `SinkOnlyWhenDone`, `NothingAfterSink`, `StatusIsFinal`, `ImplementsLifecycle` | `RunEnds` |
| Singleton lock | `SecureHolderStays` | |
| Tasks | `TypeOK`, `TerminalIsFinal`, `ImplementsLedger`; without cancels of tasks with a turn budget `NoForgottenTask` | `FreeRoomIsTaken` |
| Ingest | `TypeOK`, `SlotHasOwner`, `PullIsHonoured`; with every origin reachable `NoGap` | `Converges` |
| Prompt queue | `TypeOK`, `OneTurn`, `OnePlace`, `NoneDropped`, `ImplementsDelivery`, `NothingStranded` | `EventuallyTaken` |

Every invariant, action property and refinement of the passing runs is stated by a theorem; what
TLC alone checks is the liveness in the last column. Each hypothesis in the table is the
complement of a finding. Liveness and ENABLED are out of the
prover's reach, as is induction over data.

### Not modelled

The repository is large (350,000 lines), and most of it is not control logic: HTTP routes,
parsers, entity classes, storage drivers, user interface, settings. `PROJECT.json` lists each
part with the reason. Of the parts with concurrent state, these are left: the entry door of
the engine (subscriptions, dedup, storm guard), retention pruning, PTY sessions and their
recovery, the transcript streamer, the exchange with the remote hub, whose other side is not in this
repository. Server crashes are modelled where the code does something about them (the
singleton lock, ingest); the task runtime and the prompt queue have no recovery to model.
