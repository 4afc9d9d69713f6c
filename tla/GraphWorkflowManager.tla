---- MODULE GraphWorkflowManager ----
(***************************************************************************)
(* The run engine of flow_sdk/graph_workflow_manager/manager.py: runs of   *)
(* one workflow document, the per-node scheduler, and the counters that    *)
(* decide when a run sinks.                                                *)
(*                                                                         *)
(* The engine is single-threaded asyncio code.  A coroutine is a task      *)
(* slot; it keeps the event loop until it really suspends, so a task whose *)
(* pc is "routing" or "draining" is the only one that may step.  Every     *)
(* other busy pc is a suspension point of the source:                      *)
(*   "starting"   awaiting the run row in _start_run                       *)
(*   "scheduled"  created by ensure_future, not yet begun (_hop)           *)
(*   "executing"  awaiting a node's execution inside _drain                *)
(*   "watching"   _watch_agent polling an agent process                    *)
(*                                                                         *)
(* Two fields of a run's record, read by no action, are its history:       *)
(*   rejoined     an event joined the run after it had sunk                *)
(*   doubled      a guided step was entered while it was parked already    *)
(***************************************************************************)
EXTENDS Integers, Sequences, FiniteSets

CONSTANTS
    Runs,           \* run ids that activations may mint
    Nodes,          \* executing nodes of the document (trigger nodes only emit)
    External,       \* the source of entry events: "$external" or a trigger node
    Kind,           \* node -> "inline" | "subprocess" | "agent" | "guided_step"
    Edges,          \* source -> the nodes its event routes to, in edge order
    Limit,          \* node -> _limit_for: 1 when serial, parallel_limit otherwise
    MergeIdentical, \* nodes with merge_identical set
    Raises,         \* function nodes whose function (or runner) may raise
    Data,           \* delivery identities (event name and payload)
    MaxHops,        \* config.max_hops
    MaxProcesses,   \* config.max_processes
    Sources,        \* sources that injections name
    Targets,        \* nodes that injections deliver to directly
    Tasks,          \* bound: coroutines alive at once
    MaxExtra,       \* bound: injections by run id and emissions in mid-execution
    None            \* no run, no node, no identity

Phases == {"none", "live", "sunk", "ended", "gone"}

ASSUME NoneAssumption == None \notin Runs \cup Nodes \cup Data
ASSUME ExternalAssumption == External \notin Nodes
ASSUME KindAssumption ==
    Kind \in [Nodes -> {"inline", "subprocess", "agent", "guided_step"}]
ASSUME EdgesAssumption == Edges \in [Nodes \cup {External} -> Seq(Nodes)]
ASSUME LimitAssumption == Limit \in [Nodes -> Nat \ {0}]
ASSUME FlagsAssumption ==
    /\ MergeIdentical \subseteq Nodes
    /\ Raises \subseteq {n \in Nodes : Kind[n] \in {"inline", "subprocess"}}
ASSUME BudgetAssumption == MaxHops \in Nat /\ MaxProcesses \in Nat /\ MaxExtra \in Nat
ASSUME InjectionAssumption ==
    /\ Sources \subseteq Nodes \cup {External}
    /\ Targets \subseteq Nodes
ASSUME TasksAssumption == IsFiniteSet(Tasks)

VARIABLES
    run,    \* _runs and every _Run object a coroutine still refers to
    node,   \* _runtime: the _NodeRuntime of each node
    task,   \* the coroutines of the engine
    extra   \* environment events so far, capped by MaxExtra

vars == <<run, node, task, extra>>

RunType == [phase : Phases, pending : Int, active : Int, suspended : Nat,
            suspendedNodes : SUBSET Nodes, hops : Nat,
            processes : Nat, error : BOOLEAN, late : BOOLEAN,
            rejoined : BOOLEAN, doubled : BOOLEAN,
            status : {"running", "complete", "tripped"}]

Delivery == [run : Runs, id : Data]

NodeType == [queue : Seq(Delivery), active : Int, ids : SUBSET Data]

TaskType == [pc : {"idle", "starting", "scheduled", "routing", "draining",
                   "executing", "watching"},
             kind : {"none", "entry", "direct", "hop", "watch"},
             run : Runs \cup {None}, hop : Nat, id : Data \cup {None},
             todo : Seq(Nodes), node : Nodes \cup {None}, job : Runs \cup {None}]

TypeOK ==
    /\ run \in [Runs -> RunType]
    /\ node \in [Nodes -> NodeType]
    /\ task \in [Tasks -> TaskType]
    /\ extra \in 0..MaxExtra

-----------------------------------------------------------------------------
(* The _Run record and the operations the engine performs on it.           *)

NoRun == [phase |-> "none", pending |-> 0, active |-> 0, suspended |-> 0,
          suspendedNodes |-> {}, hops |-> 0, processes |-> 0,
          error |-> FALSE, late |-> FALSE, rejoined |-> FALSE, doubled |-> FALSE,
          status |-> "running"]

Reserve(R) == [R EXCEPT !.pending = @ + 1]

\* Mutant of Born: a run registered without its entry reserve.
BornUnreserved == [NoRun EXCEPT !.phase = "live"]

\* A run is born reserved: the entry reserve holds it until its first routing.
Born == Reserve([NoRun EXCEPT !.phase = "live"])

Unreserve(R) == [R EXCEPT !.pending = @ - 1]

\* Mutant of Begin: the delivery's share of pending is never given back.
BeginKeepsPending(R) == [R EXCEPT !.active = @ + 1]

\* A delivery leaves the queue and becomes an execution.
Begin(R) == [Unreserve(R) EXCEPT !.active = @ + 1]

\* An agent process counts against the run's budget.
Spawn(R) == [R EXCEPT !.processes = @ + 1]

\* _finish_execution, the run's half.
Finish(R) == [R EXCEPT !.active = @ - 1]

\* A guided step is entered: counted each time, remembered once.
Park(R, n) ==
    LET P == [R EXCEPT !.suspended = @ + 1]
        D == [P EXCEPT !.doubled = @ \/ n \in R.suspendedNodes]
    IN [D EXCEPT !.suspendedNodes = @ \cup {n}]

\* Mutant of Release: any event releases a step.
ReleaseByAny(R, src) ==
    LET P == [R EXCEPT !.suspended = @ - 1]
    IN [P EXCEPT !.suspendedNodes = @ \ {src}]

\* inject releases a parked step when the event comes from it.
Release(R, src) ==
    IF src \in R.suspendedNodes
    THEN LET P == [R EXCEPT !.suspended = IF @ = 0 THEN 0 ELSE @ - 1]
         IN [P EXCEPT !.suspendedNodes = @ \ {src}]
    ELSE R

\* An event joins a run of _runs, which may have sunk already.
Joined(R) == [R EXCEPT !.rejoined = @ \/ R.phase # "live"]

Trip(R) == [R EXCEPT !.error = TRUE]

Trips(R, hop) == hop > MaxHops \/ R.late

\* _route up to the choice of targets: the hop high-water mark, then the budgets.
Routed(R, hop) ==
    [R EXCEPT !.hops = IF hop > @ THEN hop ELSE @,
              !.error = @ \/ Trips(R, hop)]

\* Mutants of Sink: reserves and queued deliveries, or parked steps, left out.
SinkOverPending(R) ==
    IF R.phase = "live" /\ R.active = 0 /\ R.suspended = 0
    THEN [R EXCEPT !.phase = "sunk"]
    ELSE R

SinkOverParked(R) ==
    IF R.phase = "live" /\ R.pending = 0 /\ R.active = 0
    THEN [R EXCEPT !.phase = "sunk"]
    ELSE R

\* maybe_sink and _maybe_finalize: latch the run when nothing is outstanding.
Sink(R) ==
    IF R.phase = "live" /\ R.pending = 0 /\ R.active = 0 /\ R.suspended = 0
    THEN [R EXCEPT !.phase = "sunk"]
    ELSE R

\* _finalize journals run_end with the status the run has by then.
Recorded(R) ==
    LET E == [R EXCEPT !.phase = "ended"]
    IN [E EXCEPT !.status = IF R.error THEN "tripped" ELSE "complete"]

-----------------------------------------------------------------------------
(* Coroutines.                                                             *)

Idle == [pc |-> "idle", kind |-> "none", run |-> None, hop |-> 0, id |-> None,
         todo |-> <<>>, node |-> None, job |-> None]

\* A coroutine that will route an event of run r to the nodes of todo.
Routing(pc, kind, r, hop, d, todo) ==
    [pc |-> pc, kind |-> kind, run |-> r, hop |-> hop, id |-> d, todo |-> todo,
     node |-> None, job |-> None]

\* A watcher of the agent that executes on node n for run r.
Watcher(n, r) ==
    [pc |-> "watching", kind |-> "watch", run |-> None, hop |-> 0, id |-> None,
     todo |-> <<>>, node |-> n, job |-> r]

At(k, pc) == [k EXCEPT !.pc = pc]
Todo(k, todo) == [k EXCEPT !.todo = todo]
OnNode(k, n) == [k EXCEPT !.node = n]
ForRun(k, r) == [k EXCEPT !.job = r]

\* A coroutine between two suspension points holds the event loop; when none
\* does, a suspended one may resume.
Holds(k) == k.pc \in {"routing", "draining"}

LoopFree == \A t \in Tasks : ~Holds(task[t])

Free == {t \in Tasks : task[t].pc = "idle"}

NewTask == CHOOSE t \in Free : TRUE

\* The _hop coroutine emit_from_node creates for an event of node n in run r.
Hop(r, n, d) == Routing("scheduled", "hop", r, run[r].hops + 1, d, Edges[n])

Init ==
    /\ run = [r \in Runs |-> NoRun]
    /\ node = [n \in Nodes |-> [queue |-> <<>>, active |-> 0, ids |-> {}]]
    /\ task = [t \in Tasks |-> Idle]
    /\ extra = 0

-----------------------------------------------------------------------------
(* Activation: inject and on_trigger_fired.                                *)

\* An entry event is either routed along the edges of its source, or delivered
\* to a target node; an unknown target raises before anything is delivered.
Entries(src) ==
    {[kind |-> "entry", todo |-> Edges[src]]}
        \cup {[kind |-> "direct", todo |-> <<n>>] : n \in Targets}
        \cup {[kind |-> "direct", todo |-> <<>>] : n \in Targets}

\* inject without a live run id, or a trigger firing: _start_run registers the
\* run and suspends on its row.
StartRun(r, src, e, d) ==
    /\ LoopFree /\ Free # {}
    /\ run[r].phase = "none"
    /\ run' = [run EXCEPT ![r] = Born]
    /\ task' = [task EXCEPT ![NewTask] =
                  Routing("starting", e.kind, r, 0, d, e.todo)]
    /\ UNCHANGED <<node, extra>>

\* inject with the id of a registered run, finalized or not: the join reserve, the
\* release of a parked step and the routing decision happen without suspending.  The
\* id is known outside once run_start is emitted, at the end of _start_run.
JoinRun(r, src, e, d) ==
    /\ LoopFree /\ Free # {}
    /\ run[r].phase \in {"live", "sunk", "ended"}
    /\ \A t \in Tasks : task[t].pc = "starting" => task[t].run # r
    /\ extra < MaxExtra
    /\ LET joined == Release(Reserve(Joined(run[r])), src)
           dead   == e.kind = "entry" /\ Trips(joined, 0)
       IN /\ run' = [run EXCEPT ![r] =
                       IF e.kind = "entry" THEN Routed(joined, 0) ELSE joined]
          /\ task' = [task EXCEPT ![NewTask] =
                        Routing("routing", e.kind, r, 0, d, IF dead THEN <<>> ELSE e.todo)]
    /\ extra' = extra + 1
    /\ UNCHANGED node

-----------------------------------------------------------------------------
(* Routing: _route and _deliver.                                           *)

\* A suspended entry or hop takes the loop and routes its event.
Route(t, at) ==
    /\ LoopFree
    /\ task[t].pc = at
    /\ LET r == task[t].run
           routes == task[t].kind # "direct"
       IN /\ run' = IF routes THEN [run EXCEPT ![r] = Routed(@, task[t].hop)] ELSE run
          /\ task' = [task EXCEPT ![t] =
                        Todo(At(@, "routing"), IF routes /\ Trips(run[r], @.hop)
                                               THEN <<>> ELSE @.todo)]
    /\ UNCHANGED <<node, extra>>

RunSaved(t) == Route(t, "starting")

HopBegins(t) == Route(t, "scheduled")

\* merge_identical: an identical delivery is already queued.
Absorbed(t) ==
    /\ Head(task[t].todo) \in MergeIdentical
    /\ task[t].id \in node[Head(task[t].todo)].ids

Merge(t) ==
    /\ task[t].pc = "routing" /\ task[t].todo # <<>>
    /\ Absorbed(t)
    /\ task' = [task EXCEPT ![t] = Todo(@, Tail(@.todo))]
    /\ UNCHANGED <<run, node, extra>>

Deliver(t) ==
    /\ task[t].pc = "routing" /\ task[t].todo # <<>>
    /\ ~Absorbed(t)
    /\ LET n == Head(task[t].todo)
           d == task[t].id
       IN /\ node' = [node EXCEPT ![n] =
                [queue |-> Append(@.queue, [run |-> task[t].run, id |-> d]),
                 active |-> @.active,
                 ids |-> IF n \in MergeIdentical THEN @.ids \cup {d} ELSE @.ids]]
          /\ run' = [run EXCEPT ![task[t].run] = Reserve(@)]
          /\ task' = [task EXCEPT ![t] =
                        OnNode(At(Todo(@, Tail(@.todo)), "draining"), n)]
    /\ UNCHANGED extra

\* The event is fully routed: inject, on_trigger_fired and _hop all drop their
\* reserve and then look whether the run may sink.
RouteEnds(t) ==
    /\ task[t].pc = "routing" /\ task[t].todo = <<>>
    /\ run' = [run EXCEPT ![task[t].run] = Sink(Unreserve(@))]
    /\ task' = [task EXCEPT ![t] = Idle]
    /\ UNCHANGED <<node, extra>>

-----------------------------------------------------------------------------
(* The per-node scheduler: _drain.                                         *)

\* Mutant of MayTake: the limit is overrun by one.
MayTakeOneMore(n) == node[n].queue # <<>> /\ node[n].active <= Limit[n]

MayTake(n) == node[n].queue # <<>> /\ node[n].active < Limit[n]

\* Mutant of Pop: the identity of the delivery stays in pending_ids.
PopKeepsId(n, busy) ==
    node' = [node EXCEPT ![n] =
               [queue |-> Tail(@.queue), active |-> @.active + busy, ids |-> @.ids]]

\* The head of the queue of n leaves it; `busy` executions stay on the node.
Pop(n, busy) ==
    node' = [node EXCEPT ![n] =
               [queue |-> Tail(@.queue), active |-> @.active + busy,
                ids |-> @.ids \ {Head(@.queue).id}]]

\* A guided step parks the run and frees its slot before the loop moves on.
TakeGuided(t) ==
    /\ task[t].pc = "draining"
    /\ LET n == task[t].node
           r == Head(node[n].queue).run
       IN /\ MayTake(n) /\ Kind[n] = "guided_step"
          /\ Pop(n, 0)
          /\ run' = [run EXCEPT ![r] = Finish(Park(Begin(@), n))]
    /\ UNCHANGED <<task, extra>>

\* A function runs, or an agent process is being started: _drain awaits it.
TakeExecution(t) ==
    /\ task[t].pc = "draining"
    /\ LET n == task[t].node
           r == Head(node[n].queue).run
           agent == Kind[n] = "agent"
       IN /\ MayTake(n) /\ Kind[n] # "guided_step"
          /\ agent => run[r].processes < MaxProcesses
          /\ Pop(n, 1)
          /\ run' = [run EXCEPT ![r] =
                       IF agent THEN Spawn(Begin(@)) ELSE Begin(@)]
          /\ task' = [task EXCEPT ![t] = ForRun(At(@, "executing"), r)]
    /\ UNCHANGED extra

\* The process budget is spent: the run trips and the slot is free again.
TakeRefused(t) ==
    /\ task[t].pc = "draining"
    /\ LET n == task[t].node
           r == Head(node[n].queue).run
       IN /\ MayTake(n) /\ Kind[n] = "agent" /\ run[r].processes >= MaxProcesses
          /\ Pop(n, 0)
          /\ run' = [run EXCEPT ![r] = Trip(Finish(Begin(@)))]
    /\ UNCHANGED <<task, extra>>

\* Mutant of DrainEnds: only a watcher looks at the runs again.
DrainEndsUnswept(t) ==
    /\ task[t].pc = "draining"
    /\ ~MayTake(task[t].node)
    /\ run' = [r \in Runs |-> IF task[t].kind = "watch" THEN Sink(run[r]) ELSE run[r]]
    /\ task' = [task EXCEPT ![t] =
                  IF @.kind = "watch" THEN Idle
                  ELSE OnNode(At(@, "routing"), None)]
    /\ UNCHANGED <<node, extra>>

\* The loop of _drain ends: every registered run is swept, then the coroutine
\* goes back to its route (a watcher ends).  Reaping the idle runtime leaves a
\* node as a fresh one would be.
DrainEnds(t) ==
    /\ task[t].pc = "draining"
    /\ ~MayTake(task[t].node)
    /\ run' = [r \in Runs |-> Sink(run[r])]
    /\ task' = [task EXCEPT ![t] =
                  IF @.kind = "watch" THEN Idle
                  ELSE OnNode(At(@, "routing"), None)]
    /\ UNCHANGED <<node, extra>>

-----------------------------------------------------------------------------
(* Executions: functions, agent starts, agent watchers.                    *)

\* _finish_execution, the node's half.
Freed(N, slots) == [N EXCEPT !.active = @ - slots]

\* Executions end with the coroutine back in the loop of _drain, `slots` freed.
Resume(t, slots) ==
    /\ node' = [node EXCEPT ![task[t].node] = Freed(@, slots)]
    /\ UNCHANGED extra

Draining(t) == [task EXCEPT ![t] = ForRun(At(@, "draining"), None)]

Executes(t, kinds) ==
    /\ LoopFree
    /\ task[t].pc = "executing" /\ Kind[task[t].node] \in kinds

\* emit_flow_event of an inline function: the hop's reserve lands at once.
InlineEmit(t, d) ==
    /\ Executes(t, {"inline"}) /\ Free # {}
    /\ extra < MaxExtra /\ extra' = extra + 1
    /\ run' = [run EXCEPT ![task[t].job] = Reserve(@)]
    /\ task' = [task EXCEPT ![NewTask] = Hop(task[t].job, task[t].node, d)]
    /\ UNCHANGED node

\* Mutant of FunctionDone: the hop is created without its reserve.
FunctionDoneUnreserved(t, d) ==
    /\ Executes(t, {"inline", "subprocess"}) /\ Free # {}
    /\ run' = [run EXCEPT ![task[t].job] = Finish(@)]
    /\ task' = [Draining(t) EXCEPT ![NewTask] = Hop(task[t].job, task[t].node, d)]
    /\ Resume(t, 1)

\* A function that returned a dict emits done, and frees its slot afterwards.
FunctionDone(t, d) ==
    /\ Executes(t, {"inline", "subprocess"}) /\ Free # {}
    /\ run' = [run EXCEPT ![task[t].job] = Finish(Reserve(@))]
    /\ task' = [Draining(t) EXCEPT ![NewTask] = Hop(task[t].job, task[t].node, d)]
    /\ Resume(t, 1)

\* A function that returned no dict, or a subprocess that failed or was killed
\* at the deadline.  Only the subprocess path looks at the run again here.
FunctionEnds(t) ==
    /\ Executes(t, {"inline", "subprocess"})
    /\ run' = [run EXCEPT ![task[t].job] =
                 IF Kind[task[t].node] = "subprocess" THEN Sink(Finish(@)) ELSE Finish(@)]
    /\ task' = Draining(t)
    /\ Resume(t, 1)

\* The function raised, or is not registered: _run_function_inline (and
\* _run_function_subprocess around its runner) finishes the execution and
\* re-raises, and the handler in _drain finishes it again.
FunctionRaises(t) ==
    /\ Executes(t, {"inline", "subprocess"}) /\ task[t].node \in Raises
    /\ run' = [run EXCEPT ![task[t].job] = Finish(Finish(@))]
    /\ task' = Draining(t)
    /\ Resume(t, 2)

\* Saving the process row, resolving the agent or starting its pty raised: only
\* the handler in _drain finishes the execution.
ExecuteFails(t) ==
    /\ Executes(t, {"subprocess", "agent"})
    /\ run' = [run EXCEPT ![task[t].job] = Finish(@)]
    /\ task' = Draining(t)
    /\ Resume(t, 1)

\* Mutant of AgentStarted: the slot is freed though the watcher will free it.
AgentStartedFrees(t) ==
    /\ Executes(t, {"agent"}) /\ Free # {}
    /\ task' = [Draining(t) EXCEPT ![NewTask] = Watcher(task[t].node, task[t].job)]
    /\ run' = [run EXCEPT ![task[t].job] = Finish(@)]
    /\ Resume(t, 1)

\* The agent process runs: its detached watcher keeps the slot.
AgentStarted(t) ==
    /\ Executes(t, {"agent"}) /\ Free # {}
    /\ task' = [Draining(t) EXCEPT ![NewTask] = Watcher(task[t].node, task[t].job)]
    /\ UNCHANGED <<run, node, extra>>

\* The agent's turn is complete: emit done, free the slot, drain the node.
AgentDone(t, d) ==
    /\ LoopFree /\ Free # {}
    /\ task[t].pc = "watching"
    /\ run' = [run EXCEPT ![task[t].job] = Finish(Reserve(@))]
    /\ task' = [Draining(t) EXCEPT ![NewTask] = Hop(task[t].job, task[t].node, d)]
    /\ Resume(t, 1)

\* Mutant of AgentFailed: the runs are swept, but the node is not drained.
AgentFailedUndrained(t) ==
    /\ LoopFree
    /\ task[t].pc = "watching"
    /\ run' = [r \in Runs |-> Sink(IF r = task[t].job THEN Finish(run[r]) ELSE run[r])]
    /\ task' = [task EXCEPT ![t] = Idle]
    /\ Resume(t, 1)

\* The process failed or disappeared, or the watcher failed.
AgentFailed(t) ==
    /\ LoopFree
    /\ task[t].pc = "watching"
    /\ run' = [run EXCEPT ![task[t].job] = Finish(@)]
    /\ task' = Draining(t)
    /\ Resume(t, 1)

-----------------------------------------------------------------------------
(* The end of a run, and time.                                             *)

\* _finalize begins: run_end goes into the journal with the run's status.
RecordEnd(r) ==
    /\ LoopFree
    /\ run[r].phase = "sunk"
    /\ run' = [run EXCEPT ![r] = Recorded(@)]
    /\ UNCHANGED <<node, task, extra>>

\* The row is updated: the run leaves _runs.
RemoveRun(r) ==
    /\ LoopFree
    /\ run[r].phase = "ended"
    /\ run' = [run EXCEPT ![r] = [@ EXCEPT !.phase = "gone"]]
    /\ UNCHANGED <<node, task, extra>>

\* deadline_exceeded becomes true.
DeadlinePasses(r) ==
    /\ LoopFree
    /\ run[r].phase # "none" /\ ~run[r].late
    /\ run' = [run EXCEPT ![r] = [@ EXCEPT !.late = TRUE]]
    /\ UNCHANGED <<node, task, extra>>

\* Nothing runs, and every run that started has ended.
Quiescent ==
    /\ Free = Tasks
    /\ \A r \in Runs : run[r].phase \in {"none", "gone"}
    /\ UNCHANGED vars

-----------------------------------------------------------------------------
(* The specification.                                                      *)

\* Micro-steps of the coroutine that holds the loop.
LoopStep(t) ==
    \/ Merge(t) \/ Deliver(t) \/ RouteEnds(t)
    \/ TakeGuided(t) \/ TakeExecution(t) \/ TakeRefused(t) \/ DrainEnds(t)

\* Completions the engine waits for.
Completes(t) ==
    \/ FunctionEnds(t) \/ FunctionRaises(t) \/ ExecuteFails(t) \/ AgentStarted(t)
    \/ \E d \in Data : FunctionDone(t, d)

Resumes(t) ==
    \/ RunSaved(t) \/ HopBegins(t) \/ Completes(t) \/ AgentFailed(t)
    \/ \E d \in Data : AgentDone(t, d)

Activation ==
    \E r \in Runs, src \in Sources, d \in Data :
        \E e \in Entries(src) : StartRun(r, src, e, d) \/ JoinRun(r, src, e, d)

Next ==
    \/ Activation
    \/ \E t \in Tasks : LoopStep(t) \/ Resumes(t)
    \/ \E t \in Tasks, d \in Data : InlineEmit(t, d)
    \/ \E r \in Runs : RecordEnd(r) \/ RemoveRun(r) \/ DeadlinePasses(r)
    \/ Quiescent

Spec == Init /\ [][Next]_vars

\* The event loop resumes what is ready; functions return (a subprocess is
\* killed at the deadline); time passes, and a watcher past the deadline fails.
Fairness ==
    /\ \A t \in Tasks :
        /\ WF_vars(LoopStep(t))
        /\ WF_vars(RunSaved(t)) /\ WF_vars(HopBegins(t))
        /\ WF_vars(Completes(t))
        /\ WF_vars(task[t].pc = "watching" /\ run[task[t].job].late /\ AgentFailed(t))
    /\ \A r \in Runs :
        WF_vars(RecordEnd(r)) /\ WF_vars(RemoveRun(r)) /\ WF_vars(DeadlinePasses(r))

FairSpec == Spec /\ Fairness

-----------------------------------------------------------------------------
(* Properties.                                                             *)

\* What a busy coroutine refers to: its run and event while it routes, the node
\* it drains, the run whose execution it awaits or watches.
WellFormed(k) ==
    /\ k.pc \in {"starting", "scheduled", "routing"} => k.kind # "watch" /\ k.node = None
    /\ k.pc \in {"draining", "executing", "watching"} => k.node \in Nodes
    /\ k.pc \in {"executing", "watching"} <=> k.job # None
    /\ k.pc = "watching" => k.kind = "watch"
    /\ k.pc \in {"idle", "watching"} \/ k.kind = "watch" => k.run = None
    /\ ~(k.pc \in {"idle", "watching"} \/ k.kind = "watch") =>
        k.run \in Runs /\ k.id \in Data

\* Every coroutine is well formed, and the event loop has at most one holder.
Shape ==
    /\ \A t \in Tasks : WellFormed(task[t])
    /\ \A t, u \in Tasks : Holds(task[t]) /\ Holds(task[u]) => t = u

\* The coroutines that hold a reserve on run r: entries and hops still routing.
Reserving(r) == {t \in Tasks : task[t].run = r}

\* The executions of run r, those on node n, and the queued deliveries of r.
ExecutingFor(r) ==
    {t \in Tasks : task[t].pc \in {"executing", "watching"} /\ task[t].job = r}

ExecutingOn(n) ==
    {t \in Tasks : task[t].pc \in {"executing", "watching"} /\ task[t].node = n}

QueuedFor(r) ==
    UNION {{<<n, i>> : i \in {k \in DOMAIN node[n].queue : node[n].queue[k].run = r}}
           : n \in Nodes}

\* A guided step of the run waits for its user.
Parked(r) == run[r].suspendedNodes # {}

Outstanding(r) ==
    \/ Reserving(r) # {} \/ ExecutingFor(r) # {} \/ QueuedFor(r) # {}
    \/ Parked(r)

\* run.pending counts the run's queued deliveries and the reserves held for it,
\* whatever the entries, merges, emissions and failures on the way.
PendingExact ==
    \A r \in Runs :
        run[r].pending = Cardinality(Reserving(r)) + Cardinality(QueuedFor(r))

\* run.active and the node runtime's active count the executions in flight, over
\* slots that pass from a drain to an agent's watcher.
ActiveExact ==
    /\ \A r \in Runs : run[r].active = Cardinality(ExecutingFor(r))
    /\ \A n \in Nodes : node[n].active = Cardinality(ExecutingOn(n))

\* A serial node executes one delivery at a time, of whichever run; a parallel
\* one at most parallel_limit.
NodeLimit == \A n \in Nodes : Cardinality(ExecutingOn(n)) <= Limit[n]

\* No lost wakeup: a node with a queued delivery and a free slot is being
\* drained; no delivery waits for an event that will not come.
NoLostWakeup ==
    \A n \in Nodes : MayTake(n) =>
        \E t \in Tasks : task[t].pc = "draining" /\ task[t].node = n

\* pending_ids of a merge_identical node mirrors its queue: the identities queued,
\* each once, so that a delivery is absorbed only by one that will execute.
PendingIdsMirrorQueue ==
    \A n \in Nodes :
        LET q == node[n].queue IN
        /\ node[n].ids = IF n \in MergeIdentical THEN {q[i].id : i \in DOMAIN q} ELSE {}
        /\ n \in MergeIdentical =>
            \A i, j \in DOMAIN q : q[i].id = q[j].id => i = j

\* A run leaves the live phase only when nothing of it is queued, executing,
\* parked or on its way: the sweep of another run's drain never sinks it early.
SinkOnlyWhenDone ==
    [][\A r \in Runs : run[r].phase = "live" /\ run'[r].phase # "live"
                         => ~Outstanding(r)']_vars

\* Nothing is routed, queued, executed or parked for a run that has sunk, so
\* everything a run does is in the journal before its run_end, unless an event
\* joined the run while it was being finalized.
NothingAfterSink ==
    \A r \in Runs : run[r].phase # "live" /\ ~run[r].rejoined => ~Outstanding(r)

\* The status a run is recorded with is true for good: a run journaled tripped did
\* trip a budget, and one journaled complete did not, unless an event joined it
\* while it was being finalized.
StatusIsFinal ==
    \A r \in Runs : run[r].phase \in {"ended", "gone"} =>
        /\ run[r].status \in {"tripped", "complete"}
        /\ run[r].status = "tripped" => run[r].error
        /\ run[r].status = "complete" /\ run[r].error => run[r].rejoined

\* Every run that starts ends, or waits for its user at a guided step: cycles are
\* cut by max_hops, agents and subprocesses by the deadline, and a run whose last work
\* ended in a coroutine that served another run is swept by that coroutine's drain.
\* The one exception is a run that entered a step it was parked at: counted twice, the
\* step is released once.
RunEnds ==
    \A r \in Runs :
        run[r].phase = "live" ~> (run[r].phase = "gone" \/ Parked(r) \/ run[r].doubled)

-----------------------------------------------------------------------------
(* Refinement: the counters detect the termination of each run.            *)

Lifecycle == INSTANCE RunLifecycle WITH
    phase <- [r \in Runs |-> run[r].phase],
    busy <- [r \in Runs |-> Outstanding(r)],
    rejoined <- [r \in Runs |-> run[r].rejoined]

\* The engine implements RunLifecycle, the work of a run being what is really
\* queued, executing, parked or being routed, not what the counters say.
ImplementsLifecycle == Lifecycle!Spec
====
