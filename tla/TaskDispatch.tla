---------------------------- MODULE TaskDispatch ----------------------------
(***************************************************************************)
(* The delegated tasks of one creator: the ledger (tasks/ledger.py), the   *)
(* dispatch of runs (tasks/dispatch.py), the delivery of news to a run     *)
(* (tasks/delivery.py) and the subscriber that drives them                 *)
(* (tasks/runtime.py).                                                     *)
(*                                                                         *)
(* A lane is a coroutine: an HTTP request that changes a task, or the      *)
(* handling of one piece of news.  Every step of a lane ends at an await   *)
(* that reads or writes a row; what the coroutine carries over the await,  *)
(* a row as it was read or a list of tasks, is part of the lane's record.  *)
(* A row is read, changed and saved whole, and nothing orders the writers  *)
(* of one row; any coroutine may break off with an exception.  Two history *)
(* variables, read by no action, tell the properties that it happened.     *)
(***************************************************************************)
EXTENDS Integers, Sequences, FiniteSets

CONSTANTS
    NTasks,      \* tasks are 1 .. NTasks, in the order they are created
    Lanes,       \* coroutines alive at once
    MaxRuns,     \* MAX_RUNS of dispatch.py
    Budget,      \* budget_turns of a task, 0 when it has none
    Unknown,     \* tasks whose owner may turn out to be no staff member
    Spenders,    \* tasks with a budget_usd that their run may cross
    Requests,    \* <<task, author, event>>: what participants may ask for
    MaxRequests, \* bound: requests accepted
    MaxProcs,    \* bound: processes spawned
    MaxFaults    \* bound: coroutines that an exception ends

Task == 1..NTasks
Terminal == {"done", "failed", "canceled"}
Status == {"none", "submitted", "working", "input_required"} \cup Terminal
Role == {"creator", "owner", "system"}
Event == {"created", "started", "note", "asked", "replied", "done", "failed", "canceled"}

ASSUME TaskDispatchAssumption ==
    /\ NTasks \in Nat \ {0} /\ MaxRuns \in Nat \ {0}
    /\ Budget \in [Task -> Nat]
    /\ Unknown \subseteq Task /\ Spenders \subseteq Task
    /\ Requests \subseteq Task \X {"creator", "owner"} \X (Event \ {"created"})
    /\ MaxRequests \in Nat /\ MaxProcs \in Nat /\ MaxFaults \in Nat

VARIABLES
    row,   \* row[t]: the stored task: its status, and its run (0: none)
    run,   \* the processes spawned, in order: their task, turns counted, turns given
    lane,  \* lane[l]: a coroutine
    news,  \* ledger events announced whose handler has not started
    asked, \* requests accepted so far
    faults,\* coroutines ended by an exception so far
    raced, \* history: the tasks whose row was saved over a version the writer had not read
    broken \* history: since the waiting tasks were last listed, a coroutine was ended by an
           \* exception or a row was saved over an unread version

history == <<raced, broken>>
vars == <<row, run, lane, news, asked, faults, history>>

RowType == [status : Status, process : 0..MaxProcs]
RunType == [task : Task, turns : Nat, given : Nat]
NewsType == [task : Task, event : Event, author : Role]
Pc == {"idle", "saving", "announcing", "delivering", "reading", "budget", "dispatch",
       "spawning", "attach", "attaching", "turning", "failing", "listing"}
LaneType == [pc : Pc, task : Task, event : Event, author : Role, copy : RowType,
             proc : 0..MaxProcs, turns : Nat, frees : BOOLEAN, todo : SUBSET Task]

NoRow == [status |-> "none", process |-> 0]
Idle == [pc |-> "idle", task |-> 1, event |-> "created", author |-> "creator",
         copy |-> NoRow, proc |-> 0, turns |-> 0, frees |-> FALSE, todo |-> {}]

Init ==
    /\ row = [t \in Task |-> NoRow]
    /\ run = <<>>
    /\ lane = [l \in Lanes |-> Idle]
    /\ news = <<>>
    /\ asked = 0 /\ faults = 0
    /\ raced = {} /\ broken = FALSE

-----------------------------------------------------------------------------
(* What the rows say.                                                      *)

Open(t) == row[t].status \notin Terminal \cup {"none"}

\* A task that no run works and that may still be given one.
IsWaiting(r) == r.status = "submitted" /\ r.process = 0
Waiting(t) == IsWaiting(row[t])

\* live_runs: the open tasks that hold a run.
LiveRuns == {t \in Task : Open(t) /\ row[t].process # 0}

-----------------------------------------------------------------------------
(* The ledger: one event on one task.                                      *)

\* _BY: who may raise which event.
By(event) ==
    CASE event = "started" -> {"owner", "system"}
      [] event \in {"note", "replied"} -> {"owner", "creator"}
      [] event \in {"asked", "done"} -> {"owner"}
      [] event = "failed" -> {"owner", "system"}
      [] event = "canceled" -> {"creator", "system"}
      [] OTHER -> {}

\* Mutant of Accepts: a task asks before it is at work.
AcceptsEarlyQuestions(status, event, author) ==
    author \in By(event) /\ status \notin Terminal \cup {"none"}

\* What record refuses: a stranger, a terminal task, an event out of turn.
Accepts(status, event, author) ==
    /\ author \in By(event)
    /\ status \notin Terminal \cup {"none"}
    /\ event = "asked" => status = "working"

\* Mutant of StatusAfter: a note, too, becomes the status.
StatusAfterNote(status, event) ==
    IF event = "started" THEN "working" ELSE event

\* _TO, and the answer that puts a task back to work.
StatusAfter(status, event) ==
    CASE event = "started" -> "working"
      [] event = "asked" -> "input_required"
      [] event = "replied" /\ status = "input_required" -> "working"
      [] event \in {"done", "failed", "canceled"} -> event
      [] OTHER -> status

\* A coroutine between its read of row t and its save of it.
Writes(ln, t) == ln.pc \in {"saving", "attaching"} /\ ln.task = t

\* The coroutine has read the row and checked the event; the save is still to come.
Recording(ln, t, event, author) ==
    [ln EXCEPT !.pc = "saving", !.task = t, !.event = event, !.author = author, !.copy = row[t]]

\* dispatch_waiting turns to the oldest task of its list.
Oldest(todo) == CHOOSE t \in todo : \A u \in todo : t <= u
Turned(todo) ==
    [Idle EXCEPT !.pc = "dispatch", !.task = Oldest(todo), !.todo = todo \ {Oldest(todo)}]

\* Mutant of Resumed: capacity that was freed is offered to nobody.
ResumedUnlisted(ln) == IF ln.todo # {} THEN Turned(ln.todo) ELSE Idle

\* What a coroutine does when one dispatch, turn or record of its is over: the next
\* task of its list, the list itself when the news freed capacity, or nothing more.
Resumed(ln) ==
    IF ln.todo # {}
      THEN Turned(ln.todo)
      ELSE IF ln.frees THEN [Idle EXCEPT !.pc = "listing"] ELSE Idle

At(l, pc) == lane[l].pc = pc
Goto(l, ln) == lane' = [lane EXCEPT ![l] = ln]

\* The row a coroutine is about to save is no longer the one it read.
Overtaken(l) == lane[l].copy # row[lane[l].task]

\* save: the row is written whole, whatever it says by then.
SaveRow(l, r) ==
    /\ row' = [row EXCEPT ![lane[l].task] = r]
    /\ raced' = IF Overtaken(l) THEN raced \cup {lane[l].task} ELSE raced
    /\ broken' = (broken \/ Overtaken(l))

\* A task is created: its row is stored, its announcement is still to come.
Create(l, t) ==
    /\ At(l, "idle")
    /\ row[t].status = "none" /\ \A u \in 1..(t - 1) : row[u].status # "none"
    /\ row' = [row EXCEPT ![t] = [status |-> "submitted", process |-> 0]]
    /\ Goto(l, [Idle EXCEPT !.pc = "announcing", !.task = t])
    /\ UNCHANGED <<run, news, asked, faults, history>>

\* A participant raises an event; the owner's side is a run that was given a turn.
Request(l, t, author, event) ==
    /\ At(l, "idle") /\ asked < MaxRequests
    /\ <<t, author, event>> \in Requests
    /\ author = "owner" => \E p \in DOMAIN run : run[p].task = t /\ run[p].given > 0
    /\ Accepts(row[t].status, event, author)
    /\ Goto(l, Recording(Idle, t, event, author))
    /\ asked' = asked + 1
    /\ UNCHANGED <<row, run, news, faults, history>>

\* The row as it was read, with the status that follows the event.
Recorded(ln) == [ln.copy EXCEPT !.status = StatusAfter(ln.copy.status, ln.event)]

SaveRecord(l) ==
    /\ At(l, "saving")
    /\ SaveRow(l, Recorded(lane[l]))
    /\ Goto(l, [lane[l] EXCEPT !.pc = "announcing", !.copy = NoRow])
    /\ UNCHANGED <<run, news, asked, faults>>

\* The comment is in the log and the event on the bus.
Announce(l) ==
    /\ At(l, "announcing")
    /\ news' = Append(news, [task |-> lane[l].task, event |-> lane[l].event,
                             author |-> lane[l].author])
    /\ Goto(l, Resumed(lane[l]))
    /\ UNCHANGED <<row, run, asked, faults, history>>

-----------------------------------------------------------------------------
(* The runtime: what one piece of news sets in motion.                     *)

ForTheRun == {"replied", "note", "canceled"}

\* Mutant of Heard: only a task that is done frees capacity.
HeardDone(l, e, pc) ==
    [Idle EXCEPT !.pc = pc, !.task = e.task, !.event = e.event, !.author = e.author,
                 !.frees = row[e.task].status = "done"]

Heard(l, e, pc) ==
    [Idle EXCEPT !.pc = pc, !.task = e.task, !.event = e.event, !.author = e.author,
                 !.frees = row[e.task].status \in Terminal]

\* on_task_event reads the task, then starts, feeds, frees or checks.
HandleNews(l) ==
    /\ At(l, "idle") /\ news # <<>>
    /\ news' = Tail(news)
    /\ LET e == Head(news)
           delivered == e.event \in ForTheRun /\ e.author # "owner"
       IN \/ /\ e.event = "created"
             /\ Goto(l, IF Waiting(e.task) THEN Heard(l, e, "dispatch") ELSE Resumed(Heard(l, e, "idle")))
          \/ /\ delivered
             /\ Goto(l, Heard(l, e, "delivering"))
          \/ /\ e.event # "created" /\ ~delivered
             /\ Goto(l, IF e.author = "owner" /\ row[e.task].status \notin Terminal
                          THEN Heard(l, e, "budget") ELSE Resumed(Heard(l, e, "idle")))
    /\ UNCHANGED <<row, run, asked, faults, history>>

\* deliver reads the task again: its run gets the news, an answer to a task without
\* a run may start one.
Deliver(l) ==
    /\ At(l, "delivering")
    /\ LET t == lane[l].task
       IN Goto(l, IF row[t].process # 0
                    THEN [lane[l] EXCEPT !.pc = "reading", !.proc = row[t].process]
                    ELSE IF lane[l].event = "replied" /\ Waiting(t)
                      THEN [lane[l] EXCEPT !.pc = "dispatch"]
                      ELSE Resumed(lane[l]))
    /\ UNCHANGED <<row, run, news, asked, faults, history>>

\* check_budget: the run has spent more than the task's budget_usd, or has not.
BudgetHolds(l) ==
    /\ At(l, "budget")
    /\ Goto(l, Resumed(lane[l]))
    /\ UNCHANGED <<row, run, news, asked, faults, history>>

BudgetCrossed(l) ==
    /\ At(l, "budget") /\ lane[l].task \in Spenders
    /\ Goto(l, [lane[l] EXCEPT !.pc = "failing"])
    /\ UNCHANGED <<row, run, news, asked, faults, history>>

\* The machinery fails a task through the ledger ...
Fail(l) ==
    /\ At(l, "failing")
    /\ Accepts(row[lane[l].task].status, "failed", "system")
    /\ Goto(l, Recording(lane[l], lane[l].task, "failed", "system"))
    /\ UNCHANGED <<row, run, news, asked, faults, history>>

\* ... which raises when the task is already terminal: the handler ends there.
FailRefused(l) ==
    /\ At(l, "failing")
    /\ ~Accepts(row[lane[l].task].status, "failed", "system")
    /\ Goto(l, Idle)
    /\ UNCHANGED <<row, run, news, asked, faults, history>>

\* dispatch_waiting lists what waits, oldest first.
ListWaiting(l) ==
    /\ At(l, "listing")
    /\ Goto(l, Resumed([Idle EXCEPT !.todo = {t \in Task : Waiting(t)}]))
    /\ broken' = FALSE
    /\ UNCHANGED <<row, run, news, asked, faults, raced>>

-----------------------------------------------------------------------------
(* Dispatch: a run is spawned for a task, stamped on it, and given a turn. *)

AtCapacity == Cardinality(LiveRuns) >= MaxRuns

DispatchWaits(l) ==
    /\ At(l, "dispatch") /\ AtCapacity
    /\ Goto(l, Resumed(lane[l]))
    /\ UNCHANGED <<row, run, news, asked, faults, history>>

DispatchGoes(l) ==
    /\ At(l, "dispatch") /\ ~AtCapacity
    /\ Goto(l, [lane[l] EXCEPT !.pc = "spawning"])
    /\ UNCHANGED <<row, run, news, asked, faults, history>>

\* load_subagent finds nobody of that name.
NobodyOfThatName(l) ==
    /\ At(l, "spawning") /\ lane[l].task \in Unknown
    /\ Goto(l, [lane[l] EXCEPT !.pc = "failing"])
    /\ UNCHANGED <<row, run, news, asked, faults, history>>

\* Building the run takes seconds, and ends with its process row.
SpawnRun(l) ==
    /\ At(l, "spawning") /\ Len(run) < MaxProcs
    /\ run' = Append(run, [task |-> lane[l].task, turns |-> 0, given |-> 0])
    /\ Goto(l, [lane[l] EXCEPT !.pc = "attach", !.proc = Len(run) + 1])
    /\ UNCHANGED <<row, news, asked, faults, history>>

\* Mutant of Stamped: the run is stamped on the task as dispatch was given it.
StampedStale(ln) == [status |-> "submitted", process |-> ln.proc]

Stamped(ln) == [ln.copy EXCEPT !.process = ln.proc]

\* attach_run reads the task as it is now (it would raise if there were none) ...
AttachReads(l) ==
    /\ At(l, "attach") /\ row[lane[l].task].status # "none"
    /\ Goto(l, [lane[l] EXCEPT !.pc = "attaching", !.copy = row[lane[l].task]])
    /\ UNCHANGED <<row, run, news, asked, faults, history>>

\* give_turn: one more turn than the process (as read) has counted, or too many.
Turn(ln, turns) ==
    IF Budget[ln.task] # 0 /\ turns + 1 > Budget[ln.task]
      THEN [ln EXCEPT !.pc = "failing", !.copy = NoRow]
      ELSE [ln EXCEPT !.pc = "turning", !.copy = NoRow, !.turns = turns + 1]

\* ... and saves it with the run; the first turn follows, counted from a fresh process.
AttachSaves(l) ==
    /\ At(l, "attaching")
    /\ SaveRow(l, Stamped(lane[l]))
    /\ Goto(l, Turn(lane[l], 0))
    /\ UNCHANGED <<run, news, asked, faults>>

\* A turn for a run that exists: its process is read first.
ReadRun(l) ==
    /\ At(l, "reading")
    /\ Goto(l, Turn(lane[l], run[lane[l].proc].turns))
    /\ UNCHANGED <<row, run, news, asked, faults, history>>

\* The process is saved whole, and the prompt put on its queue.
GiveTurn(l) ==
    /\ At(l, "turning")
    /\ run' = [run EXCEPT ![lane[l].proc].turns = lane[l].turns, ![lane[l].proc].given = @ + 1]
    /\ Goto(l, Resumed(lane[l]))
    /\ UNCHANGED <<row, news, asked, faults, history>>

\* An exception: the handler ends in _safely, a request in an error.  What was saved stays
\* saved; what was still to be announced, dispatched or listed is left.
Raise(l) ==
    /\ ~At(l, "idle") /\ faults < MaxFaults
    /\ faults' = faults + 1
    /\ broken' = TRUE
    /\ Goto(l, Idle)
    /\ UNCHANGED <<row, run, news, asked, raced>>

-----------------------------------------------------------------------------
Quiet == news = <<>> /\ \A l \in Lanes : At(l, "idle")

\* Nothing is left to do unless a participant acts: a stop of the machinery, not of a task.
AtRest == Quiet /\ UNCHANGED vars

\* What the event loop does for a coroutine that is under way.
LaneStep(l) ==
    \/ SaveRecord(l) \/ Announce(l)
    \/ Deliver(l) \/ BudgetHolds(l) \/ BudgetCrossed(l) \/ Fail(l) \/ FailRefused(l) \/ ListWaiting(l)
    \/ DispatchWaits(l) \/ DispatchGoes(l) \/ NobodyOfThatName(l) \/ SpawnRun(l)
    \/ AttachReads(l) \/ AttachSaves(l) \/ ReadRun(l) \/ GiveTurn(l)

Next ==
    \/ \E l \in Lanes, t \in Task : Create(l, t)
    \/ \E l \in Lanes, t \in Task, author \in Role, event \in Event : Request(l, t, author, event)
    \/ \E l \in Lanes : HandleNews(l) \/ LaneStep(l) \/ Raise(l)
    \/ AtRest

Spec == Init /\ [][Next]_vars

\* The loop resumes every coroutine that can go on and starts every handler; no
\* participant has to do anything and nothing has to fail.
FairSpec ==
    /\ Spec
    /\ \A l \in Lanes : WF_vars(LaneStep(l))
    /\ WF_vars(\E l \in Lanes : HandleNews(l))

-----------------------------------------------------------------------------
(* Properties.                                                             *)

TypeOK ==
    /\ row \in [Task -> RowType]
    /\ run \in Seq(RunType) /\ Len(run) <= MaxProcs
    /\ lane \in [Lanes -> LaneType]
    /\ news \in Seq(NewsType)
    /\ asked \in 0..MaxRequests /\ faults \in 0..MaxFaults
    /\ raced \subseteq Task /\ broken \in BOOLEAN

\* "nothing more happens to it" (ledger.py): the one way a task leaves a terminal status is
\* a save by a coroutine that read the row before it came to say what it says.
TerminalIsFinal ==
    [][\A t \in Task :
         row[t].status \in Terminal /\ row'[t].status # row[t].status
           => \E l \in Lanes : Writes(lane[l], t) /\ Overtaken(l)]_vars

\* The ledger implements TaskLedger, in which a task is lost to the ledger only once its row
\* is saved over a version the writer had not read.
Ledger == INSTANCE TaskLedger WITH
    status <- [t \in Task |-> IF t \in raced THEN "overwritten" ELSE row[t].status],
    manned <- [t \in Task |-> t \notin raced /\ row[t].process # 0]

ImplementsLedger == Ledger!Spec

\* "beyond that a task waits submitted and starts when one finishes" (dispatch.py): once
\* the machinery has acted on everything announced, a task still waits only because its
\* creator has no room, or because a coroutine broke off or overwrote a row since the
\* waiting tasks were last listed.
NoForgottenTask ==
    Quiet /\ (\E t \in Task : Waiting(t)) => AtCapacity \/ broken

\* The same over time: room that a waiting task could take does not stay free.
FreeRoomIsTaken ==
    \A t \in Task : (Waiting(t) /\ ~AtCapacity) ~> (~Waiting(t) \/ AtCapacity \/ broken)
=============================================================================
