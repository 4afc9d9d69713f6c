---- MODULE GraphWorkflowLifecycle_proof ----
(***************************************************************************)
(* The counters of GraphWorkflowManager detect the termination of each     *)
(* run: the engine implements RunLifecycle, for every document, when no    *)
(* function raises, events that join a run being finalized included.       *)
(***************************************************************************)
EXTENDS GraphWorkflowCounters_proof

-----------------------------------------------------------------------------
(* What the counters tell.                                                 *)

\* When the counters are exact they tell whether anything is outstanding.
LEMMA CountersTell ==
    ASSUME AInv, NEW r \in Runs
    PROVE  Outstanding(r) <=>
             run[r].pending # 0 \/ run[r].active # 0 \/ run[r].suspendedNodes # {}
  <1>1. /\ run[r].pending = Cardinality(Reserving(r)) + Cardinality(QueuedFor(r))
        /\ run[r].active = Cardinality(ExecutingFor(r))
        /\ FiniteQueues
    BY DEF AInv, CInv, PendingExact, ActiveExact
  <1> QED
    BY <1>1, Sizes DEF Outstanding, Parked

\* The same, of the next state.
LEMMA CountersTellNext ==
    ASSUME AInv', NEW r \in Runs
    PROVE  Outstanding(r)' <=>
             run'[r].pending # 0 \/ run'[r].active # 0 \/ run'[r].suspendedNodes # {}
  <1>1. /\ run'[r].pending = Cardinality(Reserving(r)') + Cardinality(QueuedFor(r)')
        /\ run'[r].active = Cardinality(ExecutingFor(r)')
        /\ IsFiniteSet(QueuedFor(r)')
    BY DEF AInv, CInv, PendingExact, ActiveExact, FiniteQueues
  <1>2. Reserving(r)' \in SUBSET Tasks /\ ExecutingFor(r)' \in SUBSET Tasks
    BY DEF Reserving, ExecutingFor
  <1>3. \A S : IsFiniteSet(S) => Cardinality(S) \in Nat /\ (Cardinality(S) = 0 <=> S = {})
    BY FS_CardinalityType, FS_EmptySet
  <1>4. IsFiniteSet(Reserving(r)') /\ IsFiniteSet(ExecutingFor(r)')
    BY <1>2, TasksAssumption, FS_Subset
  <1> QED
    BY <1>1, <1>3, <1>4 DEF Outstanding, Parked

\* A run whose counted steps are all released is parked nowhere.
LEMMA NoneParked ==
    ASSUME NEW R, R.suspended = 0, Counted(R)
    PROVE  R.suspendedNodes = {}
  BY FS_CardinalityType, FS_EmptySet DEF Counted

-----------------------------------------------------------------------------
(* Runs after a step.                                                      *)

\* A run that a step takes out of the live phase has nothing left.
LEMMA SinkingStep ==
    ASSUME Raises = {}, AInv, [Next]_vars, NEW r \in Runs,
           run[r].phase = "live", run'[r].phase # "live"
    PROVE  ~Outstanding(r)'
  <1>1. AInv' /\ IInv /\ IInv' /\ FiniteQueues /\ Unborn /\ run[r] \in RunType
    BY StepAInv DEF AInv, CInv, IInv, TypeOK
  <1>2. PICK r0, n0, dr, de, dq : Books(r0, n0, dr, de, dq)
    BY <1>1, StepBooks
  <1>3. Sank(run[r], run'[r])
    <2>1. CASE r = r0
      <3>1. Course(r, run'[r])
        BY <1>2, <2>1 DEF Books
      <3>2. [run[r] EXCEPT !.late = TRUE].phase = run[r].phase
        BY <1>1 DEF RunType
      <3> QED
        BY <3>1, <3>2 DEF Course, Same, Joins
    <2>2. CASE r # r0
      <3>1. run'[r] \in {run[r], Sink(run[r])}
        BY <1>2, <2>2 DEF Books
      <3> QED
        BY <1>1, <3>1, PhaseSteps DEF Same
    <2> QED
      BY <2>1, <2>2
  <1>4. run'[r].suspendedNodes = {}
    <2>1. Counted(run'[r])
      BY <1>1 DEF AInv, CInv, ParkedCounted
    <2> QED
      BY <1>3, <2>1, NoneParked DEF Sank
  <1> QED
    BY <1>1, <1>3, <1>4, CountersTellNext DEF Sank

LInv == AInv /\ NothingAfterSink /\ StatusIsFinal

\* Whatever step of the engine is taken, a run that is not the one it is about stays
\* as it is or sinks.
LEMMA Bystanders ==
    ASSUME Raises = {}, LInv, AInv', NEW r \in Runs, run'[r] \in {run[r], Sink(run[r])}
    PROVE  /\ Outstanding(r)' <=> Outstanding(r)
           /\ \/ run'[r] = run[r]
              \/ /\ run[r].phase = "live" /\ run'[r].phase = "sunk" /\ ~Outstanding(r)
                 /\ run'[r].rejoined = run[r].rejoined
  <1>1. AInv /\ run[r] \in RunType
    BY DEF LInv, AInv, CInv, IInv, TypeOK
  <1>2. Outstanding(r)' <=> Outstanding(r)
    BY <1>1, EndSteps, CountersTell, CountersTellNext
  <1>3. Sink(run[r]) # run[r] =>
          /\ run[r].phase = "live" /\ Sink(run[r]).phase = "sunk"
          /\ run[r].pending = 0 /\ run[r].active = 0 /\ run[r].suspended = 0
    BY <1>1 DEF Sink, RunType
  <1>4. run[r].suspended = 0 => run[r].suspendedNodes = {}
    BY <1>1, NoneParked DEF AInv, CInv, ParkedCounted
  <1>5. run'[r].rejoined = run[r].rejoined
    BY <1>1, EndSteps
  <1> QED
    BY <1>1, <1>2, <1>3, <1>4, <1>5, CountersTell

\* What a step may do to one run: nothing, or lateness; its work, which may end; its
\* start; its recording and its forgetting; a late join, and the late work.
Stands(r) ==
    /\ run'[r] = run[r] \/ run'[r] = [run[r] EXCEPT !.late = TRUE]
    /\ Outstanding(r)' <=> Outstanding(r)

Lives(r) ==
    /\ run[r].phase = "live" /\ run'[r].rejoined = run[r].rejoined
    /\ run'[r].phase = "live" \/ (run'[r].phase = "sunk" /\ ~Outstanding(r)')

Starts(r) ==
    /\ run[r].phase = "none" /\ run'[r].phase = "live"
    /\ run'[r].rejoined = run[r].rejoined /\ Outstanding(r)'

Ends(r) ==
    /\ Outstanding(r)' <=> Outstanding(r)
    /\ \/ run[r].phase = "sunk" /\ run'[r] = Recorded(run[r])
       \/ run[r].phase = "ended" /\ run'[r] = [run[r] EXCEPT !.phase = "gone"]

Keeping(r) ==
    /\ run'[r].phase = run[r].phase /\ run'[r].status = run[r].status
    /\ run[r].error => run'[r].error

JoinsLate(r) ==
    /\ run[r].phase \in {"sunk", "ended"} /\ Keeping(r)
    /\ run'[r].rejoined = TRUE /\ Outstanding(r)'

WorksLate(r) ==
    /\ run[r].phase \in {"sunk", "ended", "gone"} /\ Keeping(r)
    /\ run[r].rejoined /\ run'[r].rejoined = run[r].rejoined /\ Outstanding(r)

Passes(r) ==
    \/ Stands(r) \/ Lives(r) \/ Starts(r) \/ Ends(r) \/ JoinsLate(r) \/ WorksLate(r)

\* The run a step is about takes one of these.
LEMMA CourseOfRun ==
    ASSUME Raises = {}, LInv, AInv', NEW r \in Runs, Course(r, run'[r])
    PROVE  Passes(r)
  <1>1. /\ AInv /\ run[r] \in RunType /\ run'[r] \in RunType
        /\ run[r].phase # "live" /\ ~run[r].rejoined => ~Outstanding(r)
    BY DEF LInv, AInv, CInv, IInv, TypeOK, NothingAfterSink
  <1>2. CASE Outstanding(r) /\ Sank(run[r], run'[r])
    <2>1. Counted(run'[r])
      BY <1>1 DEF AInv, CInv, ParkedCounted
    <2>2. run'[r].suspendedNodes = {}
      BY <1>2, <2>1, NoneParked DEF Sank
    <2>3. ~Outstanding(r)'
      BY <1>2, <2>2, CountersTellNext DEF Sank
    <2> QED
      BY <1>2, <2>3 DEF Sank, Keeps, Passes, Lives
  <1>3. CASE Outstanding(r) /\ Same(run[r], run'[r])
    <2>1. CASE run[r].phase = "live"
      BY <1>3, <2>1 DEF Same, Keeps, Passes, Lives
    <2>2. CASE run[r].phase # "live"
      <3>1. run[r].rejoined /\ run[r].phase \in {"sunk", "ended", "gone"}
        <4>1. run[r].phase # "none"
          BY <1>1, <1>3 DEF AInv, CInv, Unborn
        <4> QED
          BY <1>1, <1>3, <2>2, <4>1 DEF RunType, Phases
      <3> QED
        BY <1>3, <3>1 DEF Same, Keeps, Keeping, Passes, WorksLate
    <2> QED
      BY <2>1, <2>2
  <1>4. CASE run[r].phase = "none" /\ run'[r] = Born
    <2>1. Born.phase = "live" /\ Born.pending = 1 /\ Born.rejoined = FALSE
      BY DEF Born, NoRun, Reserve
    <2>2. run[r].rejoined = FALSE
      BY <1>1, <1>4 DEF AInv, CInv, Unborn, NoRun
    <2>3. run'[r].pending # 0
      BY <1>4, <2>1
    <2>4. Outstanding(r)'
      BY <2>3, CountersTellNext
    <2>5. run'[r].rejoined = run[r].rejoined
      BY <1>4, <2>1, <2>2
    <2>6. Starts(r)
      BY <1>4, <2>1, <2>4, <2>5 DEF Starts
    <2> QED
      BY <2>6 DEF Passes
  <1>5. CASE run[r].phase \in {"live", "sunk", "ended"} /\ Joins(run[r], run'[r])
    <2>1. CASE run[r].phase = "live"
      BY <1>5, <2>1 DEF Joins, Passes, Lives
    <2>2. CASE run[r].phase # "live"
      <3>1. /\ run[r].pending = Cardinality(Reserving(r)) + Cardinality(QueuedFor(r))
            /\ FiniteQueues
        BY <1>1 DEF AInv, CInv, PendingExact
      <3>2. run'[r].pending # 0
        BY <1>5, <3>1, Sizes DEF Joins
      <3>3. Outstanding(r)'
        BY <3>2, CountersTellNext
      <3>4. /\ run[r].phase \in {"sunk", "ended"} /\ run'[r].rejoined = TRUE
            /\ run'[r].phase = run[r].phase /\ run'[r].status = run[r].status
        BY <1>5, <2>2 DEF Joins
      <3>5. run[r].error => run'[r].error
        BY <1>5 DEF Joins
      <3>6. JoinsLate(r)
        BY <3>3, <3>4, <3>5 DEF Keeping, JoinsLate
      <3> QED
        BY <3>6 DEF Passes
    <2> QED
      BY <2>1, <2>2
  <1>6. CASE \/ run[r].phase = "sunk" /\ run'[r] = Recorded(run[r])
             \/ run[r].phase = "ended" /\ run'[r] = [run[r] EXCEPT !.phase = "gone"]
    <2>1. Outstanding(r)' <=> Outstanding(r)
      BY <1>1, <1>6, EndSteps, CountersTell, CountersTellNext
    <2> QED
      BY <1>6, <2>1 DEF Passes, Ends
  <1>7. CASE run[r].phase # "none" /\ run'[r] = [run[r] EXCEPT !.late = TRUE]
    <2>1. Outstanding(r)' <=> Outstanding(r)
      BY <1>1, <1>7, EndSteps, CountersTell, CountersTellNext
    <2> QED
      BY <1>7, <2>1 DEF Passes, Stands
  <1> QED
    BY <1>2, <1>3, <1>4, <1>5, <1>6, <1>7 DEF Course

LEMMA StepPasses ==
    ASSUME Raises = {}, LInv, [Next]_vars
    PROVE  AInv' /\ \A r \in Runs : Passes(r)
  <1>1. AInv /\ AInv' /\ IInv /\ IInv' /\ FiniteQueues /\ Unborn
    BY StepAInv DEF LInv, AInv, CInv
  <1>2. PICK r0, n0, dr, de, dq : Books(r0, n0, dr, de, dq)
    BY <1>1, StepBooks
  <1>3. ASSUME NEW r \in Runs PROVE Passes(r)
    <2>1. CASE r = r0
      <3>1. Course(r, run'[r])
        BY <1>2, <2>1 DEF Books
      <3> QED
        BY <1>1, <3>1, CourseOfRun
    <2>2. CASE r # r0
      <3>1. run'[r] \in {run[r], Sink(run[r])}
        BY <1>2, <2>2 DEF Books
      <3>2. Stands(r) \/ Lives(r)
        BY <1>1, <3>1, Bystanders DEF Stands, Lives
      <3> QED
        BY <3>2 DEF Passes
    <2> QED
      BY <2>1, <2>2
  <1> QED
    BY <1>1, <1>3

LEMMA InitLInv == Init => LInv
  <1> SUFFICES ASSUME Init PROVE LInv
    OBVIOUS
  <1>1. AInv /\ Unborn
    BY InitAInv DEF AInv, CInv
  <1>2. \A r \in Runs : run[r].phase = "none"
    BY DEF Init, NoRun
  <1> QED
    BY <1>1, <1>2 DEF LInv, NothingAfterSink, StatusIsFinal, Unborn

\* What a run's end is recorded as, of the record R.
Recording(R) ==
    R.phase \in {"ended", "gone"} =>
        /\ R.status \in {"tripped", "complete"}
        /\ R.status = "tripped" => R.error
        /\ R.status = "complete" /\ R.error => R.rejoined

\* Every step keeps sunk runs without work, and statuses final, unless they are joined.
LEMMA StepLInv ==
    ASSUME Raises = {}
    PROVE  LInv /\ [Next]_vars => LInv'
  <1> SUFFICES ASSUME LInv, [Next]_vars PROVE LInv'
    OBVIOUS
  <1>1. AInv' /\ \A r \in Runs : Passes(r) /\ run[r] \in RunType
    BY StepPasses DEF LInv, AInv, CInv, IInv, TypeOK
  <1>2. ASSUME NEW r \in Runs
        PROVE  /\ run'[r].phase # "live" /\ ~run'[r].rejoined => ~Outstanding(r)'
               /\ Recording(run'[r])
    <2>1. /\ run[r].phase # "live" /\ ~run[r].rejoined => ~Outstanding(r)
          /\ Recording(run[r]) /\ run[r] \in RunType
      BY <1>1 DEF LInv, NothingAfterSink, StatusIsFinal, Recording
    <2>2. CASE Stands(r)
      <3>1. /\ run'[r].phase = run[r].phase /\ run'[r].rejoined = run[r].rejoined
            /\ run'[r].status = run[r].status /\ run'[r].error = run[r].error
        BY <2>1, <2>2 DEF RunType, Stands
      <3> QED
        BY <2>1, <2>2, <3>1 DEF Stands, Recording
    <2>3. CASE Lives(r) \/ Starts(r)
      BY <2>3 DEF Lives, Starts, Recording
    <2>4. CASE Ends(r)
      <3>1. /\ run'[r].rejoined = run[r].rejoined /\ run'[r].error = run[r].error
            /\ run[r].phase # "live"
        BY <2>1, <2>4, EndSteps DEF Ends
      <3>2. Recording(run'[r])
        <4>1. CASE run[r].phase = "sunk" /\ run'[r] = Recorded(run[r])
          BY <2>1, <3>1, <4>1, EndSteps DEF Recording
        <4>2. CASE run[r].phase = "ended" /\ run'[r] = [run[r] EXCEPT !.phase = "gone"]
          <5>1. run'[r].status = run[r].status
            BY <2>1, <4>2 DEF RunType
          <5> QED
            BY <2>1, <3>1, <4>2, <5>1 DEF Recording
        <4> QED
          BY <2>4, <4>1, <4>2 DEF Ends
      <3> QED
        BY <2>1, <2>4, <3>1, <3>2 DEF Ends
    <2>5. CASE JoinsLate(r)
      BY <2>1, <2>5 DEF JoinsLate, Keeping, Recording
    <2>6. CASE WorksLate(r)
      BY <2>1, <2>6 DEF WorksLate, Keeping, Recording
    <2> QED
      BY <1>1, <2>2, <2>3, <2>4, <2>5, <2>6 DEF Passes
  <1> QED
    BY <1>1, <1>2 DEF LInv, NothingAfterSink, StatusIsFinal, Recording

-----------------------------------------------------------------------------
(* The steps of RunLifecycle.                                              *)

\* Whether a run has work is a truth value, now and next.
LEMMA WorkIsBoolean ==
    ASSUME NEW r \in Runs
    PROVE  /\ Outstanding(r) => Outstanding(r) = TRUE
           /\ ~Outstanding(r) => Outstanding(r) = FALSE
           /\ Outstanding(r)' => Outstanding(r)' = TRUE
           /\ ~Outstanding(r)' => Outstanding(r)' = FALSE
  BY Zenon DEF Outstanding

\* What a run becomes, in the terms of RunLifecycle.
LEMMA Becoming ==
    ASSUME NEW r \in Runs, run'[r].rejoined = run[r].rejoined
    PROVE  /\ Outstanding(r)' => Lifecycle!Becomes(r, run'[r].phase, TRUE)
           /\ ~Outstanding(r)' => Lifecycle!Becomes(r, run'[r].phase, FALSE)
  <1>1. Outstanding(r)' => Lifecycle!Becomes(r, run'[r].phase, TRUE)
    BY WorkIsBoolean, Zenon DEF Lifecycle!Becomes
  <1>2. ~Outstanding(r)' => Lifecycle!Becomes(r, run'[r].phase, FALSE)
    BY WorkIsBoolean, Zenon DEF Lifecycle!Becomes
  <1> QED
    BY <1>1, <1>2

\* A run that keeps its phase, its history and whether it has work.
LEMMA Staying ==
    ASSUME NEW r \in Runs, run'[r].rejoined = run[r].rejoined,
           run'[r].phase = run[r].phase, Outstanding(r)' <=> Outstanding(r)
    PROVE  Lifecycle!Stays(r)
  <1>1. Outstanding(r)' = Outstanding(r)
    BY WorkIsBoolean, Zenon
  <1> QED
    BY <1>1, Zenon DEF Lifecycle!Stays, Lifecycle!Becomes

\* Every step of the engine maps to a step of the abstract specification.
LEMMA StepImplements ==
    ASSUME Raises = {}, LInv, [Next]_vars
    PROVE  Lifecycle!Next
  <1>1. LInv' /\ \A r \in Runs : Passes(r) /\ run[r] \in RunType
    BY StepPasses, StepLInv DEF LInv, AInv, CInv, IInv, TypeOK
  <1>2. ASSUME NEW r \in Runs
        PROVE  \/ Lifecycle!Start(r) \/ Lifecycle!Work(r) \/ Lifecycle!Join(r)
               \/ Lifecycle!Detect(r) \/ Lifecycle!Record(r) \/ Lifecycle!Forget(r)
               \/ Lifecycle!Rejoin(r) \/ Lifecycle!LateWork(r) \/ Lifecycle!Stays(r)
    <2>1. CASE Stands(r)
      <3>1. run'[r].phase = run[r].phase /\ run'[r].rejoined = run[r].rejoined
        BY <1>1, <2>1 DEF RunType, Stands
      <3>2. Lifecycle!Stays(r)
        BY <2>1, <3>1, Staying DEF Stands
      <3> QED
        BY <3>2
    <2>2. CASE Lives(r)
      <3> USE <2>2 DEF Lives
      <3>1. CASE Outstanding(r)
        <4>1. Lifecycle!Work(r)
          BY <3>1, Becoming DEF Lifecycle!Work
        <4> QED
          BY <4>1
      <3>2. CASE ~Outstanding(r)
        <4>1. Outstanding(r)' => Lifecycle!Join(r)
          BY <3>2, Becoming DEF Lifecycle!Join
        <4>2. ~Outstanding(r)' /\ run'[r].phase = "sunk" => Lifecycle!Detect(r)
          BY <3>2, Becoming DEF Lifecycle!Detect
        <4>3. ~Outstanding(r)' /\ run'[r].phase = "live" => Lifecycle!Stays(r)
          BY <3>2, Staying
        <4> QED
          BY <4>1, <4>2, <4>3
      <3> QED
        BY <3>1, <3>2
    <2>3. CASE Starts(r)
      <3>1. Lifecycle!Start(r)
        BY <2>3, Becoming DEF Starts, Lifecycle!Start
      <3> QED
        BY <3>1
    <2>4. CASE Ends(r)
      <3>1. run'[r].rejoined = run[r].rejoined
        BY <1>1, <2>4, EndSteps DEF Ends
      <3>2. Outstanding(r)' = Outstanding(r)
        BY <2>4, WorkIsBoolean, Zenon DEF Ends
      <3>3. CASE run[r].phase = "sunk" /\ run'[r] = Recorded(run[r])
        <4>1. run'[r].phase = "ended" /\ run[r].phase = "sunk"
          BY <1>1, <3>3, EndSteps
        <4>2. Lifecycle!Record(r)
          BY <3>1, <3>2, <4>1, Zenon DEF Lifecycle!Record, Lifecycle!Becomes
        <4> QED
          BY <4>2
      <3>4. CASE run[r].phase = "ended" /\ run'[r] = [run[r] EXCEPT !.phase = "gone"]
        <4>1. run'[r].phase = "gone" /\ run[r].phase = "ended"
          BY <1>1, <3>4, EndSteps
        <4>2. Lifecycle!Forget(r)
          BY <3>1, <3>2, <4>1, Zenon DEF Lifecycle!Forget, Lifecycle!Becomes
        <4> QED
          BY <4>2
      <3> QED
        BY <2>4, <3>3, <3>4 DEF Ends
    <2>5. CASE JoinsLate(r)
      <3>1. /\ Outstanding(r)' = TRUE /\ run'[r].rejoined = TRUE
            /\ run'[r].phase = run[r].phase /\ run[r].phase \in {"sunk", "ended"}
        BY <2>5, WorkIsBoolean, Zenon DEF JoinsLate, Keeping
      <3>2. Lifecycle!Rejoin(r)
        BY <3>1, Zenon DEF Lifecycle!Rejoin
      <3> QED
        BY <3>2
    <2>6. CASE WorksLate(r)
      <3>1. /\ run[r].phase \in {"sunk", "ended", "gone"} /\ run'[r].phase = run[r].phase
            /\ run[r].rejoined /\ run'[r].rejoined = run[r].rejoined /\ Outstanding(r)
        BY <2>6 DEF WorksLate, Keeping
      <3>2. Lifecycle!Becomes(r, run[r].phase, TRUE) \/ Lifecycle!Becomes(r, run[r].phase, FALSE)
        BY <3>1, Becoming
      <3>3. \E b \in BOOLEAN : Lifecycle!Becomes(r, run[r].phase, b)
        BY <3>2
      <3>4. Lifecycle!LateWork(r)
        BY <3>1, <3>3 DEF Lifecycle!LateWork
      <3> QED
        BY <3>4
    <2> QED
      BY <1>1, <2>1, <2>2, <2>3, <2>4, <2>5, <2>6 DEF Passes
  <1> QED
    BY <1>2 DEF Lifecycle!Next

LEMMA InitImplements == Init => Lifecycle!Init
  <1> SUFFICES ASSUME Init PROVE Lifecycle!Init
    OBVIOUS
  <1>1. \A r \in Runs : run[r].phase = "none" /\ run[r].rejoined = FALSE
    BY DEF Init, NoRun
  <1>2. \A r \in Runs : Outstanding(r) = FALSE
    BY <1>1, InitAInv, WorkIsBoolean DEF AInv, CInv, Unborn
  <1>3. [r \in Runs |-> run[r].phase] = [r \in Runs |-> "none"]
    BY <1>1
  <1>4. [r \in Runs |-> Outstanding(r)] = [r \in Runs |-> FALSE]
    BY <1>2, Zenon
  <1>5. [r \in Runs |-> run[r].rejoined] = [r \in Runs |-> FALSE]
    BY <1>1
  <1> QED
    BY <1>3, <1>4, <1>5 DEF Lifecycle!Init

-----------------------------------------------------------------------------
(* Theorems.                                                               *)

\* When no function raises a run sinks only in a step after which nothing of it is left,
\* whichever run's drain swept it and whatever was injected into runs that had ended.
THEOREM SinksWhenDone ==
    ASSUME Raises = {}
    PROVE  Spec => SinkOnlyWhenDone
  <1>1. AInv /\ [Next]_vars => AInv'
    BY StepAInv
  <1>2. Spec => []AInv
    BY <1>1, InitAInv, PTL DEF Spec
  <1>3. AInv /\ [Next]_vars =>
          \A r \in Runs : run[r].phase = "live" /\ run'[r].phase # "live" => ~Outstanding(r)'
    BY SinkingStep
  <1>4. AInv /\ [Next]_vars => [\A r \in Runs :
          run[r].phase = "live" /\ run'[r].phase # "live" => ~Outstanding(r)']_vars
    BY <1>3
  <1> QED
    BY <1>2, <1>4, PTL DEF SinkOnlyWhenDone, Spec

\* Nothing is routed, queued, executed or parked for a run that has sunk, in every
\* document and interleaving, when no function raises, unless an event joined the run
\* while it was being finalized: the engine itself starts no late work.
THEOREM QuietAfterSink ==
    ASSUME Raises = {}
    PROVE  Spec => []NothingAfterSink
  <1>1. LInv /\ [Next]_vars => LInv'
    BY StepLInv
  <1>2. Spec => []LInv
    BY <1>1, InitLInv, PTL DEF Spec
  <1>3. LInv => NothingAfterSink
    BY DEF LInv
  <1> QED
    BY <1>2, <1>3, PTL

\* When no function raises the status a run is journaled with stays true, whatever the
\* budgets do after run_end: only an event that joined the run can belie it.
THEOREM StatusStays ==
    ASSUME Raises = {}
    PROVE  Spec => []StatusIsFinal
  <1>1. LInv /\ [Next]_vars => LInv'
    BY StepLInv
  <1>2. Spec => []LInv
    BY <1>1, InitLInv, PTL DEF Spec
  <1>3. LInv => StatusIsFinal
    BY DEF LInv
  <1> QED
    BY <1>2, <1>3, PTL

\* When no function raises the engine implements RunLifecycle, late joins included: by
\* its counters alone it believes of each run what is true of its coroutines and
\* queues, so it never sinks one that still works.
THEOREM EngineImplementsLifecycle ==
    ASSUME Raises = {}
    PROVE  Spec => ImplementsLifecycle
  <1>1. LInv /\ [Next]_vars => LInv'
    BY StepLInv
  <1>2. Spec => []LInv
    BY <1>1, InitLInv, PTL DEF Spec
  <1>3. LInv /\ [Next]_vars => [Lifecycle!Next]_(Lifecycle!vars)
    BY StepImplements
  <1> QED
    BY <1>2, <1>3, InitImplements, PTL DEF Spec, ImplementsLifecycle, Lifecycle!Spec

====
