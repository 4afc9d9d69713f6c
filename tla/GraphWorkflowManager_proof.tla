---- MODULE GraphWorkflowManager_proof ----
(***************************************************************************)
(* Theorems about GraphWorkflowManager, for every document, every number   *)
(* of runs and coroutines, and every budget.                               *)
(***************************************************************************)
EXTENDS GraphWorkflowManager, TLAPS

-----------------------------------------------------------------------------
(* The operations on run records and coroutines.                           *)

\* The operations of the engine on a _Run keep it a run record.
LEMMA RunOperations ==
    ASSUME NEW R \in RunType
    PROVE  /\ Reserve(R) \in RunType /\ Unreserve(R) \in RunType
           /\ Begin(R) \in RunType /\ Finish(R) \in RunType
           /\ Trip(R) \in RunType /\ Sink(R) \in RunType
           /\ \A n \in Nodes : Park(R, n) \in RunType
           /\ \A src : Release(R, src) \in RunType
           /\ Joined(R) \in RunType
           /\ \A hop \in Nat : Routed(R, hop) \in RunType
           /\ Recorded(R) \in RunType
           /\ [R EXCEPT !.phase = "live"] \in RunType
           /\ [R EXCEPT !.phase = "gone"] \in RunType
           /\ [R EXCEPT !.late = TRUE] \in RunType
           /\ Spawn(R) \in RunType
  <1>1. Reserve(R) \in RunType /\ Unreserve(R) \in RunType
    BY DEF RunType, Reserve, Unreserve
  <1>2. Begin(R) \in RunType
    <2>1. ASSUME NEW S \in RunType PROVE [S EXCEPT !.active = @ + 1] \in RunType
      BY DEF RunType
    <2> QED
      BY <1>1, <2>1 DEF Begin
  <1>3. Finish(R) \in RunType
    BY DEF RunType, Finish
  <1>4. Trip(R) \in RunType /\ Sink(R) \in RunType
    BY DEF RunType, Trip, Sink, Phases
  <1>5. ASSUME NEW n \in Nodes PROVE Park(R, n) \in RunType
    <2>1. [R EXCEPT !.suspended = @ + 1] \in RunType
      BY DEF RunType
    <2>2. ASSUME NEW S \in RunType, NEW again \in BOOLEAN
          PROVE  [S EXCEPT !.doubled = @ \/ again] \in RunType
      BY DEF RunType
    <2>3. ASSUME NEW S \in RunType
          PROVE  [S EXCEPT !.suspendedNodes = @ \cup {n}] \in RunType
      BY DEF RunType
    <2>4. (n \in R.suspendedNodes) \in BOOLEAN
      OBVIOUS
    <2> QED
      BY <2>1, <2>2, <2>3, <2>4 DEF Park
  <1>6. ASSUME NEW src PROVE Release(R, src) \in RunType
    <2>1. [R EXCEPT !.suspended = IF @ = 0 THEN 0 ELSE @ - 1] \in RunType
      BY DEF RunType
    <2>2. ASSUME NEW S \in RunType
          PROVE  [S EXCEPT !.suspendedNodes = @ \ {src}] \in RunType
      BY DEF RunType
    <2> QED
      BY <2>1, <2>2 DEF Release
  <1>7. \A hop \in Nat : Routed(R, hop) \in RunType
    BY BudgetAssumption DEF RunType, Routed, Trips
  <1>8. Recorded(R) \in RunType
    <2>1. [R EXCEPT !.phase = "ended"] \in RunType
      BY DEF RunType, Phases
    <2>2. ASSUME NEW S \in RunType, NEW b \in BOOLEAN
          PROVE  [S EXCEPT !.status = IF b THEN "tripped" ELSE "complete"] \in RunType
      BY DEF RunType
    <2>3. R.error \in BOOLEAN
      BY DEF RunType
    <2> QED
      BY <2>1, <2>2, <2>3 DEF Recorded
  <1>9. [R EXCEPT !.phase = "live"] \in RunType /\ [R EXCEPT !.phase = "gone"] \in RunType
    BY DEF RunType, Phases
  <1>10. [R EXCEPT !.late = TRUE] \in RunType
    BY DEF RunType
  <1>11. Spawn(R) \in RunType
    BY DEF RunType, Spawn
  <1>12. Joined(R) \in RunType
    BY DEF RunType, Joined
  <1> QED
    BY <1>1, <1>2, <1>3, <1>4, <1>5, <1>6, <1>7, <1>8, <1>9, <1>10, <1>11, <1>12

\* A run is a run record before it starts and when it is born.
LEMMA NewRuns == NoRun \in RunType /\ Born \in RunType
  <1>1. NoRun \in RunType
    BY DEF NoRun, RunType, Phases
  <1> QED
    BY <1>1, RunOperations DEF Born

\* At changes where a coroutine is, and nothing else.
LEMMA AtChanges ==
    ASSUME NEW k \in TaskType, NEW pc \in {"routing", "draining", "executing"}
    PROVE  /\ At(k, pc) \in TaskType /\ At(k, pc).pc = pc
           /\ At(k, pc).kind = k.kind /\ At(k, pc).run = k.run
           /\ At(k, pc).id = k.id /\ At(k, pc).node = k.node
           /\ At(k, pc).job = k.job
  BY DEF TaskType, At

\* Todo changes what is left to route, and nothing else.
LEMMA TodoChanges ==
    ASSUME NEW k \in TaskType, NEW todo \in Seq(Nodes)
    PROVE  /\ Todo(k, todo) \in TaskType
           /\ Todo(k, todo).pc = k.pc /\ Todo(k, todo).kind = k.kind
           /\ Todo(k, todo).run = k.run /\ Todo(k, todo).id = k.id
           /\ Todo(k, todo).node = k.node /\ Todo(k, todo).job = k.job
  BY DEF TaskType, Todo

\* OnNode changes the node a coroutine drains, and nothing else.
LEMMA OnNodeChanges ==
    ASSUME NEW k \in TaskType, NEW n \in Nodes \cup {None}
    PROVE  /\ OnNode(k, n) \in TaskType /\ OnNode(k, n).node = n
           /\ OnNode(k, n).pc = k.pc /\ OnNode(k, n).kind = k.kind
           /\ OnNode(k, n).run = k.run /\ OnNode(k, n).id = k.id
           /\ OnNode(k, n).job = k.job
  BY DEF TaskType, OnNode

\* ForRun changes the run a coroutine executes for, and nothing else.
LEMMA ForRunChanges ==
    ASSUME NEW k \in TaskType, NEW r \in Runs \cup {None}
    PROVE  /\ ForRun(k, r) \in TaskType /\ ForRun(k, r).job = r
           /\ ForRun(k, r).pc = k.pc /\ ForRun(k, r).kind = k.kind
           /\ ForRun(k, r).run = k.run /\ ForRun(k, r).id = k.id
           /\ ForRun(k, r).node = k.node
  BY DEF TaskType, ForRun

\* A fresh slot is idle.
LEMMA NewTaskIsIdle ==
    ASSUME Free # {}
    PROVE  NewTask \in Tasks /\ task[NewTask].pc = "idle"
  BY DEF Free, NewTask

\* The coroutines the engine creates are well formed; of them only an event that
\* joins a run holds the loop at once.
LEMMA NewCoroutines ==
    /\ Idle \in TaskType /\ WellFormed(Idle) /\ ~Holds(Idle)
    /\ \A pc \in {"starting", "scheduled", "routing"}, kind \in {"entry", "direct", "hop"},
          r \in Runs, hop \in Nat, d \in Data, todo \in Seq(Nodes) :
            /\ Routing(pc, kind, r, hop, d, todo) \in TaskType
            /\ WellFormed(Routing(pc, kind, r, hop, d, todo))
            /\ pc # "routing" => ~Holds(Routing(pc, kind, r, hop, d, todo))
    /\ \A n \in Nodes, r \in Runs :
            /\ Watcher(n, r) \in TaskType
            /\ WellFormed(Watcher(n, r)) /\ ~Holds(Watcher(n, r))
  BY NoneAssumption DEF Idle, Routing, Watcher, TaskType, WellFormed, Holds

-----------------------------------------------------------------------------
(* The inductive invariant: types, the shape of coroutines, one holder.    *)

IInv == TypeOK /\ Shape

\* A step that moves coroutine t, which holds the loop or finds it free, and
\* gives the loop to no other coroutine leaves one holder.
LEMMA HolderMoves ==
    ASSUME Shape, NEW t \in Tasks, LoopFree \/ Holds(task[t]),
           \A u \in Tasks \ {t} : Holds(task[u])' => Holds(task[u]),
           \A u \in Tasks : WellFormed(task[u])'
    PROVE  Shape'
  BY DEF Shape, LoopFree

\* The initial state.
LEMMA InitIInv == Init => IInv
  <1> SUFFICES ASSUME Init PROVE IInv
    OBVIOUS
  <1>1. NoRun \in RunType
    BY NewRuns
  <1>2. [queue |-> <<>>, active |-> 0, ids |-> {}] \in NodeType
    BY DEF NodeType
  <1>3. Idle \in TaskType /\ WellFormed(Idle) /\ ~Holds(Idle)
    BY NewCoroutines
  <1>4. TypeOK
    BY <1>1, <1>2, <1>3, BudgetAssumption DEF Init, TypeOK
  <1>5. Shape
    BY <1>3 DEF Init, Shape
  <1> QED
    BY <1>4, <1>5 DEF IInv

\* Activations.
LEMMA ActivationIInv ==
    ASSUME IInv, NEW r \in Runs, NEW src \in Sources, NEW d \in Data,
           NEW e \in Entries(src), StartRun(r, src, e, d) \/ JoinRun(r, src, e, d)
    PROVE  IInv'
  <1> USE DEF IInv, TypeOK
  <1>1. e.kind \in {"entry", "direct"} /\ e.todo \in Seq(Nodes)
    <2>1. Edges[src] \in Seq(Nodes)
      BY EdgesAssumption, InjectionAssumption
    <2>2. CASE e = [kind |-> "entry", todo |-> Edges[src]]
      BY <2>1, <2>2
    <2>3. ASSUME NEW n \in Targets, e = [kind |-> "direct", todo |-> <<n>>]
          PROVE  e.kind \in {"entry", "direct"} /\ e.todo \in Seq(Nodes)
      BY <2>3, InjectionAssumption
    <2>4. CASE e = [kind |-> "direct", todo |-> <<>>]
      BY <2>4
    <2> QED
      BY <2>2, <2>3, <2>4 DEF Entries
  <1>2. NewTask \in Tasks /\ task[NewTask].pc = "idle" /\ LoopFree
    BY NewTaskIsIdle DEF StartRun, JoinRun
  <1>3. CASE StartRun(r, src, e, d)
    <2>1. Born \in RunType
      BY NewRuns
    <2> DEFINE k == Routing("starting", e.kind, r, 0, d, e.todo)
    <2>2. k \in TaskType /\ WellFormed(k) /\ ~Holds(k)
      BY <1>1, NewCoroutines
    <2>3. TypeOK'
      BY <1>3, <2>1, <2>2 DEF StartRun
    <2>4. Shape'
      BY <1>2, <1>3, <2>2, HolderMoves DEF StartRun, Shape
    <2> QED
      BY <2>3, <2>4
  <1>4. CASE JoinRun(r, src, e, d)
    <2> DEFINE joined == Release(Reserve(Joined(run[r])), src)
               todo == IF e.kind = "entry" /\ Trips(joined, 0) THEN <<>> ELSE e.todo
               k == Routing("routing", e.kind, r, 0, d, todo)
    <2>1. joined \in RunType /\ Routed(joined, 0) \in RunType
      BY RunOperations
    <2>2. k \in TaskType /\ WellFormed(k)
      <3>1. todo \in Seq(Nodes)
        BY <1>1
      <3> QED
        BY <1>1, <3>1, NewCoroutines
    <2>3. task' = [task EXCEPT ![NewTask] = k]
      BY <1>4 DEF JoinRun
    <2>4. TypeOK'
      <3>1. run' \in [Runs -> RunType]
        BY <1>4, <2>1 DEF JoinRun
      <3>2. task' \in [Tasks -> TaskType]
        BY <2>2, <2>3
      <3>3. node' = node /\ extra' \in 0..MaxExtra
        BY <1>4, BudgetAssumption DEF JoinRun
      <3> QED
        BY <3>1, <3>2, <3>3
    <2>5. Shape'
      BY <1>2, <2>2, <2>3, HolderMoves DEF Shape
    <2> QED
      BY <2>4, <2>5
  <1> QED
    BY <1>3, <1>4

\* A coroutine that holds the loop is typed, and refers to its run, its event and
\* its node.
LEMMA HolderFacts ==
    ASSUME IInv, NEW t \in Tasks
    PROVE  /\ task[t] \in TaskType
           /\ task[t].pc = "routing" => /\ task[t].run \in Runs /\ task[t].id \in Data
                                        /\ task[t].kind # "watch"
                                        /\ task[t].node = None /\ task[t].job = None
           /\ task[t].pc = "draining" => task[t].node \in Nodes /\ task[t].job = None
           /\ task[t].pc \in {"executing", "watching"} =>
                task[t].node \in Nodes /\ task[t].job \in Runs
  BY NoneAssumption DEF IInv, TypeOK, TaskType, Shape, WellFormed

\* Routing an event: merges, deliveries and the end of a route.
LEMMA RoutingIInv ==
    ASSUME IInv, NEW t \in Tasks, Merge(t) \/ Deliver(t) \/ RouteEnds(t)
    PROVE  IInv'
  <1> USE DEF IInv, TypeOK
  <1> DEFINE k == task[t]
  <1>1. /\ k \in TaskType /\ k.pc = "routing" /\ k.run \in Runs /\ k.id \in Data
        /\ k.kind # "watch" /\ k.node = None /\ k.job = None /\ k.todo \in Seq(Nodes)
    BY HolderFacts DEF Merge, Deliver, RouteEnds, TaskType
  <1>2. Holds(k) /\ WellFormed(k)
    BY <1>1 DEF Holds, Shape
  <1>3. CASE Merge(t)
    <2> DEFINE m == Todo(k, Tail(k.todo))
    <2>1. m \in TaskType /\ WellFormed(m)
      <3>1. Tail(k.todo) \in Seq(Nodes)
        BY <1>1, <1>3 DEF Merge
      <3>2. /\ m \in TaskType /\ m.pc = "routing" /\ m.kind = k.kind /\ m.run = k.run
            /\ m.id = k.id /\ m.node = None /\ m.job = None
        BY <1>1, <3>1, TodoChanges
      <3> HIDE DEF m
      <3> QED
        BY <1>1, <3>2, NoneAssumption DEF WellFormed
    <2>2. task' = [task EXCEPT ![t] = m] /\ UNCHANGED <<run, node, extra>>
      BY <1>3 DEF Merge
    <2>3. Shape'
      BY <1>2, <2>1, <2>2, HolderMoves DEF Shape
    <2> QED
      BY <2>1, <2>2, <2>3
  <1>4. CASE Deliver(t)
    <2> DEFINE n == Head(k.todo)
               m == OnNode(At(Todo(k, Tail(k.todo)), "draining"), n)
               q == [queue |-> Append(node[n].queue, [run |-> k.run, id |-> k.id]),
                     active |-> node[n].active,
                     ids |-> IF n \in MergeIdentical THEN node[n].ids \cup {k.id}
                             ELSE node[n].ids]
    <2>1. n \in Nodes /\ Tail(k.todo) \in Seq(Nodes)
      BY <1>1, <1>4 DEF Deliver
    <2>2. m \in TaskType /\ WellFormed(m)
      <3> DEFINE a == Todo(k, Tail(k.todo))
                 b == At(a, "draining")
      <3>1. /\ a \in TaskType /\ a.kind = k.kind /\ a.run = k.run
            /\ a.id = k.id /\ a.job = None
        BY <1>1, <2>1, TodoChanges
      <3> HIDE DEF a
      <3>2. /\ b \in TaskType /\ b.pc = "draining" /\ b.kind = k.kind /\ b.run = k.run
            /\ b.id = k.id /\ b.job = None
        BY <3>1, AtChanges
      <3> HIDE DEF b
      <3>3. /\ OnNode(b, n) \in TaskType /\ OnNode(b, n).pc = "draining"
            /\ OnNode(b, n).kind = k.kind /\ OnNode(b, n).run = k.run
            /\ OnNode(b, n).id = k.id /\ OnNode(b, n).job = None
            /\ OnNode(b, n).node = n
        BY <2>1, <3>2, OnNodeChanges
      <3>4. m = OnNode(b, n)
        BY DEF a, b
      <3> HIDE DEF m
      <3> QED
        BY <1>1, <2>1, <3>3, <3>4, NoneAssumption DEF WellFormed
    <2>3. q \in NodeType
      <3>1. node[n] \in NodeType
        BY <2>1
      <3>2. Append(node[n].queue, [run |-> k.run, id |-> k.id]) \in Seq(Delivery)
        <4>1. [run |-> k.run, id |-> k.id] \in Delivery
          BY <1>1 DEF Delivery
        <4>2. node[n].queue \in Seq(Delivery)
          BY <3>1 DEF NodeType
        <4> QED
          BY <4>1, <4>2
      <3>3. node[n].active \in Int /\ node[n].ids \subseteq Data
        BY <3>1 DEF NodeType
      <3> QED
        BY <1>1, <3>2, <3>3 DEF NodeType
    <2>4. /\ task' = [task EXCEPT ![t] = m] /\ node' = [node EXCEPT ![n] = q]
          /\ run' = [run EXCEPT ![k.run] = Reserve(run[k.run])] /\ UNCHANGED extra
      BY <1>4 DEF Deliver
    <2>5. run' \in [Runs -> RunType]
      BY <1>1, <2>4, RunOperations
    <2>6. Shape'
      BY <1>2, <2>2, <2>4, HolderMoves DEF Shape
    <2> QED
      BY <2>2, <2>3, <2>4, <2>5, <2>6
  <1>5. CASE RouteEnds(t)
    <2>1. task' = [task EXCEPT ![t] = Idle] /\ UNCHANGED <<node, extra>>
      BY <1>5 DEF RouteEnds
    <2>2. run' \in [Runs -> RunType]
      BY <1>1, <1>5, RunOperations DEF RouteEnds
    <2>3. Shape'
      BY <1>2, <2>1, NewCoroutines, HolderMoves DEF Shape
    <2> QED
      BY <2>1, <2>2, <2>3, NewCoroutines
  <1> QED
    BY <1>3, <1>4, <1>5

\* Popping a delivery leaves a typed queue, and names a run.
LEMMA PopFacts ==
    ASSUME TypeOK, NEW n \in Nodes, MayTake(n)
    PROVE  /\ Head(node[n].queue).run \in Runs
           /\ \A busy \in {0, 1} : Pop(n, busy) => node' \in [Nodes -> NodeType]
  <1>1. node[n] \in NodeType /\ node[n].queue # <<>>
    BY DEF TypeOK, MayTake
  <1>2. Head(node[n].queue) \in Delivery /\ Tail(node[n].queue) \in Seq(Delivery)
    BY <1>1 DEF NodeType
  <1>3. ASSUME NEW busy \in {0, 1}, Pop(n, busy)
        PROVE  node' \in [Nodes -> NodeType]
    <2>1. [queue |-> Tail(node[n].queue), active |-> node[n].active + busy,
           ids |-> node[n].ids \ {Head(node[n].queue).id}] \in NodeType
      BY <1>1, <1>2 DEF NodeType
    <2> QED
      BY <1>3, <2>1 DEF Pop, TypeOK
  <1> QED
    BY <1>2, <1>3 DEF Delivery

\* The drain loop: taking a delivery, and the end of the loop.
LEMMA DrainIInv ==
    ASSUME IInv, NEW t \in Tasks,
           TakeGuided(t) \/ TakeExecution(t) \/ TakeRefused(t) \/ DrainEnds(t)
    PROVE  IInv'
  <1> USE DEF IInv, TypeOK
  <1> DEFINE k == task[t]
             n == k.node
             r == Head(node[n].queue).run
  <1>1. k \in TaskType /\ k.pc = "draining" /\ n \in Nodes /\ k.job = None
    BY HolderFacts DEF TakeGuided, TakeExecution, TakeRefused, DrainEnds
  <1>2. Holds(k) /\ WellFormed(k)
    BY <1>1 DEF Holds, Shape
  <1>3. CASE TakeGuided(t)
    <2>1. MayTake(n) /\ Pop(n, 0) /\ UNCHANGED <<task, extra>>
      BY <1>3 DEF TakeGuided
    <2>2. r \in Runs /\ node' \in [Nodes -> NodeType]
      BY <1>1, <2>1, PopFacts
    <2>3. run' = [run EXCEPT ![r] = Finish(Park(Begin(run[r]), n))]
      BY <1>3 DEF TakeGuided
    <2>4. run' \in [Runs -> RunType]
      BY <1>1, <2>2, <2>3, RunOperations
    <2>5. Shape'
      BY <2>1 DEF Shape, WellFormed, Holds
    <2> QED
      BY <2>1, <2>2, <2>4, <2>5
  <1>4. CASE TakeExecution(t)
    <2> DEFINE m == ForRun(At(k, "executing"), r)
    <2>1. MayTake(n) /\ Pop(n, 1) /\ UNCHANGED extra /\ task' = [task EXCEPT ![t] = m]
      BY <1>4 DEF TakeExecution
    <2>2. r \in Runs /\ node' \in [Nodes -> NodeType]
      BY <1>1, <2>1, PopFacts
    <2>3. run' \in [Runs -> RunType]
      <3>1. Begin(run[r]) \in RunType
        BY <2>2, RunOperations
      <3>2. Spawn(Begin(run[r])) \in RunType
        BY <3>1, RunOperations
      <3> QED
        BY <1>4, <2>2, <3>1, <3>2 DEF TakeExecution
    <2>4. m \in TaskType /\ WellFormed(m)
      <3> DEFINE a == At(k, "executing")
      <3>1. /\ a \in TaskType /\ a.pc = "executing" /\ a.kind = k.kind /\ a.run = k.run
            /\ a.id = k.id /\ a.node = n
        BY <1>1, AtChanges
      <3> HIDE DEF a
      <3>2. /\ ForRun(a, r) \in TaskType /\ ForRun(a, r).pc = "executing"
            /\ ForRun(a, r).kind = k.kind /\ ForRun(a, r).run = k.run
            /\ ForRun(a, r).id = k.id /\ ForRun(a, r).node = n /\ ForRun(a, r).job = r
        BY <2>2, <3>1, ForRunChanges
      <3>3. m = ForRun(a, r)
        BY DEF a
      <3>4. r # None
        BY <2>2, NoneAssumption
      <3> HIDE DEF m
      <3> QED
        BY <1>1, <1>2, <3>2, <3>3, <3>4 DEF WellFormed
    <2>5. Shape'
      BY <1>2, <2>1, <2>4, HolderMoves DEF Shape
    <2> QED
      BY <2>1, <2>2, <2>3, <2>4, <2>5
  <1>5. CASE TakeRefused(t)
    <2>1. MayTake(n) /\ Pop(n, 0) /\ UNCHANGED <<task, extra>>
      BY <1>5 DEF TakeRefused
    <2>2. r \in Runs /\ node' \in [Nodes -> NodeType]
      BY <1>1, <2>1, PopFacts
    <2>3. run' = [run EXCEPT ![r] = Trip(Finish(Begin(run[r])))]
      BY <1>5 DEF TakeRefused
    <2>4. run' \in [Runs -> RunType]
      BY <2>2, <2>3, RunOperations
    <2>5. Shape'
      BY <2>1 DEF Shape, WellFormed, Holds
    <2> QED
      BY <2>1, <2>2, <2>4, <2>5
  <1>6. CASE DrainEnds(t)
    <2> DEFINE m == IF k.kind = "watch" THEN Idle ELSE OnNode(At(k, "routing"), None)
    <2>1. task' = [task EXCEPT ![t] = m] /\ UNCHANGED <<node, extra>>
      BY <1>6 DEF DrainEnds
    <2>2. run' \in [Runs -> RunType]
      BY <1>6, RunOperations DEF DrainEnds
    <2>3. m \in TaskType /\ WellFormed(m)
      <3> DEFINE a == At(k, "routing")
      <3>1. /\ a \in TaskType /\ a.pc = "routing" /\ a.kind = k.kind /\ a.run = k.run
            /\ a.id = k.id /\ a.job = None
        BY <1>1, AtChanges
      <3> HIDE DEF a
      <3>2. /\ OnNode(a, None) \in TaskType /\ OnNode(a, None).pc = "routing"
            /\ OnNode(a, None).kind = k.kind /\ OnNode(a, None).run = k.run
            /\ OnNode(a, None).id = k.id /\ OnNode(a, None).job = None
            /\ OnNode(a, None).node = None
        BY <3>1, OnNodeChanges
      <3>3. CASE k.kind # "watch"
        <4>1. m = OnNode(a, None)
          BY <3>3 DEF a
        <4> HIDE DEF m
        <4> QED
          BY <1>1, <1>2, <3>2, <3>3, <4>1 DEF WellFormed
      <3>4. CASE k.kind = "watch"
        BY <3>4, NewCoroutines
      <3> QED
        BY <3>3, <3>4
    <2>4. Shape'
      BY <1>2, <2>1, <2>3, HolderMoves DEF Shape
    <2> QED
      BY <2>1, <2>2, <2>3, <2>4
  <1> QED
    BY <1>3, <1>4, <1>5, <1>6

\* A suspended entry or hop that begins to route.
LEMMA RouteIInv ==
    ASSUME IInv, NEW t \in Tasks, RunSaved(t) \/ HopBegins(t)
    PROVE  IInv'
  <1> USE DEF IInv, TypeOK
  <1> DEFINE k == task[t]
             dead == k.kind # "direct" /\ Trips(run[k.run], k.hop)
             todo == IF dead THEN <<>> ELSE k.todo
             a == At(k, "routing")
             m == Todo(a, todo)
  <1>1. k \in TaskType /\ k.pc \in {"starting", "scheduled"} /\ WellFormed(k) /\ LoopFree
    BY DEF RunSaved, HopBegins, Route, Shape
  <1>2. /\ k.run \in Runs /\ k.id \in Data /\ k.kind # "watch" /\ k.node = None
        /\ k.job = None /\ k.hop \in Nat /\ k.todo \in Seq(Nodes)
    BY <1>1 DEF WellFormed, TaskType
  <1>3. task' = [task EXCEPT ![t] = m] /\ UNCHANGED <<node, extra>>
    BY DEF RunSaved, HopBegins, Route
  <1>4. m \in TaskType /\ WellFormed(m)
    <2>1. /\ a \in TaskType /\ a.pc = "routing" /\ a.kind = k.kind /\ a.run = k.run
          /\ a.id = k.id /\ a.node = None /\ a.job = None
      BY <1>1, <1>2, AtChanges
    <2>2. todo \in Seq(Nodes)
      BY <1>2
    <2> HIDE DEF a, todo
    <2>3. /\ m \in TaskType /\ m.pc = "routing" /\ m.kind = k.kind /\ m.run = k.run
          /\ m.id = k.id /\ m.node = None /\ m.job = None
      BY <2>1, <2>2, TodoChanges
    <2> HIDE DEF m
    <2> QED
      BY <1>2, <2>3, NoneAssumption DEF WellFormed
  <1>5. run' \in [Runs -> RunType]
    <2>1. Routed(run[k.run], k.hop) \in RunType
      BY <1>2, RunOperations
    <2> QED
      BY <1>2, <2>1 DEF RunSaved, HopBegins, Route
  <1>6. Shape'
    <2> HIDE DEF m
    <2> QED
      BY <1>1, <1>3, <1>4, HolderMoves DEF Shape
  <1> QED
    BY <1>3, <1>4, <1>5, <1>6

\* An execution or a watch that ends goes back to the drain of its node.
LEMMA DrainingFacts ==
    ASSUME IInv, NEW t \in Tasks, task[t].pc \in {"executing", "watching"}
    PROVE  \E m \in TaskType : /\ WellFormed(m) /\ m.pc = "draining"
                               /\ m.node = task[t].node /\ m.run = task[t].run
                               /\ Draining(t) = [task EXCEPT ![t] = m]
  <1> USE DEF IInv, TypeOK
  <1> DEFINE k == task[t]
             a == At(k, "draining")
             m == ForRun(a, None)
  <1>1. k \in TaskType /\ WellFormed(k) /\ k.node \in Nodes
    BY HolderFacts DEF Shape
  <1>2. /\ a \in TaskType /\ a.pc = "draining" /\ a.kind = k.kind /\ a.run = k.run
        /\ a.id = k.id /\ a.node = k.node
    BY <1>1, AtChanges
  <1>3. Draining(t) = [task EXCEPT ![t] = m]
    BY DEF Draining
  <1> HIDE DEF a
  <1>4. /\ m \in TaskType /\ m.pc = "draining" /\ m.kind = k.kind /\ m.run = k.run
        /\ m.id = k.id /\ m.node = k.node /\ m.job = None
    BY <1>2, ForRunChanges
  <1> HIDE DEF m
  <1>5. WellFormed(m)
    BY <1>1, <1>4 DEF WellFormed
  <1> QED
    BY <1>3, <1>4, <1>5

\* Freeing slots keeps the runtimes typed.
LEMMA ResumeFacts ==
    ASSUME IInv, NEW t \in Tasks, task[t].node \in Nodes, NEW slots \in {1, 2},
           Resume(t, slots)
    PROVE  node' \in [Nodes -> NodeType] /\ extra' = extra
  <1>1. ASSUME NEW N \in NodeType PROVE Freed(N, slots) \in NodeType
    BY DEF NodeType, Freed
  <1> QED
    BY <1>1 DEF IInv, TypeOK, Resume

\* A hop is created suspended, on behalf of a typed event.
LEMMA HopFacts ==
    ASSUME IInv, NEW r \in Runs, NEW n \in Nodes, NEW d \in Data
    PROVE  Hop(r, n, d) \in TaskType /\ WellFormed(Hop(r, n, d)) /\ ~Holds(Hop(r, n, d))
  <1>1. run[r].hops + 1 \in Nat
    BY DEF IInv, TypeOK, RunType
  <1>2. Edges[n] \in Seq(Nodes)
    BY EdgesAssumption
  <1> QED
    BY <1>1, <1>2, NewCoroutines DEF Hop

\* The end of an execution or a watch, without an event.
LEMMA ResumeIInv ==
    ASSUME IInv, NEW t \in Tasks, task[t].pc \in {"executing", "watching"}, LoopFree,
           NEW R \in RunType, run' = [run EXCEPT ![task[t].job] = R],
           task' = Draining(t), NEW slots \in {1, 2}, Resume(t, slots)
    PROVE  IInv'
  <1> USE DEF IInv, TypeOK
  <1>1. task[t].node \in Nodes /\ task[t].job \in Runs
    BY HolderFacts
  <1>2. PICK m \in TaskType : WellFormed(m) /\ task' = [task EXCEPT ![t] = m]
    BY DrainingFacts
  <1>3. node' \in [Nodes -> NodeType] /\ extra' = extra
    BY <1>1, ResumeFacts
  <1>4. Shape'
    BY <1>2, HolderMoves DEF Shape
  <1> QED
    BY <1>1, <1>2, <1>3, <1>4

\* The end of an execution or a watch that creates a coroutine that does not hold
\* the loop: a hop, or the watcher of an agent.
LEMMA SpawnIInv ==
    ASSUME IInv, NEW t \in Tasks, task[t].pc \in {"executing", "watching"}, LoopFree,
           Free # {}, NEW c \in TaskType, WellFormed(c), ~Holds(c),
           task' = [Draining(t) EXCEPT ![NewTask] = c]
    PROVE  task' \in [Tasks -> TaskType] /\ Shape'
  <1> USE DEF IInv, TypeOK
  <1>1. NewTask \in Tasks /\ task[NewTask].pc = "idle" /\ NewTask # t
    BY NewTaskIsIdle
  <1>2. PICK m \in TaskType : WellFormed(m) /\ Draining(t) = [task EXCEPT ![t] = m]
    BY DrainingFacts
  <1>3. /\ task'[t] = m /\ task'[NewTask] = c
        /\ \A u \in Tasks \ {t, NewTask} : task'[u] = task[u]
    BY <1>1, <1>2
  <1>4. task' \in [Tasks -> TaskType]
    <2>1. Draining(t) \in [Tasks -> TaskType]
      BY <1>2
    <2> QED
      BY <1>1, <2>1
  <1>5. \A u \in Tasks : WellFormed(task'[u])
    BY <1>2, <1>3 DEF Shape
  <1>6. \A u \in Tasks \ {t} : Holds(task'[u]) => Holds(task[u])
    BY <1>3
  <1>7. Shape'
    <2>1. \A u \in Tasks : WellFormed(task[u])'
      BY <1>5 DEF WellFormed
    <2>2. \A u \in Tasks \ {t} : Holds(task[u])' => Holds(task[u])
      BY <1>6 DEF Holds
    <2> QED
      BY <2>1, <2>2, HolderMoves
  <1> QED
    BY <1>4, <1>7

\* The ends of executions: functions, agent starts and agent watchers.
LEMMA ExecutionsIInv ==
    ASSUME IInv, NEW t \in Tasks, Completes(t) \/ AgentFailed(t) \/ \E d \in Data : AgentDone(t, d)
    PROVE  IInv'
  <1> USE DEF IInv, TypeOK
  <1> DEFINE n == task[t].node
             r == task[t].job
  <1>1. task[t].pc \in {"executing", "watching"} /\ LoopFree
    BY DEF Completes, FunctionEnds, FunctionRaises, ExecuteFails, AgentStarted,
           FunctionDone, AgentFailed, AgentDone, Executes
  <1>2. n \in Nodes /\ r \in Runs /\ run[r] \in RunType
    BY <1>1, HolderFacts
  <1>3. /\ Finish(run[r]) \in RunType /\ Sink(Finish(run[r])) \in RunType
        /\ Finish(Finish(run[r])) \in RunType /\ Finish(Reserve(run[r])) \in RunType
    BY <1>2, RunOperations
  <1>4. CASE FunctionEnds(t)
    <2> DEFINE R == IF Kind[n] = "subprocess" THEN Sink(Finish(run[r])) ELSE Finish(run[r])
    <2>1. R \in RunType
      BY <1>3
    <2>2. run' = [run EXCEPT ![r] = R] /\ task' = Draining(t) /\ Resume(t, 1)
      BY <1>4 DEF FunctionEnds
    <2> HIDE DEF R
    <2> QED
      BY <1>1, <2>1, <2>2, ResumeIInv
  <1>5. CASE FunctionRaises(t)
    <2>1. /\ run' = [run EXCEPT ![r] = Finish(Finish(run[r]))]
          /\ task' = Draining(t) /\ Resume(t, 2)
      BY <1>5 DEF FunctionRaises
    <2> QED
      BY <1>1, <1>3, <2>1, ResumeIInv
  <1>6. CASE ExecuteFails(t) \/ AgentFailed(t)
    <2>1. /\ run' = [run EXCEPT ![r] = Finish(run[r])]
          /\ task' = Draining(t) /\ Resume(t, 1)
      BY <1>6 DEF ExecuteFails, AgentFailed
    <2> QED
      BY <1>1, <1>3, <2>1, ResumeIInv
  <1>7. CASE AgentStarted(t)
    <2>1. Watcher(n, r) \in TaskType /\ WellFormed(Watcher(n, r)) /\ ~Holds(Watcher(n, r))
      BY <1>2, NewCoroutines
    <2>2. /\ task' = [Draining(t) EXCEPT ![NewTask] = Watcher(n, r)] /\ Free # {}
          /\ UNCHANGED <<run, node, extra>>
      BY <1>7 DEF AgentStarted
    <2> QED
      BY <1>1, <2>1, <2>2, SpawnIInv
  <1>8. ASSUME NEW d \in Data, FunctionDone(t, d) \/ AgentDone(t, d)
        PROVE  IInv'
    <2>1. Hop(r, n, d) \in TaskType /\ WellFormed(Hop(r, n, d)) /\ ~Holds(Hop(r, n, d))
      BY <1>2, HopFacts
    <2>2. /\ run' = [run EXCEPT ![r] = Finish(Reserve(run[r]))] /\ Free # {}
          /\ task' = [Draining(t) EXCEPT ![NewTask] = Hop(r, n, d)] /\ Resume(t, 1)
      BY <1>8 DEF FunctionDone, AgentDone
    <2>3. node' \in [Nodes -> NodeType] /\ extra' = extra
      BY <1>2, <2>2, ResumeFacts
    <2>4. run' \in [Runs -> RunType]
      BY <1>3, <2>2
    <2> QED
      BY <1>1, <2>1, <2>2, <2>3, <2>4, SpawnIInv
  <1> QED
    BY <1>4, <1>5, <1>6, <1>7, <1>8 DEF Completes

\* An emission in mid-execution.
LEMMA InlineEmitIInv ==
    ASSUME IInv, NEW t \in Tasks, NEW d \in Data, InlineEmit(t, d)
    PROVE  IInv'
  <1> USE DEF IInv, TypeOK
  <1> DEFINE c == Hop(task[t].job, task[t].node, d)
  <1>1. task[t].pc = "executing" /\ LoopFree
    BY DEF InlineEmit, Executes
  <1>2. task[t].node \in Nodes /\ task[t].job \in Runs /\ run[task[t].job] \in RunType
    BY <1>1, HolderFacts
  <1>3. c \in TaskType /\ WellFormed(c) /\ ~Holds(c)
    BY <1>2, HopFacts
  <1>4. NewTask \in Tasks
    BY NewTaskIsIdle DEF InlineEmit
  <1>5. task' = [task EXCEPT ![NewTask] = c]
    BY DEF InlineEmit
  <1> HIDE DEF c
  <1>6. run' \in [Runs -> RunType] /\ node' = node /\ extra' \in 0..MaxExtra
    <2>1. Reserve(run[task[t].job]) \in RunType
      BY <1>2, RunOperations
    <2>2. run' = [run EXCEPT ![task[t].job] = Reserve(run[task[t].job])]
      BY DEF InlineEmit
    <2>3. node' = node /\ extra' = extra + 1 /\ extra < MaxExtra
      BY DEF InlineEmit
    <2>4. extra' \in 0..MaxExtra
      BY <2>3, BudgetAssumption
    <2> QED
      BY <2>1, <2>2, <2>3, <2>4
  <1>7. Shape'
    BY <1>1, <1>3, <1>4, <1>5, HolderMoves DEF Shape
  <1> QED
    BY <1>3, <1>4, <1>5, <1>6, <1>7

\* The end of a run, the passing of its deadline, and quiescence.
LEMMA RunEventsIInv ==
    ASSUME IInv,
           \/ \E r \in Runs : RecordEnd(r) \/ RemoveRun(r) \/ DeadlinePasses(r)
           \/ Quiescent
           \/ UNCHANGED vars
    PROVE  IInv'
  <1> USE DEF IInv, TypeOK
  <1>1. UNCHANGED <<node, task, extra>>
    BY DEF RecordEnd, RemoveRun, DeadlinePasses, Quiescent, vars
  <1>2. Shape'
    BY <1>1 DEF Shape, WellFormed, Holds
  <1>3. run' \in [Runs -> RunType]
    <2>1. ASSUME NEW r \in Runs, RecordEnd(r) PROVE run' \in [Runs -> RunType]
      BY <2>1, RunOperations DEF RecordEnd
    <2>2. ASSUME NEW r \in Runs, RemoveRun(r) PROVE run' \in [Runs -> RunType]
      BY <2>2, RunOperations DEF RemoveRun
    <2>3. ASSUME NEW r \in Runs, DeadlinePasses(r) PROVE run' \in [Runs -> RunType]
      BY <2>3, RunOperations DEF DeadlinePasses
    <2> QED
      BY <2>1, <2>2, <2>3 DEF Quiescent, vars
  <1> QED
    BY <1>1, <1>2, <1>3

\* Every step keeps the invariant.
LEMMA StepIInv == IInv /\ [Next]_vars => IInv'
  <1> SUFFICES ASSUME IInv, [Next]_vars PROVE IInv'
    OBVIOUS
  <1>1. CASE Activation
    BY <1>1, ActivationIInv DEF Activation
  <1>2. ASSUME NEW t \in Tasks, LoopStep(t) \/ Resumes(t) PROVE IInv'
    BY <1>2, RoutingIInv, DrainIInv, RouteIInv, ExecutionsIInv DEF LoopStep, Resumes
  <1>3. ASSUME NEW t \in Tasks, NEW d \in Data, InlineEmit(t, d) PROVE IInv'
    BY <1>3, InlineEmitIInv
  <1> QED
    BY <1>1, <1>2, <1>3, RunEventsIInv DEF Next

-----------------------------------------------------------------------------
(* Theorems.                                                               *)

\* The state of the engine is always of its type: in every document, the engine
\* refers only to its runs, nodes and events, and suspended never goes below zero.
THEOREM TypeCorrect == Spec => []TypeOK
  <1>1. Spec => []IInv
    BY InitIInv, StepIInv, PTL DEF Spec
  <1>2. IInv => TypeOK
    BY DEF IInv
  <1> QED
    BY <1>1, <1>2, PTL

====
