---- MODULE GraphWorkflowCounters_proof ----
(***************************************************************************)
(* The counters of GraphWorkflowManager are exact: what a run is said to   *)
(* have pending is what is queued and being routed for it, and what is     *)
(* said to execute does, for every document.                               *)
(***************************************************************************)
EXTENDS GraphWorkflowManager_proof, FunctionTheorems, FiniteSetTheorems

-----------------------------------------------------------------------------
(* What the operations on a run record do to its counters.                 *)

\* Reserves, executions and trips move a counter by one, or none.
LEMMA CounterSteps ==
    ASSUME NEW R \in RunType
    PROVE  /\ R.pending \in Int /\ R.active \in Int /\ R.suspended \in Nat
           /\ Reserve(R).pending = R.pending + 1 /\ Reserve(R).active = R.active
           /\ Unreserve(R).pending = R.pending - 1 /\ Unreserve(R).active = R.active
           /\ Finish(R).pending = R.pending /\ Finish(R).active = R.active - 1
           /\ Spawn(R).pending = R.pending /\ Spawn(R).active = R.active
           /\ Trip(R).pending = R.pending /\ Trip(R).active = R.active
           /\ Sink(R).pending = R.pending /\ Sink(R).active = R.active
           /\ Recorded(R).pending = R.pending /\ Recorded(R).active = R.active
           /\ \A hop \in Nat : /\ Routed(R, hop).pending = R.pending
                               /\ Routed(R, hop).active = R.active
  <1>1. /\ R.pending \in Int /\ R.active \in Int /\ R.suspended \in Nat
        /\ Reserve(R).pending = R.pending + 1 /\ Reserve(R).active = R.active
        /\ Unreserve(R).pending = R.pending - 1 /\ Unreserve(R).active = R.active
        /\ Finish(R).pending = R.pending /\ Finish(R).active = R.active - 1
        /\ Spawn(R).pending = R.pending /\ Spawn(R).active = R.active
        /\ Trip(R).pending = R.pending /\ Trip(R).active = R.active
    BY DEF RunType, Reserve, Unreserve, Finish, Spawn, Trip
  <1>2. Sink(R).pending = R.pending /\ Sink(R).active = R.active
    BY DEF RunType, Sink
  <1>3. Recorded(R).pending = R.pending /\ Recorded(R).active = R.active
    <2>1. ASSUME NEW S, S = [R EXCEPT !.phase = "ended"], NEW v
          PROVE  /\ [S EXCEPT !.status = v].pending = R.pending
                 /\ [S EXCEPT !.status = v].active = R.active
      BY <2>1 DEF RunType
    <2> QED
      BY <2>1 DEF Recorded
  <1>4. ASSUME NEW hop \in Nat
        PROVE  Routed(R, hop).pending = R.pending /\ Routed(R, hop).active = R.active
    BY DEF RunType, Routed
  <1> QED
    BY <1>1, <1>2, <1>3, <1>4

\* A delivery that begins moves one from pending to active; parking and releasing a
\* step move neither.
LEMMA ExecutionSteps ==
    ASSUME NEW R \in RunType
    PROVE  /\ Begin(R).pending = R.pending - 1 /\ Begin(R).active = R.active + 1
           /\ \A n : Park(R, n).pending = R.pending /\ Park(R, n).active = R.active
           /\ \A src : /\ Release(R, src).pending = R.pending
                       /\ Release(R, src).active = R.active
  <1>1. Begin(R).pending = R.pending - 1 /\ Begin(R).active = R.active + 1
    <2>1. /\ Unreserve(R) \in RunType
          /\ Unreserve(R).pending = R.pending - 1 /\ Unreserve(R).active = R.active
      BY RunOperations, CounterSteps
    <2>2. ASSUME NEW S \in RunType
          PROVE  /\ [S EXCEPT !.active = @ + 1].pending = S.pending
                 /\ [S EXCEPT !.active = @ + 1].active = S.active + 1
      BY DEF RunType
    <2> QED
      BY <2>1, <2>2 DEF Begin
  <1>2. ASSUME NEW n PROVE Park(R, n).pending = R.pending /\ Park(R, n).active = R.active
    BY DEF RunType, Park
  <1>3. ASSUME NEW src
        PROVE  Release(R, src).pending = R.pending /\ Release(R, src).active = R.active
    BY DEF RunType, Release
  <1> QED
    BY <1>1, <1>2, <1>3

-----------------------------------------------------------------------------
(* Counting coroutines.                                                    *)

\* A coroutine that joins or leaves a set of coroutines changes its size by one.
LEMMA CountCoroutines ==
    ASSUME NEW S \in SUBSET Tasks, NEW t \in Tasks
    PROVE  /\ Cardinality(S) \in Nat
           /\ t \notin S => Cardinality(S \cup {t}) = Cardinality(S) + 1
           /\ t \in S => Cardinality(S \ {t}) = Cardinality(S) - 1
           /\ Cardinality(S) = 0 <=> S = {}
  <1>1. IsFiniteSet(S)
    BY TasksAssumption, FS_Subset
  <1> QED
    BY <1>1, FS_CardinalityType, FS_AddElement, FS_RemoveElement, FS_EmptySet

\* Which runs and nodes a coroutine counts for, by its fields.
LEMMA CountedFor ==
    ASSUME IInv
    PROVE  /\ \A r \in Runs : ExecutingFor(r) = {t \in Tasks : task[t].job = r}
           /\ \A n \in Nodes : ExecutingOn(n) =
                {t \in Tasks : task[t].job # None /\ task[t].node = n}
           /\ \A t \in Tasks : task[t].job \in Runs \cup {None}
                               /\ task[t].run \in Runs \cup {None}
           /\ \A t \in Tasks : task[t].pc = "idle" => task[t].run = None /\ task[t].job = None
  <1>1. ASSUME NEW t \in Tasks
        PROVE  /\ task[t].pc \in {"executing", "watching"} <=> task[t].job # None
               /\ task[t].job \in Runs \cup {None} /\ task[t].run \in Runs \cup {None}
               /\ task[t].pc = "idle" => task[t].run = None /\ task[t].job = None
    BY DEF IInv, TypeOK, TaskType, Shape, WellFormed
  <1> QED
    BY <1>1, NoneAssumption DEF ExecutingFor, ExecutingOn

-----------------------------------------------------------------------------
(* Counting queued deliveries.                                             *)

\* The queued deliveries of run r in the runtimes Q.
Places(Q, r) ==
    UNION {{<<n, i>> : i \in {k \in DOMAIN Q[n].queue : Q[n].queue[k].run = r}} : n \in Nodes}

\* A place is a node and a position of its queue.
LEMMA PlaceMembers ==
    ASSUME NEW Q, NEW r
    PROVE  /\ \A n, i : <<n, i>> \in Places(Q, r) <=>
                /\ n \in Nodes /\ i \in DOMAIN Q[n].queue /\ Q[n].queue[i].run = r
           /\ \A x \in Places(Q, r) : \E n, i :
                /\ n \in Nodes /\ i \in DOMAIN Q[n].queue
                /\ x = <<n, i>> /\ Q[n].queue[i].run = r
  BY DEF Places

\* Queueing a delivery adds one place for its run, and none for the others.
LEMMA PushPlaces ==
    ASSUME NEW Q \in [Nodes -> NodeType], NEW P \in [Nodes -> NodeType],
           NEW n \in Nodes, NEW e \in Delivery, P[n].queue = Append(Q[n].queue, e),
           \A m \in Nodes \ {n} : P[m] = Q[m],
           NEW r \in Runs, IsFiniteSet(Places(Q, r))
    PROVE  /\ IsFiniteSet(Places(P, r))
           /\ Cardinality(Places(P, r)) =
                Cardinality(Places(Q, r)) + (IF e.run = r THEN 1 ELSE 0)
  <1> DEFINE q == Q[n].queue
             p == <<n, Len(q) + 1>>
  <1>1. q \in Seq(Delivery) /\ P[n].queue = Append(q, e)
    BY DEF NodeType
  <1>2. /\ DOMAIN P[n].queue = 1..(Len(q) + 1) /\ DOMAIN q = 1..Len(q) /\ Len(q) \in Nat
        /\ P[n].queue[Len(q) + 1] = e
        /\ \A i \in 1..Len(q) : P[n].queue[i] = q[i]
    BY <1>1
  <1>3. p \notin Places(Q, r)
    BY <1>2, PlaceMembers
  <1>4. \A x : x \in Places(P, r) <=> x \in Places(Q, r) \/ (x = p /\ e.run = r)
    <2>1. ASSUME NEW m \in Nodes, NEW i
          PROVE  <<m, i>> \in Places(P, r) <=>
                   <<m, i>> \in Places(Q, r) \/ (m = n /\ i = Len(q) + 1 /\ e.run = r)
      <3>1. CASE m = n
        <4>1. /\ <<m, i>> \in Places(P, r) <=>
                   i \in 1..(Len(q) + 1) /\ P[n].queue[i].run = r
              /\ <<m, i>> \in Places(Q, r) <=> i \in 1..Len(q) /\ q[i].run = r
          BY <1>2, <3>1, PlaceMembers
        <4>2. i \in 1..(Len(q) + 1) <=> i \in 1..Len(q) \/ i = Len(q) + 1
          BY <1>2
        <4>3. i \in 1..Len(q) => i # Len(q) + 1
          BY <1>2
        <4> QED
          BY <1>2, <3>1, <4>1, <4>2, <4>3
      <3>2. CASE m # n
        BY <3>2, PlaceMembers
      <3> QED
        BY <3>1, <3>2
    <2>2. ASSUME NEW x \in Places(P, r) PROVE x \in Places(Q, r) \/ (x = p /\ e.run = r)
      <3>1. PICK m, i :
              /\ m \in Nodes /\ i \in DOMAIN P[m].queue
              /\ x = <<m, i>>
        BY PlaceMembers
      <3> QED
        BY <2>1, <3>1
    <2>3. ASSUME NEW x \in Places(Q, r) PROVE x \in Places(P, r)
      <3>1. PICK m, i :
              /\ m \in Nodes /\ i \in DOMAIN Q[m].queue
              /\ x = <<m, i>>
        BY PlaceMembers
      <3> QED
        BY <2>1, <3>1
    <2>4. e.run = r => p \in Places(P, r)
      BY <2>1
    <2> QED
      BY <2>2, <2>3, <2>4
  <1> HIDE DEF p
  <1>5. CASE e.run = r
    <2>1. Places(P, r) = Places(Q, r) \cup {p}
      BY <1>4, <1>5
    <2> QED
      BY <1>3, <1>5, <2>1, FS_AddElement
  <1>6. CASE e.run # r
    <2>1. Places(P, r) = Places(Q, r)
      BY <1>4, <1>6
    <2> QED
      BY <1>6, <2>1, FS_CardinalityType
  <1> QED
    BY <1>5, <1>6

\* Popping a delivery removes one place of its run, and none of the others: the
\* places behind it move up by one.
LEMMA PopPlaces ==
    ASSUME NEW Q \in [Nodes -> NodeType], NEW P \in [Nodes -> NodeType],
           NEW n \in Nodes, Q[n].queue # <<>>, P[n].queue = Tail(Q[n].queue),
           \A m \in Nodes \ {n} : P[m] = Q[m],
           NEW r \in Runs, IsFiniteSet(Places(Q, r))
    PROVE  /\ IsFiniteSet(Places(P, r))
           /\ Cardinality(Places(P, r)) =
                Cardinality(Places(Q, r)) - (IF Head(Q[n].queue).run = r THEN 1 ELSE 0)
           /\ Head(Q[n].queue).run = r => Places(Q, r) # {}
  <1> DEFINE q == Q[n].queue
             p == <<n, 1>>
             S == Places(Q, r) \ {p}
             up == [x \in Places(P, r) |-> IF x[1] = n THEN <<n, x[2] + 1>> ELSE x]
  <1>1. q \in Seq(Delivery) /\ q # <<>> /\ P[n].queue = Tail(q)
    BY DEF NodeType
  <1>2. /\ DOMAIN P[n].queue = 1..(Len(q) - 1) /\ DOMAIN q = 1..Len(q)
        /\ Len(q) \in Nat /\ Len(q) # 0 /\ Head(q) = q[1]
        /\ \A i \in 1..(Len(q) - 1) : P[n].queue[i] = q[i + 1]
    BY <1>1
  <1>3. p \in Places(Q, r) <=> Head(q).run = r
    BY <1>2, PlaceMembers
  <1>4. IsFiniteSet(S) /\ Cardinality(S) =
          Cardinality(Places(Q, r)) - (IF Head(q).run = r THEN 1 ELSE 0)
    <2>1. Cardinality(Places(Q, r)) \in Nat
      BY FS_CardinalityType
    <2> HIDE DEF p
    <2> QED
      BY <1>3, <2>1, FS_RemoveElement
  <1>5. ASSUME NEW x \in Places(P, r)
        PROVE  \E m, i :
                 /\ m \in Nodes /\ i \in DOMAIN P[m].queue
                 /\ x = <<m, i>> /\ P[m].queue[i].run = r
                 /\ up[x] = IF m = n THEN <<n, i + 1>> ELSE <<m, i>>
    BY PlaceMembers
  <1>6. up \in [Places(P, r) -> S]
    <2>1. ASSUME NEW x \in Places(P, r) PROVE up[x] \in S
      <3>1. PICK m, i :
              /\ m \in Nodes /\ i \in DOMAIN P[m].queue
              /\ x = <<m, i>> /\ P[m].queue[i].run = r
              /\ up[x] = IF m = n THEN <<n, i + 1>> ELSE <<m, i>>
        BY <1>5
      <3> HIDE DEF up
      <3>2. CASE m = n
        <4>1. i \in 1..(Len(q) - 1) /\ P[n].queue[i].run = r
          BY <1>2, <3>1, <3>2
        <4>2. i + 1 \in 1..Len(q) /\ i + 1 # 1
          BY <1>2, <4>1
        <4>3. q[i + 1].run = r
          BY <1>2, <4>1
        <4>4. <<n, i + 1>> \in Places(Q, r)
          BY <1>2, <4>2, <4>3, PlaceMembers
        <4> QED
          BY <3>1, <3>2, <4>2, <4>4
      <3>3. CASE m # n
        BY <3>1, <3>3, PlaceMembers
      <3> QED
        BY <3>2, <3>3
    <2> QED
      BY <2>1
  <1>7. ASSUME NEW x \in Places(P, r), NEW y \in Places(P, r), up[x] = up[y]
        PROVE  x = y
    <2>1. PICK m, i :
            /\ m \in Nodes /\ i \in DOMAIN P[m].queue
            /\ x = <<m, i>> /\ P[m].queue[i].run = r
            /\ up[x] = IF m = n THEN <<n, i + 1>> ELSE <<m, i>>
      BY <1>5
    <2>2. PICK l, j :
            /\ l \in Nodes /\ j \in DOMAIN P[l].queue
            /\ y = <<l, j>> /\ P[l].queue[j].run = r
            /\ up[y] = IF l = n THEN <<n, j + 1>> ELSE <<l, j>>
      BY <1>5
    <2> HIDE DEF up
    <2>3. m = l
      BY <1>7, <2>1, <2>2
    <2>4. CASE m = n
      <3>1. i \in Int /\ j \in Int
        <4>1. i \in 1..(Len(q) - 1) /\ j \in 1..(Len(q) - 1)
          BY <1>2, <2>1, <2>2, <2>3, <2>4
        <4> QED
          BY <4>1
      <3>2. <<n, i + 1>> = <<n, j + 1>>
        BY <1>7, <2>1, <2>2, <2>3, <2>4
      <3>3. i + 1 = j + 1
        BY <3>2
      <3> QED
        BY <2>1, <2>2, <2>3, <3>1, <3>3
    <2>5. CASE m # n
      BY <1>7, <2>1, <2>2, <2>3, <2>5
    <2> QED
      BY <2>4, <2>5
  <1>8. ASSUME NEW y \in S PROVE \E x \in Places(P, r) : up[x] = y
    <2>1. PICK m, j :
            /\ m \in Nodes /\ j \in DOMAIN Q[m].queue
            /\ y = <<m, j>> /\ Q[m].queue[j].run = r
      BY PlaceMembers
    <2>2. CASE m = n
      <3>1. j \in 1..Len(q) /\ j # 1
        BY <1>2, <2>1, <2>2
      <3>2. j - 1 \in 1..(Len(q) - 1) /\ P[n].queue[j - 1] = q[j] /\ j - 1 + 1 = j
        <4>1. j - 1 \in 1..(Len(q) - 1) /\ j - 1 + 1 = j
          BY <1>2, <3>1
        <4>2. P[n].queue[j - 1] = q[j - 1 + 1]
          BY <1>2, <4>1
        <4> QED
          BY <4>1, <4>2
      <3>3. <<n, j - 1>> \in Places(P, r)
        BY <1>2, <2>1, <2>2, <3>2, PlaceMembers
      <3>4. up[<<n, j - 1>>] = <<n, j>>
        BY <3>2, <3>3
      <3> QED
        BY <2>1, <2>2, <3>3, <3>4
    <2>3. CASE m # n
      <3>1. y \in Places(P, r)
        BY <2>1, <2>3, PlaceMembers
      <3> QED
        BY <2>1, <2>3, <3>1
    <2> QED
      BY <2>2, <2>3
  <1>9. up \in Bijection(Places(P, r), S)
    <2> HIDE DEF up, S
    <2> QED
      BY <1>6, <1>7, <1>8, Fun_IsBij
  <1>10. up \in Injection(Places(P, r), S) /\ up \in Surjection(Places(P, r), S)
    <2> HIDE DEF up, S
    <2> QED
      BY <1>9 DEF Bijection
  <1>11. IsFiniteSet(Places(P, r)) /\ Cardinality(Places(P, r)) = Cardinality(S)
    <2> HIDE DEF up, S
    <2>1. IsFiniteSet(S)
      BY <1>4
    <2> QED
      BY <1>10, <2>1, FS_Injection
  <1> QED
    BY <1>3, <1>4, <1>11

-----------------------------------------------------------------------------
(* Which coroutines count for a run or a node, before and after a step.    *)

\* The same as CountedFor, of the next state.
LEMMA CountedForNext ==
    ASSUME IInv'
    PROVE  /\ \A r \in Runs : ExecutingFor(r)' = {t \in Tasks : task'[t].job = r}
           /\ \A n \in Nodes : ExecutingOn(n)' =
                {t \in Tasks : task'[t].job # None /\ task'[t].node = n}
  <1>1. ASSUME NEW t \in Tasks
        PROVE  /\ task'[t].pc \in {"executing", "watching"} <=> task'[t].job # None
               /\ task'[t].job \in Runs \cup {None}
    BY DEF IInv, TypeOK, TaskType, Shape, WellFormed
  <1> QED
    BY <1>1, NoneAssumption DEF ExecutingFor, ExecutingOn

\* The size of a set of coroutines of which one may join or leave.
LEMMA OneMoves ==
    ASSUME NEW S \in SUBSET Tasks, NEW t \in Tasks, NEW T, NEW after \in BOOLEAN,
           T = IF after THEN S \cup {t} ELSE S \ {t}
    PROVE  Cardinality(T) =
             Cardinality(S) + (IF after THEN 1 ELSE 0) - (IF t \in S THEN 1 ELSE 0)
  <1>1. /\ Cardinality(S) \in Nat
        /\ t \notin S => Cardinality(S \cup {t}) = Cardinality(S) + 1
        /\ t \in S => Cardinality(S \ {t}) = Cardinality(S) - 1
    BY CountCoroutines
  <1>2. CASE t \in S
    <2>1. after => T = S
      BY <1>2
    <2> QED
      BY <1>1, <1>2, <2>1
  <1>3. CASE t \notin S
    <2>1. ~after => T = S
      BY <1>3
    <2> QED
      BY <1>1, <1>3, <2>1
  <1> QED
    BY <1>2, <1>3

\* When one coroutine changes the run it routes for, the reserves follow it.
LEMMA RunMoves ==
    ASSUME NEW t \in Tasks, \A u \in Tasks \ {t} : task'[u].run = task[u].run, NEW r \in Runs
    PROVE  Cardinality(Reserving(r))' = Cardinality(Reserving(r))
             + (IF task'[t].run = r THEN 1 ELSE 0) - (IF task[t].run = r THEN 1 ELSE 0)
  <1> DEFINE S == Reserving(r)
             T == Reserving(r)'
             after == task'[t].run = r
             before == task[t].run = r
  <1>1. S \in SUBSET Tasks
    BY DEF Reserving
  <1>2. (t \in S <=> before) /\ T = IF after THEN S \cup {t} ELSE S \ {t}
    BY DEF Reserving
  <1>3. after \in BOOLEAN
    OBVIOUS
  <1> HIDE DEF S, T, after, before
  <1>4. Cardinality(T) = Cardinality(S)
          + (IF after THEN 1 ELSE 0) - (IF before THEN 1 ELSE 0)
    BY <1>1, <1>2, <1>3, OneMoves
  <1> QED
    BY <1>4 DEF S, T, after, before

\* When one coroutine changes the run it executes for, the executions follow it.
LEMMA JobMoves ==
    ASSUME IInv, IInv', NEW t \in Tasks,
           \A u \in Tasks \ {t} : task'[u].job = task[u].job, NEW r \in Runs
    PROVE  Cardinality(ExecutingFor(r))' = Cardinality(ExecutingFor(r))
             + (IF task'[t].job = r THEN 1 ELSE 0) - (IF task[t].job = r THEN 1 ELSE 0)
  <1> DEFINE S == {u \in Tasks : task[u].job = r}
             T == {u \in Tasks : task'[u].job = r}
             after == task'[t].job = r
             before == task[t].job = r
  <1>1. ExecutingFor(r) = S /\ ExecutingFor(r)' = T
    BY CountedFor, CountedForNext
  <1>2. (t \in S <=> before) /\ T = IF after THEN S \cup {t} ELSE S \ {t}
    OBVIOUS
  <1>3. S \in SUBSET Tasks /\ after \in BOOLEAN
    OBVIOUS
  <1> HIDE DEF S, T, after, before
  <1>4. Cardinality(T) = Cardinality(S)
          + (IF after THEN 1 ELSE 0) - (IF before THEN 1 ELSE 0)
    BY <1>2, <1>3, OneMoves
  <1> QED
    BY <1>1, <1>4 DEF after, before

\* When one coroutine starts or stops executing, or moves while it does not, the
\* executions of each node follow it.
LEMMA SeatMoves ==
    ASSUME IInv, IInv', NEW t \in Tasks,
           \A u \in Tasks \ {t} : /\ task'[u].job # None <=> task[u].job # None
                                  /\ task[u].job # None => task'[u].node = task[u].node,
           NEW n \in Nodes
    PROVE  Cardinality(ExecutingOn(n))' = Cardinality(ExecutingOn(n))
             + (IF task'[t].job # None /\ task'[t].node = n THEN 1 ELSE 0)
             - (IF task[t].job # None /\ task[t].node = n THEN 1 ELSE 0)
  <1> DEFINE S == {u \in Tasks : task[u].job # None /\ task[u].node = n}
             T == {u \in Tasks : task'[u].job # None /\ task'[u].node = n}
             after == task'[t].job # None /\ task'[t].node = n
             before == task[t].job # None /\ task[t].node = n
  <1>1. ExecutingOn(n) = S /\ ExecutingOn(n)' = T
    BY CountedFor, CountedForNext
  <1>2. (t \in S <=> before) /\ T = IF after THEN S \cup {t} ELSE S \ {t}
    OBVIOUS
  <1>3. S \in SUBSET Tasks /\ after \in BOOLEAN
    OBVIOUS
  <1> HIDE DEF S, T, after, before
  <1>4. Cardinality(T) = Cardinality(S)
          + (IF after THEN 1 ELSE 0) - (IF before THEN 1 ELSE 0)
    BY <1>2, <1>3, OneMoves
  <1> QED
    BY <1>1, <1>4 DEF after, before

-----------------------------------------------------------------------------
(* How each action moves what is counted.                                  *)

FiniteQueues == \A r \in Runs : IsFiniteSet(QueuedFor(r))

\* Run r0 gains dq queued deliveries, others none.
QueuesMove(r0, dq) ==
    \A r \in Runs :
        /\ IsFiniteSet(QueuedFor(r))'
        /\ Cardinality(QueuedFor(r))' = Cardinality(QueuedFor(r)) + (IF r = r0 THEN dq ELSE 0)

\* Run r0 gains dr reserves, de executions and dq queued deliveries, others none.
Moves(r0, dr, de, dq) ==
    /\ QueuesMove(r0, dq)
    /\ \A r \in Runs :
        /\ Cardinality(Reserving(r))' = Cardinality(Reserving(r)) + (IF r = r0 THEN dr ELSE 0)
        /\ Cardinality(ExecutingFor(r))' =
             Cardinality(ExecutingFor(r)) + (IF r = r0 THEN de ELSE 0)

\* Node n0 gains d executions, other nodes none.
Seats(n0, d) ==
    \A n \in Nodes : Cardinality(ExecutingOn(n))' =
        Cardinality(ExecutingOn(n)) + (IF n = n0 THEN d ELSE 0)

\* The sizes are numbers.
LEMMA Sizes ==
    ASSUME FiniteQueues, NEW r \in Runs
    PROVE  /\ Cardinality(Reserving(r)) \in Nat /\ Cardinality(ExecutingFor(r)) \in Nat
           /\ Cardinality(QueuedFor(r)) \in Nat
           /\ \A n \in Nodes : Cardinality(ExecutingOn(n)) \in Nat
           /\ Cardinality(Reserving(r)) = 0 <=> Reserving(r) = {}
           /\ Cardinality(ExecutingFor(r)) = 0 <=> ExecutingFor(r) = {}
           /\ Cardinality(QueuedFor(r)) = 0 <=> QueuedFor(r) = {}
  <1>1. /\ Reserving(r) \in SUBSET Tasks /\ ExecutingFor(r) \in SUBSET Tasks
        /\ \A n \in Nodes : ExecutingOn(n) \in SUBSET Tasks
    BY DEF Reserving, ExecutingFor, ExecutingOn
  <1>2. ASSUME NEW S \in SUBSET Tasks
        PROVE  Cardinality(S) \in Nat /\ (Cardinality(S) = 0 <=> S = {})
    BY TasksAssumption, FS_Subset, FS_CardinalityType, FS_EmptySet
  <1>3. Cardinality(QueuedFor(r)) \in Nat /\ (Cardinality(QueuedFor(r)) = 0 <=> QueuedFor(r) = {})
    BY FS_CardinalityType, FS_EmptySet DEF FiniteQueues
  <1> QED
    BY <1>1, <1>2, <1>3

\* A step of the runtimes that queues nothing and pops nothing moves no place.
LEMMA QueuesStay ==
    ASSUME FiniteQueues, \A n \in Nodes : node'[n].queue = node[n].queue, NEW r0
    PROVE  QueuesMove(r0, 0)
  <1>1. \A r \in Runs : QueuedFor(r)' = QueuedFor(r)
    BY DEF QueuedFor
  <1>2. \A r \in Runs : Cardinality(QueuedFor(r)) \in Nat
    BY Sizes
  <1> QED
    BY <1>1, <1>2 DEF FiniteQueues, QueuesMove

\* A step in which at most one coroutine changes whom it routes for, and at most one
\* changes whom it executes for.
LEMMA CoroutinesMove ==
    ASSUME IInv, IInv', FiniteQueues,
           NEW r0, NEW dq, QueuesMove(r0, dq), NEW dr \in Int, NEW de \in Int, NEW w \in Tasks, NEW t \in Tasks,
           \A u \in Tasks \ {w} : task'[u].run = task[u].run,
           \A u \in Tasks \ {t} : task'[u].job = task[u].job,
           \A r \in Runs : (IF r = r0 THEN dr ELSE 0) =
               (IF task'[w].run = r THEN 1 ELSE 0) - (IF task[w].run = r THEN 1 ELSE 0),
           \A r \in Runs : (IF r = r0 THEN de ELSE 0) =
               (IF task'[t].job = r THEN 1 ELSE 0) - (IF task[t].job = r THEN 1 ELSE 0)
    PROVE  Moves(r0, dr, de, dq)
  <1> SUFFICES ASSUME NEW r \in Runs
               PROVE  /\ Cardinality(Reserving(r))' =
                           Cardinality(Reserving(r)) + (IF r = r0 THEN dr ELSE 0)
                      /\ Cardinality(ExecutingFor(r))' =
                           Cardinality(ExecutingFor(r)) + (IF r = r0 THEN de ELSE 0)
    BY DEF Moves
  <1> DEFINE a == IF task'[w].run = r THEN 1 ELSE 0
             b == IF task[w].run = r THEN 1 ELSE 0
             c == IF task'[t].job = r THEN 1 ELSE 0
             d == IF task[t].job = r THEN 1 ELSE 0
  <1>1. a \in Int /\ b \in Int /\ c \in Int /\ d \in Int
    OBVIOUS
  <1>2. Cardinality(Reserving(r))' = Cardinality(Reserving(r)) + a - b
    BY RunMoves
  <1>3. Cardinality(ExecutingFor(r))' = Cardinality(ExecutingFor(r)) + c - d
    BY JobMoves
  <1>4. (IF r = r0 THEN dr ELSE 0) = a - b /\ (IF r = r0 THEN de ELSE 0) = c - d
    OBVIOUS
  <1>5. Cardinality(Reserving(r)) \in Nat /\ Cardinality(ExecutingFor(r)) \in Nat
    BY Sizes
  <1> HIDE DEF a, b, c, d
  <1> QED
    BY <1>1, <1>2, <1>3, <1>4, <1>5

\* A step in which only coroutine t may start or stop executing.
LEMMA SeatsMove ==
    ASSUME IInv, IInv', FiniteQueues, NEW n0, NEW d \in Int, NEW t \in Tasks,
           \A u \in Tasks \ {t} : task'[u].job = task[u].job /\ task'[u].node = task[u].node,
           \A n \in Nodes : (IF n = n0 THEN d ELSE 0) =
               (IF task'[t].job # None /\ task'[t].node = n THEN 1 ELSE 0)
               - (IF task[t].job # None /\ task[t].node = n THEN 1 ELSE 0)
    PROVE  Seats(n0, d)
  <1> SUFFICES ASSUME NEW n \in Nodes
               PROVE  Cardinality(ExecutingOn(n))' =
                        Cardinality(ExecutingOn(n)) + (IF n = n0 THEN d ELSE 0)
    BY DEF Seats
  <1> DEFINE a == IF task'[t].job # None /\ task'[t].node = n THEN 1 ELSE 0
             b == IF task[t].job # None /\ task[t].node = n THEN 1 ELSE 0
  <1>1. a \in Int /\ b \in Int
    OBVIOUS
  <1>2. Cardinality(ExecutingOn(n))' = Cardinality(ExecutingOn(n)) + a - b
    BY SeatMoves
  <1>3. (IF n = n0 THEN d ELSE 0) = a - b
    OBVIOUS
  <1>4. Cardinality(ExecutingOn(n)) \in Nat
    <2>1. ExecutingOn(n) \in SUBSET Tasks
      BY DEF ExecutingOn
    <2> QED
      BY <2>1, CountCoroutines, TasksAssumption
  <1> HIDE DEF a, b
  <1> QED
    BY <1>1, <1>2, <1>3, <1>4

\* An activation adds a reserve for its run.
LEMMA ActivationMoves ==
    ASSUME IInv, IInv', FiniteQueues, NEW r \in Runs, NEW src \in Sources, NEW d \in Data,
           NEW e \in Entries(src), StartRun(r, src, e, d) \/ JoinRun(r, src, e, d)
    PROVE  Moves(r, 1, 0, 0) /\ Seats(None, 0)
  <1>1. NewTask \in Tasks /\ task[NewTask].run = None /\ task[NewTask].job = None
    BY NewTaskIsIdle, CountedFor DEF StartRun, JoinRun
  <1>2. PICK k : /\ task' = [task EXCEPT ![NewTask] = k] /\ k.run = r /\ k.job = None
                 /\ node' = node
    <2>1. \A pc, todo : /\ Routing(pc, e.kind, r, 0, d, todo).run = r
                        /\ Routing(pc, e.kind, r, 0, d, todo).job = None
      BY DEF Routing
    <2>2. CASE StartRun(r, src, e, d)
      <3> DEFINE k == Routing("starting", e.kind, r, 0, d, e.todo)
      <3>1. task' = [task EXCEPT ![NewTask] = k] /\ node' = node
        BY <2>2 DEF StartRun
      <3>2. k.run = r /\ k.job = None
        BY <2>1
      <3> HIDE DEF k
      <3> QED
        BY <3>1, <3>2
    <2>3. CASE JoinRun(r, src, e, d)
      <3>1. PICK todo :
              /\ task' = [task EXCEPT ![NewTask] = Routing("routing", e.kind, r, 0, d, todo)]
              /\ node' = node
        BY <2>3 DEF JoinRun
      <3> QED
        BY <2>1, <3>1
    <2> QED
      BY <2>2, <2>3
  <1>3. task'[NewTask] = k /\ \A u \in Tasks \ {NewTask} : task'[u] = task[u]
    BY <1>1, <1>2 DEF IInv, TypeOK
  <1>4. r # None
    BY NoneAssumption
  <1>5. QueuesMove(r, 0)
    BY <1>2, QueuesStay
  <1>6. Moves(r, 1, 0, 0)
    <2>1. \A x \in Runs : (IF x = r THEN 1 ELSE 0) =
            (IF task'[NewTask].run = x THEN 1 ELSE 0) - (IF task[NewTask].run = x THEN 1 ELSE 0)
      BY <1>1, <1>2, <1>3, NoneAssumption
    <2>2. \A x \in Runs : (IF x = r THEN 0 ELSE 0) =
            (IF task'[NewTask].job = x THEN 1 ELSE 0) - (IF task[NewTask].job = x THEN 1 ELSE 0)
      BY <1>1, <1>2, <1>3, NoneAssumption
    <2>3. /\ \A u \in Tasks \ {NewTask} : task'[u].run = task[u].run
          /\ \A u \in Tasks \ {NewTask} : task'[u].job = task[u].job
      BY <1>3
    <2> QED
      BY <1>1, <1>5, <2>1, <2>2, <2>3, CoroutinesMove
  <1>7. Seats(None, 0)
    BY <1>1, <1>2, <1>3, SeatsMove
  <1> QED
    BY <1>6, <1>7

\* A step that leaves to every coroutine whom it routes and executes for.
LEMMA CoroutinesStay ==
    ASSUME IInv, IInv', FiniteQueues, NEW r0, NEW dq, QueuesMove(r0, dq),
           \A u \in Tasks : task'[u].run = task[u].run /\ task'[u].job = task[u].job,
           \A u \in Tasks : task[u].job # None => task'[u].node = task[u].node
    PROVE  Moves(r0, 0, 0, dq) /\ Seats(None, 0)
  <1>1. \A r \in Runs : Reserving(r)' = Reserving(r)
    BY DEF Reserving
  <1>2. \A r \in Runs : ExecutingFor(r)' = ExecutingFor(r)
    BY CountedFor, CountedForNext
  <1>3. \A n \in Nodes : ExecutingOn(n)' = ExecutingOn(n)
    BY CountedFor, CountedForNext
  <1>4. \A r \in Runs : Cardinality(Reserving(r)) \in Nat /\ Cardinality(ExecutingFor(r)) \in Nat
    BY Sizes
  <1>5. \A n \in Nodes : Cardinality(ExecutingOn(n)) \in Nat
    <2>1. \A n \in Nodes : ExecutingOn(n) \in SUBSET Tasks
      BY DEF ExecutingOn
    <2> QED
      BY <2>1, TasksAssumption, FS_Subset, FS_CardinalityType
  <1>6. Moves(r0, 0, 0, dq)
    BY <1>1, <1>2, <1>4 DEF Moves
  <1>7. Seats(None, 0)
    BY <1>3, <1>5 DEF Seats
  <1> QED
    BY <1>6, <1>7

\* Merging a delivery moves nothing.
LEMMA MergeMoves ==
    ASSUME IInv, IInv', FiniteQueues, NEW t \in Tasks, Merge(t)
    PROVE  Moves(task[t].run, 0, 0, 0) /\ Seats(None, 0)
  <1> DEFINE m == Todo(task[t], Tail(task[t].todo))
  <1>1. task' = [task EXCEPT ![t] = m] /\ node' = node
    BY DEF Merge
  <1>2. m.run = task[t].run /\ m.job = task[t].job /\ m.node = task[t].node
    <2>1. task[t] \in TaskType /\ Tail(task[t].todo) \in Seq(Nodes)
      BY DEF IInv, TypeOK, TaskType, Merge
    <2> QED
      BY <2>1, TodoChanges
  <1> HIDE DEF m
  <1>3. \A u \in Tasks : /\ task'[u].run = task[u].run /\ task'[u].job = task[u].job
                         /\ task'[u].node = task[u].node
    BY <1>1, <1>2 DEF IInv, TypeOK
  <1>4. QueuesMove(task[t].run, 0)
    BY <1>1, QueuesStay
  <1> QED
    BY <1>3, <1>4, CoroutinesStay

\* Delivering an event queues one delivery for its run.
LEMMA DeliverMoves ==
    ASSUME IInv, IInv', FiniteQueues, NEW t \in Tasks, Deliver(t)
    PROVE  Moves(task[t].run, 0, 0, 1) /\ Seats(None, 0)
  <1> DEFINE n == Head(task[t].todo)
             e == [run |-> task[t].run, id |-> task[t].id]
             a == Todo(task[t], Tail(task[t].todo))
             b == At(a, "draining")
             m == OnNode(b, n)
  <1>1. /\ task[t] \in TaskType /\ task[t].pc = "routing" /\ task[t].todo \in Seq(Nodes)
        /\ task[t].todo # <<>> /\ task[t].run \in Runs /\ task[t].id \in Data
        /\ task[t].job = None
    BY HolderFacts DEF Deliver, TaskType
  <1>2. n \in Nodes /\ Tail(task[t].todo) \in Seq(Nodes) /\ e \in Delivery
    BY <1>1 DEF Delivery
  <1>3. /\ task' = [task EXCEPT ![t] = m]
        /\ node'[n].queue = Append(node[n].queue, e)
        /\ \A x \in Nodes \ {n} : node'[x] = node[x]
    BY <1>2 DEF Deliver, IInv, TypeOK
  <1>4. m.run = task[t].run /\ m.job = task[t].job
    <2>1. a \in TaskType /\ a.run = task[t].run /\ a.job = task[t].job
      BY <1>1, <1>2, TodoChanges
    <2> HIDE DEF a
    <2>2. b \in TaskType /\ b.run = task[t].run /\ b.job = task[t].job
      BY <2>1, AtChanges
    <2> HIDE DEF b
    <2> QED
      BY <1>2, <2>2, OnNodeChanges
  <1> HIDE DEF m, n
  <1>5. \A u \in Tasks : /\ task'[u].run = task[u].run /\ task'[u].job = task[u].job
                         /\ task[u].job # None => task'[u].node = task[u].node
    BY <1>1, <1>3, <1>4 DEF IInv, TypeOK
  <1>6. QueuesMove(task[t].run, 1)
    <2> HIDE DEF e
    <2>1. node \in [Nodes -> NodeType] /\ node' \in [Nodes -> NodeType]
      BY DEF IInv, TypeOK
    <2>2. ASSUME NEW r \in Runs
          PROVE  /\ IsFiniteSet(Places(node', r))
                 /\ Cardinality(Places(node', r)) =
                      Cardinality(Places(node, r)) + (IF e.run = r THEN 1 ELSE 0)
      <3>1. IsFiniteSet(Places(node, r))
        BY DEF FiniteQueues, QueuedFor, Places
      <3> QED
        BY <1>2, <1>3, <2>1, <3>1, PushPlaces
    <2>3. e.run = task[t].run
      BY DEF e
    <2>4. \A r : QueuedFor(r) = Places(node, r) /\ QueuedFor(r)' = Places(node', r)
      BY DEF QueuedFor, Places
    <2> QED
      BY <2>2, <2>3, <2>4 DEF QueuesMove
  <1> QED
    BY <1>5, <1>6, CoroutinesStay

\* The end of a route gives back one reserve.
LEMMA RouteEndsMoves ==
    ASSUME IInv, IInv', FiniteQueues, NEW t \in Tasks, RouteEnds(t)
    PROVE  Moves(task[t].run, -1, 0, 0) /\ Seats(None, 0)
  <1>1. task[t].run \in Runs /\ task[t].job = None
    BY HolderFacts DEF RouteEnds
  <1>2. /\ task'[t].run = None /\ task'[t].job = None /\ node' = node
        /\ \A u \in Tasks \ {t} : task'[u] = task[u]
    BY DEF RouteEnds, Idle, IInv, TypeOK
  <1>3. QueuesMove(task[t].run, 0)
    BY <1>2, QueuesStay
  <1>4. Moves(task[t].run, -1, 0, 0)
    <2>1. \A x \in Runs : (IF x = task[t].run THEN -1 ELSE 0) =
            (IF task'[t].run = x THEN 1 ELSE 0) - (IF task[t].run = x THEN 1 ELSE 0)
      BY <1>1, <1>2, NoneAssumption
    <2>2. \A x \in Runs : (IF x = task[t].run THEN 0 ELSE 0) =
            (IF task'[t].job = x THEN 1 ELSE 0) - (IF task[t].job = x THEN 1 ELSE 0)
      BY <1>1, <1>2
    <2>3. /\ \A u \in Tasks \ {t} : task'[u].run = task[u].run
          /\ \A u \in Tasks \ {t} : task'[u].job = task[u].job
      BY <1>2
    <2> QED
      BY <1>3, <2>1, <2>2, <2>3, CoroutinesMove
  <1>5. Seats(None, 0)
    BY <1>1, <1>2, SeatsMove
  <1> QED
    BY <1>4, <1>5

\* Popping the head of a queue takes one queued delivery from its run.
LEMMA PopMoves ==
    ASSUME IInv, IInv', FiniteQueues, NEW n \in Nodes, MayTake(n), NEW busy \in {0, 1},
           Pop(n, busy)
    PROVE  /\ QueuesMove(Head(node[n].queue).run, -1)
           /\ Head(node[n].queue).run \in Runs
           /\ QueuedFor(Head(node[n].queue).run) # {}
  <1> DEFINE h == Head(node[n].queue).run
  <1>1. node \in [Nodes -> NodeType] /\ node' \in [Nodes -> NodeType]
    BY DEF IInv, TypeOK
  <1>2. /\ node[n].queue # <<>> /\ node'[n].queue = Tail(node[n].queue)
        /\ \A x \in Nodes \ {n} : node'[x] = node[x]
    BY <1>1 DEF MayTake, Pop
  <1>3. h \in Runs
    BY PopFacts DEF IInv
  <1>4. \A r : QueuedFor(r) = Places(node, r) /\ QueuedFor(r)' = Places(node', r)
    BY DEF QueuedFor, Places
  <1>5. ASSUME NEW r \in Runs
        PROVE  /\ IsFiniteSet(Places(node', r))
               /\ Cardinality(Places(node', r)) =
                    Cardinality(Places(node, r)) - (IF h = r THEN 1 ELSE 0)
               /\ h = r => Places(node, r) # {}
               /\ Cardinality(Places(node, r)) \in Nat
    <2>1. IsFiniteSet(Places(node, r))
      BY <1>4 DEF FiniteQueues
    <2>2. Cardinality(Places(node, r)) \in Nat
      BY <2>1, FS_CardinalityType
    <2> QED
      BY <1>1, <1>2, <2>1, <2>2, PopPlaces
  <1> HIDE DEF h
  <1>6. QueuesMove(h, -1)
    BY <1>4, <1>5 DEF QueuesMove
  <1> QED
    BY <1>3, <1>4, <1>5, <1>6 DEF h

\* A delivery that does not execute leaves the queue; nothing else moves.
LEMMA TakeMoves ==
    ASSUME IInv, IInv', FiniteQueues, NEW t \in Tasks, TakeGuided(t) \/ TakeRefused(t)
    PROVE  LET h == Head(node[task[t].node].queue).run
           IN  Moves(h, 0, 0, -1) /\ Seats(None, 0) /\ h \in Runs /\ QueuedFor(h) # {}
  <1> DEFINE h == Head(node[task[t].node].queue).run
  <1>1. task[t].node \in Nodes /\ MayTake(task[t].node) /\ Pop(task[t].node, 0) /\ task' = task
    BY HolderFacts DEF TakeGuided, TakeRefused
  <1>2. QueuesMove(h, -1) /\ h \in Runs /\ QueuedFor(h) # {}
    BY <1>1, PopMoves
  <1> HIDE DEF h
  <1>3. Moves(h, 0, 0, -1) /\ Seats(None, 0)
    BY <1>1, <1>2, CoroutinesStay
  <1> QED
    BY <1>2, <1>3 DEF h

\* A delivery that executes leaves the queue and takes a seat.
LEMMA TakeExecutionMoves ==
    ASSUME IInv, IInv', FiniteQueues, NEW t \in Tasks, TakeExecution(t)
    PROVE  LET h == Head(node[task[t].node].queue).run
           IN  /\ Moves(h, 0, 1, -1) /\ Seats(task[t].node, 1)
               /\ h \in Runs /\ QueuedFor(h) # {} /\ task[t].node \in Nodes
  <1> DEFINE h == Head(node[task[t].node].queue).run
             a == At(task[t], "executing")
             m == ForRun(a, h)
  <1>1. /\ task[t] \in TaskType /\ task[t].node \in Nodes /\ task[t].job = None
        /\ MayTake(task[t].node) /\ Pop(task[t].node, 1)
        /\ task' = [task EXCEPT ![t] = m]
    BY HolderFacts DEF TakeExecution
  <1>2. QueuesMove(h, -1) /\ h \in Runs /\ QueuedFor(h) # {}
    BY <1>1, PopMoves
  <1> HIDE DEF h
  <1>3. m.run = task[t].run /\ m.job = h /\ m.node = task[t].node
    <2>1. a \in TaskType /\ a.run = task[t].run /\ a.node = task[t].node
      BY <1>1, AtChanges
    <2> HIDE DEF a
    <2> QED
      BY <1>2, <2>1, ForRunChanges
  <1> HIDE DEF m
  <1>4. /\ task'[t].run = task[t].run /\ task'[t].job = h /\ task'[t].node = task[t].node
        /\ \A u \in Tasks \ {t} : task'[u] = task[u]
    BY <1>1, <1>3 DEF IInv, TypeOK
  <1>5. h # None
    BY <1>2, NoneAssumption
  <1>6. Moves(h, 0, 1, -1)
    <2>1. \A x \in Runs : (IF x = h THEN 0 ELSE 0) =
            (IF task'[t].run = x THEN 1 ELSE 0) - (IF task[t].run = x THEN 1 ELSE 0)
      BY <1>4
    <2>2. \A x \in Runs : (IF x = h THEN 1 ELSE 0) =
            (IF task'[t].job = x THEN 1 ELSE 0) - (IF task[t].job = x THEN 1 ELSE 0)
      BY <1>1, <1>2, <1>4, NoneAssumption
    <2>3. /\ \A u \in Tasks \ {t} : task'[u].run = task[u].run
          /\ \A u \in Tasks \ {t} : task'[u].job = task[u].job
      BY <1>4
    <2> QED
      BY <1>2, <2>1, <2>2, <2>3, CoroutinesMove
  <1>7. Seats(task[t].node, 1)
    BY <1>1, <1>4, <1>5, SeatsMove
  <1> QED
    BY <1>1, <1>2, <1>6, <1>7 DEF h

\* The end of a drain moves nothing: its coroutine goes back to its route, or was a
\* watcher that routes for no run.
LEMMA DrainEndsMoves ==
    ASSUME IInv, IInv', FiniteQueues, NEW t \in Tasks, DrainEnds(t)
    PROVE  Moves(None, 0, 0, 0) /\ Seats(None, 0)
  <1> DEFINE a == At(task[t], "routing")
             m == IF task[t].kind = "watch" THEN Idle ELSE OnNode(a, None)
  <1>1. /\ task[t] \in TaskType /\ WellFormed(task[t]) /\ task[t].job = None
        /\ task' = [task EXCEPT ![t] = m] /\ node' = node
    BY HolderFacts DEF IInv, TypeOK, Shape, DrainEnds
  <1>2. m.run = task[t].run /\ m.job = None
    <2>1. CASE task[t].kind = "watch"
      BY <1>1, <2>1 DEF WellFormed, Idle
    <2>2. CASE task[t].kind # "watch"
      <3>1. a \in TaskType /\ a.run = task[t].run /\ a.job = None
        BY <1>1, AtChanges
      <3> HIDE DEF a
      <3>2. OnNode(a, None).run = task[t].run /\ OnNode(a, None).job = None
        BY <3>1, OnNodeChanges
      <3> QED
        BY <2>2, <3>2
    <2> QED
      BY <2>1, <2>2
  <1> HIDE DEF m
  <1>3. \A u \in Tasks : /\ task'[u].run = task[u].run /\ task'[u].job = task[u].job
                         /\ task[u].job # None => task'[u].node = task[u].node
    BY <1>1, <1>2 DEF IInv, TypeOK
  <1>4. QueuesMove(None, 0)
    BY <1>1, QueuesStay
  <1> QED
    BY <1>3, <1>4, CoroutinesStay

\* A coroutine that begins to route moves nothing.
LEMMA RouteMoves ==
    ASSUME IInv, IInv', FiniteQueues, NEW t \in Tasks, RunSaved(t) \/ HopBegins(t)
    PROVE  Moves(None, 0, 0, 0) /\ Seats(None, 0) /\ task[t].run \in Runs /\ task[t].hop \in Nat
  <1> DEFINE k == task[t]
             todo == IF k.kind # "direct" /\ Trips(run[k.run], k.hop) THEN <<>> ELSE k.todo
             a == At(k, "routing")
             m == Todo(a, todo)
  <1>1. k \in TaskType /\ k.pc \in {"starting", "scheduled"} /\ WellFormed(k)
    BY DEF IInv, TypeOK, Shape, RunSaved, HopBegins, Route
  <1>2. /\ k.run \in Runs /\ k.job = None /\ k.hop \in Nat /\ k.todo \in Seq(Nodes)
        /\ todo \in Seq(Nodes)
    BY <1>1 DEF WellFormed, TaskType
  <1>3. task' = [task EXCEPT ![t] = m] /\ node' = node
    BY DEF RunSaved, HopBegins, Route
  <1>4. m.run = k.run /\ m.job = k.job
    <2>1. a \in TaskType /\ a.run = k.run /\ a.job = k.job
      BY <1>1, AtChanges
    <2> HIDE DEF a, todo
    <2> QED
      BY <1>2, <2>1, TodoChanges
  <1> HIDE DEF m
  <1>5. \A u \in Tasks : /\ task'[u].run = task[u].run /\ task'[u].job = task[u].job
                         /\ task[u].job # None => task'[u].node = task[u].node
    BY <1>2, <1>3, <1>4 DEF IInv, TypeOK
  <1>6. QueuesMove(None, 0)
    BY <1>3, QueuesStay
  <1> QED
    BY <1>2, <1>5, <1>6, CoroutinesStay

\* An execution or watch of coroutine t ends, and the coroutine drains its node again.
LEMMA DrainingFields ==
    ASSUME IInv, NEW t \in Tasks, task[t].pc \in {"executing", "watching"}
    PROVE  \E m : /\ m.run = task[t].run /\ m.job = None
                  /\ Draining(t) = [task EXCEPT ![t] = m]
  <1>1. PICK m \in TaskType : /\ WellFormed(m) /\ m.pc = "draining" /\ m.run = task[t].run
                              /\ Draining(t) = [task EXCEPT ![t] = m]
    BY DrainingFacts
  <1>2. m.job = None
    BY <1>1 DEF WellFormed
  <1> QED
    BY <1>1, <1>2

\* Coroutine t ends its execution with an event: it drains, and a hop routes.
EndsWithEvent(t) ==
    /\ Free # {}
    /\ \E c : /\ c.run = task[t].job /\ c.job = None
             /\ task' = [Draining(t) EXCEPT ![NewTask] = c]

\* The end of an execution frees its seat, and adds a reserve if it emits an event.
LEMMA EndsMoves ==
    ASSUME IInv, IInv', FiniteQueues, NEW t \in Tasks,
           task[t].pc \in {"executing", "watching"},
           NEW slots, Resume(t, slots),
           task' = Draining(t) \/ EndsWithEvent(t)
    PROVE  /\ task' = Draining(t) => Moves(task[t].job, 0, -1, 0)
           /\ EndsWithEvent(t) => Moves(task[t].job, 1, -1, 0)
           /\ Seats(task[t].node, -1)
  <1>1. task[t].job \in Runs /\ task[t].node \in Nodes /\ task[t].job # None
    BY HolderFacts, NoneAssumption
  <1>2. PICK m : m.run = task[t].run /\ m.job = None /\ Draining(t) = [task EXCEPT ![t] = m]
    BY DrainingFields
  <1>3. QueuesMove(task[t].job, 0)
    <2>1. \A n \in Nodes : node'[n].queue = node[n].queue
      <3>1. node[task[t].node] \in NodeType
        BY <1>1 DEF IInv, TypeOK
      <3>2. Freed(node[task[t].node], slots).queue = node[task[t].node].queue
        BY <3>1 DEF Freed, NodeType
      <3> QED
        BY <1>1, <3>2 DEF Resume, IInv, TypeOK
    <2> QED
      BY <2>1, QueuesStay
  <1>4. ASSUME task' = Draining(t)
        PROVE  Moves(task[t].job, 0, -1, 0) /\ Seats(task[t].node, -1)
    <2>1. /\ task'[t].run = task[t].run /\ task'[t].job = None
          /\ \A u \in Tasks \ {t} : task'[u] = task[u]
      BY <1>2, <1>4 DEF IInv, TypeOK
    <2>2. \A x \in Runs : (IF x = task[t].job THEN 0 ELSE 0) =
            (IF task'[t].run = x THEN 1 ELSE 0) - (IF task[t].run = x THEN 1 ELSE 0)
      BY <2>1
    <2>3. \A x \in Runs : (IF x = task[t].job THEN -1 ELSE 0) =
            (IF task'[t].job = x THEN 1 ELSE 0) - (IF task[t].job = x THEN 1 ELSE 0)
      BY <2>1, NoneAssumption
    <2>4. /\ \A u \in Tasks \ {t} : task'[u].run = task[u].run
          /\ \A u \in Tasks \ {t} : task'[u].job = task[u].job
      BY <2>1
    <2>5. Moves(task[t].job, 0, -1, 0)
      BY <1>3, <2>2, <2>3, <2>4, CoroutinesMove
    <2>6. Seats(task[t].node, -1)
      BY <1>1, <2>1, SeatsMove
    <2> QED
      BY <2>5, <2>6
  <1>5. ASSUME EndsWithEvent(t)
        PROVE  Moves(task[t].job, 1, -1, 0) /\ Seats(task[t].node, -1)
    <2>1. PICK c : /\ c.run = task[t].job /\ c.job = None
                   /\ task' = [Draining(t) EXCEPT ![NewTask] = c] /\ Free # {}
      BY <1>5 DEF EndsWithEvent
    <2>2. /\ NewTask \in Tasks /\ NewTask # t
          /\ task[NewTask].run = None /\ task[NewTask].job = None
      BY <2>1, NewTaskIsIdle, CountedFor
    <2> DEFINE w == NewTask
    <2> HIDE DEF w
    <2>3. /\ w \in Tasks /\ w # t /\ task[w].run = None /\ task[w].job = None
          /\ task'[w].run = task[t].job /\ task'[w].job = None
          /\ task'[t].run = task[t].run /\ task'[t].job = None
          /\ \A u \in Tasks \ {t, w} : task'[u] = task[u]
      BY <1>2, <2>1, <2>2 DEF IInv, TypeOK, w
    <2>4. \A x \in Runs : (IF x = task[t].job THEN 1 ELSE 0) =
            (IF task'[w].run = x THEN 1 ELSE 0) - (IF task[w].run = x THEN 1 ELSE 0)
      BY <2>3, NoneAssumption
    <2>5. \A x \in Runs : (IF x = task[t].job THEN -1 ELSE 0) =
            (IF task'[t].job = x THEN 1 ELSE 0) - (IF task[t].job = x THEN 1 ELSE 0)
      BY <2>3, NoneAssumption
    <2>6. /\ \A u \in Tasks \ {w} : task'[u].run = task[u].run
          /\ \A u \in Tasks \ {t} : task'[u].job = task[u].job
      BY <2>3
    <2>7. Moves(task[t].job, 1, -1, 0)
      BY <1>3, <2>3, <2>4, <2>5, <2>6, CoroutinesMove
    <2>8. Seats(task[t].node, -1)
      <3>1. ASSUME NEW n \in Nodes
            PROVE  Cardinality(ExecutingOn(n))' =
                     Cardinality(ExecutingOn(n)) + (IF n = task[t].node THEN -1 ELSE 0)
        <4>1. Cardinality(ExecutingOn(n))' = Cardinality(ExecutingOn(n))
                + (IF task'[t].job # None /\ task'[t].node = n THEN 1 ELSE 0)
                - (IF task[t].job # None /\ task[t].node = n THEN 1 ELSE 0)
          <5>1. \A u \in Tasks \ {t} : /\ task'[u].job # None <=> task[u].job # None
                                       /\ task[u].job # None => task'[u].node = task[u].node
            BY <2>3
          <5> QED
            BY <5>1, SeatMoves
        <4>2. Cardinality(ExecutingOn(n)) \in Nat
          <5>1. ExecutingOn(n) \in SUBSET Tasks
            BY DEF ExecutingOn
          <5> QED
            BY <5>1, TasksAssumption, FS_Subset, FS_CardinalityType
        <4> QED
          BY <1>1, <2>3, <4>1, <4>2
      <3> QED
        BY <3>1 DEF Seats
    <2> QED
      BY <2>7, <2>8
  <1> QED
    BY <1>4, <1>5

\* The start of an agent passes the seat from the drain to a watcher.
LEMMA AgentStartedMoves ==
    ASSUME IInv, IInv', FiniteQueues, NEW t \in Tasks, AgentStarted(t)
    PROVE  Moves(None, 0, 0, 0) /\ Seats(None, 0)
  <1> DEFINE r == task[t].job
             n == task[t].node
  <1>1. task[t].pc = "executing" /\ r \in Runs /\ n \in Nodes /\ r # None
    BY HolderFacts, NoneAssumption DEF AgentStarted, Executes
  <1>2. PICK m : m.run = task[t].run /\ m.job = None /\ Draining(t) = [task EXCEPT ![t] = m]
    BY <1>1, DrainingFields
  <1>3. /\ NewTask \in Tasks /\ NewTask # t
        /\ task[NewTask].run = None /\ task[NewTask].job = None
    BY <1>1, NewTaskIsIdle, CountedFor DEF AgentStarted
  <1>4. PICK w \in Tasks : w = NewTask
    BY <1>3
  <1>5. /\ w # t /\ task[w].run = None /\ task[w].job = None
        /\ task'[w].run = None /\ task'[w].job = r /\ task'[w].node = n
        /\ task'[t].run = task[t].run /\ task'[t].job = None
        /\ \A u \in Tasks \ {t, w} : task'[u] = task[u]
    <2>1. Watcher(n, r).run = None /\ Watcher(n, r).job = r /\ Watcher(n, r).node = n
      BY DEF Watcher
    <2>2. task' = [Draining(t) EXCEPT ![w] = Watcher(n, r)]
      BY <1>4 DEF AgentStarted
    <2> HIDE DEF r, n
    <2>3. task' = [[task EXCEPT ![t] = m] EXCEPT ![w] = Watcher(n, r)] /\ w # t
      BY <1>2, <1>3, <1>4, <2>2
    <2>4. /\ task'[w] = Watcher(n, r) /\ task'[t] = m
          /\ \A u \in Tasks \ {t, w} : task'[u] = task[u]
      BY <2>3 DEF IInv, TypeOK
    <2> QED
      BY <1>2, <1>3, <1>4, <2>1, <2>4
  <1>6. \A x \in Runs : Reserving(x)' = Reserving(x)
    BY <1>5 DEF Reserving
  <1>7. \A S \in SUBSET Tasks : t \in S /\ w \notin S =>
          Cardinality((S \ {t}) \cup {w}) = Cardinality(S) /\ Cardinality(S) \in Nat
    <2>1. ASSUME NEW S \in SUBSET Tasks, t \in S, w \notin S
          PROVE  Cardinality((S \ {t}) \cup {w}) = Cardinality(S) /\ Cardinality(S) \in Nat
      <3>1. Cardinality(S) \in Nat /\ Cardinality(S \ {t}) = Cardinality(S) - 1
        BY <2>1, CountCoroutines
      <3>2. Cardinality((S \ {t}) \cup {w}) = Cardinality(S \ {t}) + 1
        <4> DEFINE T == S \ {t}
        <4>1. T \in SUBSET Tasks /\ w \notin T
          BY <2>1
        <4> HIDE DEF T
        <4>2. Cardinality(T \cup {w}) = Cardinality(T) + 1
          BY <4>1, CountCoroutines
        <4> QED
          BY <4>2 DEF T
      <3> QED
        BY <3>1, <3>2
    <2> QED
      BY <2>1
  <1>8. ASSUME NEW x \in Runs
        PROVE  /\ Cardinality(ExecutingFor(x))' = Cardinality(ExecutingFor(x))
               /\ Cardinality(ExecutingFor(x)) \in Nat
    <2>1. /\ ExecutingFor(x) = {u \in Tasks : task[u].job = x}
          /\ ExecutingFor(x)' = {u \in Tasks : task'[u].job = x}
      BY CountedFor, CountedForNext
    <2>2. x # None
      BY NoneAssumption
    <2>3. ExecutingFor(x) \in SUBSET Tasks
      BY <2>1
    <2>4. CASE x = r
      <3>1. t \in ExecutingFor(x) /\ w \notin ExecutingFor(x)
        BY <1>5, <2>1, <2>2, <2>4
      <3>2. ExecutingFor(x)' = (ExecutingFor(x) \ {t}) \cup {w}
        BY <1>5, <2>1, <2>2, <2>4
      <3> QED
        BY <1>7, <2>3, <3>1, <3>2
    <2>5. CASE x # r
      <3>1. ExecutingFor(x)' = ExecutingFor(x)
        BY <1>5, <2>1, <2>2, <2>5
      <3> QED
        BY <2>3, <3>1, CountCoroutines
    <2> QED
      BY <2>4, <2>5
  <1>9. ASSUME NEW x \in Nodes
        PROVE  /\ Cardinality(ExecutingOn(x))' = Cardinality(ExecutingOn(x))
               /\ Cardinality(ExecutingOn(x)) \in Nat
    <2>1. /\ ExecutingOn(x) = {u \in Tasks : task[u].job # None /\ task[u].node = x}
          /\ ExecutingOn(x)' = {u \in Tasks : task'[u].job # None /\ task'[u].node = x}
      BY CountedFor, CountedForNext
    <2>2. ExecutingOn(x) \in SUBSET Tasks
      BY <2>1
    <2>3. CASE x = n
      <3>1. t \in ExecutingOn(x) /\ w \notin ExecutingOn(x)
        BY <1>1, <1>5, <2>1, <2>3
      <3>2. ExecutingOn(x)' = (ExecutingOn(x) \ {t}) \cup {w}
        BY <1>1, <1>5, <2>1, <2>3
      <3> QED
        BY <1>7, <2>2, <3>1, <3>2
    <2>4. CASE x # n
      <3>1. ExecutingOn(x)' = ExecutingOn(x)
        BY <1>5, <2>1, <2>4
      <3> QED
        BY <2>2, <3>1, CountCoroutines
    <2> QED
      BY <2>3, <2>4
  <1>10. Moves(None, 0, 0, 0)
    <2>1. node' = node
      BY DEF AgentStarted
    <2>2. QueuesMove(None, 0)
      BY <2>1, QueuesStay
    <2>3. \A x \in Runs : Cardinality(Reserving(x)) \in Nat
      BY Sizes
    <2> QED
      BY <1>6, <1>8, <2>2, <2>3 DEF Moves
  <1>11. Seats(None, 0)
    BY <1>9 DEF Seats
  <1> QED
    BY <1>10, <1>11

\* An emission in mid-execution adds a reserve.
LEMMA InlineEmitMoves ==
    ASSUME IInv, IInv', FiniteQueues, NEW t \in Tasks, NEW d \in Data, InlineEmit(t, d)
    PROVE  Moves(task[t].job, 1, 0, 0) /\ Seats(None, 0)
  <1> DEFINE c == Hop(task[t].job, task[t].node, d)
  <1>1. task[t].job \in Runs
    BY HolderFacts DEF InlineEmit, Executes
  <1>2. NewTask \in Tasks /\ task[NewTask].run = None /\ task[NewTask].job = None
    BY NewTaskIsIdle, CountedFor DEF InlineEmit
  <1>3. c.run = task[t].job /\ c.job = None
    BY DEF Hop, Routing
  <1>4. task' = [task EXCEPT ![NewTask] = c] /\ node' = node
    BY DEF InlineEmit
  <1> HIDE DEF c
  <1>5. /\ task'[NewTask].run = task[t].job /\ task'[NewTask].job = None
        /\ \A u \in Tasks \ {NewTask} : task'[u] = task[u]
    BY <1>2, <1>3, <1>4 DEF IInv, TypeOK
  <1>6. QueuesMove(task[t].job, 0)
    BY <1>4, QueuesStay
  <1>7. Moves(task[t].job, 1, 0, 0)
    <2>1. \A x \in Runs : (IF x = task[t].job THEN 1 ELSE 0) =
            (IF task'[NewTask].run = x THEN 1 ELSE 0) - (IF task[NewTask].run = x THEN 1 ELSE 0)
      BY <1>2, <1>5, NoneAssumption
    <2>2. \A x \in Runs : (IF x = task[t].job THEN 0 ELSE 0) =
            (IF task'[NewTask].job = x THEN 1 ELSE 0) - (IF task[NewTask].job = x THEN 1 ELSE 0)
      BY <1>2, <1>5, NoneAssumption
    <2>3. /\ \A u \in Tasks \ {NewTask} : task'[u].run = task[u].run
          /\ \A u \in Tasks \ {NewTask} : task'[u].job = task[u].job
      BY <1>5
    <2> QED
      BY <1>2, <1>6, <2>1, <2>2, <2>3, CoroutinesMove
  <1>8. Seats(None, 0)
    BY <1>2, <1>5, SeatsMove
  <1> QED
    BY <1>7, <1>8

\* The end of a run, the passing of its deadline, and quiescence move nothing.
LEMMA RunEventsMove ==
    ASSUME IInv, IInv', FiniteQueues, UNCHANGED <<node, task>>
    PROVE  Moves(None, 0, 0, 0) /\ Seats(None, 0)
  <1>1. QueuesMove(None, 0)
    BY QueuesStay
  <1> QED
    BY <1>1, CoroutinesStay

-----------------------------------------------------------------------------
(* The books of a step.                                                    *)

\* The steps parked at are remembered by name and counted, never fewer than named.
Counted(R) ==
    IsFiniteSet(R.suspendedNodes) /\ Cardinality(R.suspendedNodes) <= R.suspended

\* S has the history and the status of R, no tripped budget is forgotten, and parked
\* steps stay counted.
Keeps(R, S) ==
    /\ S.rejoined = R.rejoined /\ S.status = R.status
    /\ R.error => S.error
    /\ Counted(R) => Counted(S)

\* R became S in the phase it was in.
Same(R, S) == S.phase = R.phase /\ Keeps(R, S)

\* R became S by sinking: nothing is outstanding by its counters.
Sank(R, S) ==
    /\ R.phase = "live" /\ S.phase = "sunk"
    /\ S.pending = 0 /\ S.active = 0 /\ S.suspended = 0
    /\ Keeps(R, S)

\* R became S when an event joined it.
Joins(R, S) ==
    /\ S.phase = R.phase /\ S.pending = R.pending + 1
    /\ IF R.phase = "live" THEN S.rejoined = R.rejoined ELSE S.rejoined = TRUE
    /\ S.status = R.status
    /\ R.error => S.error
    /\ Counted(R) => Counted(S)

\* What may become of a run that a step is about: it works (if it has work), starts,
\* is joined, is recorded, is forgotten, or runs late.
Course(r, S) ==
    \/ Outstanding(r) /\ (Same(run[r], S) \/ Sank(run[r], S))
    \/ run[r].phase = "none" /\ S = Born
    \/ run[r].phase \in {"live", "sunk", "ended"} /\ Joins(run[r], S)
    \/ run[r].phase = "sunk" /\ S = Recorded(run[r])
    \/ run[r].phase = "ended" /\ S = [run[r] EXCEPT !.phase = "gone"]
    \/ run[r].phase # "none" /\ S = [run[r] EXCEPT !.late = TRUE]

\* The pending count of R becomes that of S by dr reserves and dq deliveries.
Pays(R, S, dr, dq) == S.pending = R.pending + dr + dq

\* A step is about run r0 and node n0: it moves what is counted for them and their
\* counters alike, and leaves every other run as it is, or sinks it.
Books(r0, n0, dr, de, dq) ==
    /\ r0 \in Runs \cup {None} /\ n0 \in Nodes \cup {None}
    /\ dr \in Int /\ de \in {-1, 0, 1} /\ dq \in Int
    /\ Moves(r0, dr, de, dq) /\ Seats(n0, de)
    /\ \A r \in Runs \ {r0} : run'[r] \in {run[r], Sink(run[r])}
    /\ r0 \in Runs => /\ Pays(run[r0], run'[r0], dr, dq)
                      /\ Course(r0, run'[r0])
    /\ Raises = {} =>
        /\ r0 \in Runs => run'[r0].active = run[r0].active + de
        /\ \A n \in Nodes : node'[n].active = node[n].active + (IF n = n0 THEN de ELSE 0)
    /\ n0 \in Nodes /\ de = 1 => MayTake(n0)

\* A run that has not started is as new, and nothing is outstanding for it.
Unborn ==
    \A r \in Runs : run[r].phase = "none" => run[r] = NoRun /\ ~Outstanding(r)

\* Entering a step and releasing one keep the parked steps counted.
LEMMA ParkingCounts ==
    ASSUME NEW R \in RunType, Counted(R)
    PROVE  /\ \A n : Counted(Park(R, n))
           /\ \A src : Counted(Release(R, src))
  <1>1. /\ R.suspended \in Nat /\ IsFiniteSet(R.suspendedNodes)
        /\ Cardinality(R.suspendedNodes) \in Nat
        /\ Cardinality(R.suspendedNodes) <= R.suspended
    BY FS_CardinalityType DEF RunType, Counted
  <1>2. ASSUME NEW n PROVE Counted(Park(R, n))
    <2>1. /\ Park(R, n).suspended = R.suspended + 1
          /\ Park(R, n).suspendedNodes = R.suspendedNodes \cup {n}
      BY DEF RunType, Park
    <2>2. /\ IsFiniteSet(R.suspendedNodes \cup {n})
          /\ Cardinality(R.suspendedNodes \cup {n}) <= Cardinality(R.suspendedNodes) + 1
      BY <1>1, FS_AddElement
    <2>3. Cardinality(R.suspendedNodes \cup {n}) \in Nat
      BY <2>2, FS_CardinalityType
    <2> QED
      BY <1>1, <2>1, <2>2, <2>3 DEF Counted
  <1>3. ASSUME NEW src PROVE Counted(Release(R, src))
    <2>1. CASE src \in R.suspendedNodes
      <3>1. /\ IsFiniteSet(R.suspendedNodes \ {src})
            /\ Cardinality(R.suspendedNodes \ {src}) = Cardinality(R.suspendedNodes) - 1
        BY <1>1, <2>1, FS_RemoveElement
      <3>2. Cardinality(R.suspendedNodes) # 0
        BY <1>1, <2>1, FS_EmptySet
      <3>3. /\ Release(R, src).suspended = R.suspended - 1
            /\ Release(R, src).suspendedNodes = R.suspendedNodes \ {src}
        <4>1. R.suspended # 0
          BY <1>1, <3>2
        <4> QED
          BY <2>1, <4>1 DEF RunType, Release
      <3> QED
        BY <1>1, <3>1, <3>2, <3>3 DEF Counted
    <2>2. CASE src \notin R.suspendedNodes
      BY <2>2 DEF Release
    <2> QED
      BY <2>1, <2>2
  <1> QED
    BY <1>2, <1>3

\* Joined leaves everything but the history alone.
LEMMA JoinedSteps ==
    ASSUME NEW R \in RunType
    PROVE  /\ Joined(R).phase = R.phase /\ Joined(R).pending = R.pending
           /\ Joined(R).active = R.active /\ Joined(R).status = R.status
           /\ Joined(R).error = R.error
           /\ IF R.phase = "live" THEN Joined(R).rejoined = R.rejoined
              ELSE Joined(R).rejoined = TRUE
           /\ Counted(R) => Counted(Joined(R))
  <1>1. Joined(R) = [R EXCEPT !.rejoined = R.rejoined \/ R.phase # "live"]
    BY DEF Joined
  <1>2. /\ Joined(R).phase = R.phase /\ Joined(R).pending = R.pending
        /\ Joined(R).active = R.active /\ Joined(R).status = R.status
        /\ Joined(R).error = R.error
        /\ Joined(R).suspended = R.suspended
        /\ Joined(R).suspendedNodes = R.suspendedNodes
        /\ Joined(R).rejoined = (R.rejoined \/ R.phase # "live")
    BY <1>1 DEF RunType
  <1>3. R.rejoined \in BOOLEAN
    BY DEF RunType
  <1> QED
    BY <1>2, <1>3 DEF Counted

\* The operations on a run record leave its phase and its history alone, except that
\* Sink sinks it.
LEMMA PhaseSteps ==
    ASSUME NEW R \in RunType
    PROVE  /\ Same(R, Reserve(R)) /\ Same(R, Unreserve(R))
           /\ Same(R, Begin(R)) /\ Same(R, Finish(R))
           /\ Same(R, Spawn(R)) /\ Same(R, Trip(R))
           /\ \A n : Same(R, Park(R, n))
           /\ \A src : Same(R, Release(R, src))
           /\ \A hop \in Nat : Same(R, Routed(R, hop))
           /\ Same(R, Sink(R)) \/ Sank(R, Sink(R))
           /\ Sink(R).suspendedNodes = R.suspendedNodes
  <1>1. /\ Same(R, Reserve(R)) /\ Same(R, Unreserve(R))
        /\ Same(R, Finish(R)) /\ Same(R, Spawn(R))
    BY DEF RunType, Reserve, Unreserve, Finish, Spawn, Same, Keeps, Counted
  <1>2. Same(R, Trip(R))
    BY DEF RunType, Trip, Same, Keeps, Counted
  <1>3. Same(R, Begin(R))
    BY DEF RunType, Begin, Unreserve, Same, Keeps, Counted
  <1>4. ASSUME NEW n PROVE Same(R, Park(R, n))
    <2>1. /\ Park(R, n).phase = R.phase /\ Park(R, n).rejoined = R.rejoined
          /\ Park(R, n).status = R.status /\ Park(R, n).error = R.error
      BY DEF RunType, Park
    <2> QED
      BY <2>1, ParkingCounts DEF Same, Keeps
  <1>5. ASSUME NEW src PROVE Same(R, Release(R, src))
    <2>1. /\ Release(R, src).phase = R.phase /\ Release(R, src).rejoined = R.rejoined
          /\ Release(R, src).status = R.status /\ Release(R, src).error = R.error
      BY DEF RunType, Release
    <2> QED
      BY <2>1, ParkingCounts DEF Same, Keeps
  <1>6. ASSUME NEW hop \in Nat PROVE Same(R, Routed(R, hop))
    <2>1. /\ Routed(R, hop).phase = R.phase /\ Routed(R, hop).rejoined = R.rejoined
          /\ Routed(R, hop).status = R.status
          /\ Routed(R, hop).suspended = R.suspended
          /\ Routed(R, hop).suspendedNodes = R.suspendedNodes
      BY DEF RunType, Routed
    <2>2. R.error => Routed(R, hop).error
      <3>1. Routed(R, hop).error = (R.error \/ Trips(R, hop))
        BY DEF RunType, Routed
      <3> QED
        BY <3>1
    <2> QED
      BY <2>1, <2>2 DEF Same, Keeps, Counted
  <1>7. Same(R, Sink(R)) \/ Sank(R, Sink(R))
    BY DEF RunType, Sink, Sank, Same, Keeps, Counted
  <1>8. Sink(R).suspendedNodes = R.suspendedNodes
    BY DEF RunType, Sink
  <1> QED
    BY <1>1, <1>2, <1>3, <1>4, <1>5, <1>6, <1>7, <1>8

\* Whatever routes or executes for a run, or is queued for it, makes it outstanding.
LEMMA WhatIsOutstanding ==
    ASSUME IInv
    PROVE  /\ \A t \in Tasks : task[t].run \in Runs => Outstanding(task[t].run)
           /\ \A t \in Tasks : task[t].job \in Runs => Outstanding(task[t].job)
           /\ \A r : QueuedFor(r) # {} => Outstanding(r)
  <1>1. \A t \in Tasks : task[t].run \in Runs => Outstanding(task[t].run)
    BY DEF Outstanding, Reserving
  <1>2. \A t \in Tasks : task[t].job \in Runs => Outstanding(task[t].job)
    BY CountedFor DEF Outstanding
  <1> QED
    BY <1>1, <1>2 DEF Outstanding

\* The books of a step about run r0 that starts, ends or frees no execution.
LEMMA BooksOfRun ==
    ASSUME IInv, NEW r0 \in Runs, NEW dr \in Int, NEW dq \in Int,
           Moves(r0, dr, 0, dq), Seats(None, 0),
           NEW R, run'[r0] = R, \A r \in Runs \ {r0} : run'[r] = run[r],
           Pays(run[r0], R, dr, dq), R.active = run[r0].active,
           Course(r0, R),
           \A n \in Nodes : node'[n].active = node[n].active
    PROVE  Books(r0, None, dr, 0, dq)
  <1>1. run[r0].active \in Int /\ \A n \in Nodes : node[n].active \in Int
    BY DEF IInv, TypeOK, RunType, NodeType
  <1> QED
    BY <1>1, NoneAssumption DEF Books

\* The books of a step about no run.
LEMMA BooksOfNone ==
    ASSUME IInv, Moves(None, 0, 0, 0), Seats(None, 0), node' = node,
           \A r \in Runs : run'[r] \in {run[r], Sink(run[r])}
    PROVE  Books(None, None, 0, 0, 0)
  <1>1. \A n \in Nodes : node[n].active \in Int
    BY DEF IInv, TypeOK, NodeType
  <1> QED
    BY <1>1, NoneAssumption DEF Books

LEMMA ActivationBooks ==
    ASSUME IInv, IInv', FiniteQueues, Unborn,
           NEW r \in Runs, NEW src \in Sources, NEW d \in Data, NEW e \in Entries(src),
           StartRun(r, src, e, d) \/ JoinRun(r, src, e, d)
    PROVE  Books(r, None, 1, 0, 0)
  <1>1. Moves(r, 1, 0, 0) /\ Seats(None, 0)
    BY ActivationMoves
  <1>2. node' = node /\ run[r] \in RunType
    BY DEF StartRun, JoinRun, IInv, TypeOK
  <1>3. CASE StartRun(r, src, e, d)
    <2>1. /\ run'[r] = Born /\ \A x \in Runs \ {r} : run'[x] = run[x]
          /\ run[r].phase = "none" /\ run[r] = NoRun
      BY <1>3 DEF StartRun, Unborn, IInv, TypeOK
    <2>2. Pays(run[r], Born, 1, 0) /\ Born.active = run[r].active
      <3> DEFINE a == [NoRun EXCEPT !.phase = "live"]
      <3>1. NoRun.pending = 0 /\ NoRun.active = 0 /\ a.pending = 0 /\ a.active = 0
        BY DEF NoRun
      <3>2. a \in RunType /\ Born = Reserve(a)
        BY NewRuns, RunOperations DEF Born
      <3> HIDE DEF a
      <3>3. Born.pending = 1 /\ Born.active = 0
        BY <3>1, <3>2, CounterSteps
      <3> QED
        BY <2>1, <3>1, <3>3 DEF Pays
    <2>3. Course(r, Born)
      BY <2>1 DEF Course, Same, Sank, Keeps
    <2> QED
      BY <1>1, <1>2, <2>1, <2>2, <2>3, BooksOfRun
  <1>4. CASE JoinRun(r, src, e, d)
    <2> DEFINE j == Joined(run[r])
               a == Reserve(j)
               b == Release(a, src)
               R == IF e.kind = "entry" THEN Routed(b, 0) ELSE b
    <2>1. /\ run'[r] = R /\ \A x \in Runs \ {r} : run'[x] = run[x]
          /\ run[r].phase \in {"live", "sunk", "ended"}
      BY <1>4 DEF JoinRun, IInv, TypeOK
    <2>0. /\ j \in RunType /\ j.pending = run[r].pending /\ j.active = run[r].active
          /\ j.phase = run[r].phase /\ j.status = run[r].status
          /\ j.error = run[r].error
          /\ IF run[r].phase = "live" THEN j.rejoined = run[r].rejoined
             ELSE j.rejoined = TRUE
          /\ Counted(run[r]) => Counted(j)
      BY <1>2, RunOperations, JoinedSteps
    <2> HIDE DEF j
    <2>2. /\ a \in RunType /\ a.pending = run[r].pending + 1 /\ a.active = run[r].active
          /\ Same(j, a)
      BY <2>0, RunOperations, CounterSteps, PhaseSteps
    <2> HIDE DEF a
    <2>3. b \in RunType /\ b.pending = a.pending /\ b.active = a.active /\ Same(a, b)
      BY <2>2, RunOperations, ExecutionSteps, PhaseSteps
    <2> HIDE DEF b
    <2>4. R.pending = b.pending /\ R.active = b.active /\ Same(b, R)
      BY <2>3, CounterSteps, PhaseSteps DEF Same, Keeps
    <2> HIDE DEF R
    <2>5. Pays(run[r], R, 1, 0)
      BY <1>2, <2>2, <2>3, <2>4, CounterSteps DEF Pays
    <2>6. Course(r, R)
      <3>1. Joins(run[r], R)
        BY <2>0, <2>2, <2>3, <2>4 DEF Joins, Same, Keeps
      <3> QED
        BY <2>1, <3>1 DEF Course
    <2> QED
      <3>1. R.active = run[r].active
        BY <2>2, <2>3, <2>4
      <3>2. \A n \in Nodes : node'[n].active = node[n].active
        BY <1>2
      <3> QED
        BY <1>1, <2>1, <2>5, <2>6, <3>1, <3>2, BooksOfRun
  <1> QED
    BY <1>3, <1>4

LEMMA RoutingBooks ==
    ASSUME IInv, IInv', FiniteQueues, NEW t \in Tasks, Merge(t) \/ Deliver(t) \/ RouteEnds(t)
    PROVE  \E dr, dq : Books(task[t].run, None, dr, 0, dq)
  <1> DEFINE r == task[t].run
  <1>1. r \in Runs /\ run[r] \in RunType /\ Outstanding(r)
    BY HolderFacts, WhatIsOutstanding DEF Merge, Deliver, RouteEnds, IInv, TypeOK
  <1>2. run[r].pending \in Int
    BY <1>1, CounterSteps
  <1>3. CASE Merge(t)
    <2>1. Moves(r, 0, 0, 0) /\ Seats(None, 0)
      BY <1>3, MergeMoves
    <2>2. run' = run /\ node' = node
      BY <1>3 DEF Merge
    <2>3. Course(r, run[r]) /\ Pays(run[r], run[r], 0, 0)
      BY <1>1, <1>2 DEF Course, Same, Sank, Keeps, Pays
    <2> HIDE DEF r
    <2>4. Books(r, None, 0, 0, 0)
      BY <1>1, <2>1, <2>2, <2>3, BooksOfRun
    <2> QED
      BY <2>4 DEF r
  <1>4. CASE Deliver(t)
    <2>1. Moves(r, 0, 0, 1) /\ Seats(None, 0)
      BY <1>4, DeliverMoves
    <2>2. run'[r] = Reserve(run[r]) /\ \A x \in Runs \ {r} : run'[x] = run[x]
      BY <1>1, <1>4 DEF Deliver, IInv, TypeOK
    <2>3. \A n \in Nodes : node'[n].active = node[n].active
      BY <1>4 DEF Deliver, IInv, TypeOK
    <2>4. Pays(run[r], Reserve(run[r]), 0, 1) /\ Reserve(run[r]).active = run[r].active
      BY <1>1, <1>2, CounterSteps DEF Pays
    <2>5. Course(r, Reserve(run[r]))
      BY <1>1, PhaseSteps DEF Course, Same, Sank, Keeps
    <2> HIDE DEF r
    <2>6. Books(r, None, 0, 0, 1)
      BY <1>1, <2>1, <2>2, <2>3, <2>4, <2>5, BooksOfRun
    <2> QED
      BY <2>6 DEF r
  <1>5. CASE RouteEnds(t)
    <2> DEFINE a == Unreserve(run[r])
    <2>1. Moves(r, -1, 0, 0) /\ Seats(None, 0)
      BY <1>5, RouteEndsMoves
    <2>2. /\ run'[r] = Sink(a) /\ \A x \in Runs \ {r} : run'[x] = run[x]
          /\ node' = node
      BY <1>1, <1>5 DEF RouteEnds, IInv, TypeOK
    <2>3. /\ a \in RunType /\ a.pending = run[r].pending - 1 /\ a.active = run[r].active
          /\ Same(run[r], a)
      BY <1>1, RunOperations, CounterSteps, PhaseSteps
    <2> HIDE DEF a
    <2>4. Pays(run[r], Sink(a), -1, 0) /\ Sink(a).active = run[r].active
      BY <1>2, <2>3, CounterSteps DEF Pays
    <2>5. Course(r, Sink(a))
      <3>1. Same(a, Sink(a)) \/ Sank(a, Sink(a))
        BY <2>3, PhaseSteps
      <3> QED
        BY <1>1, <2>3, <3>1 DEF Course, Same, Sank, Keeps
    <2> HIDE DEF r
    <2>6. Books(r, None, -1, 0, 0)
      BY <1>1, <2>1, <2>2, <2>4, <2>5, BooksOfRun
    <2> QED
      BY <2>6 DEF r
  <1> QED
    BY <1>3, <1>4, <1>5

\* A step that moves nothing moves nothing of any run.
LEMMA NothingMoves ==
    ASSUME FiniteQueues, Moves(None, 0, 0, 0), NEW r
    PROVE  Moves(r, 0, 0, 0)
  BY Sizes DEF Moves, QueuesMove

\* Popping a delivery seats what executes, and nothing else.
LEMMA PopSeats ==
    ASSUME IInv, NEW n \in Nodes, NEW busy \in {0, 1}, Pop(n, busy)
    PROVE  \A x \in Nodes : node'[x].active = node[x].active + (IF x = n THEN busy ELSE 0)
  <1>1. node'[n].active = node[n].active + busy /\ \A x \in Nodes \ {n} : node'[x] = node[x]
    BY DEF Pop, IInv, TypeOK
  <1>2. \A x \in Nodes : node[x].active \in Int
    BY DEF IInv, TypeOK, NodeType
  <1> QED
    BY <1>1, <1>2

LEMMA DrainBooks ==
    ASSUME IInv, IInv', FiniteQueues, NEW t \in Tasks,
           TakeGuided(t) \/ TakeExecution(t) \/ TakeRefused(t) \/ DrainEnds(t)
    PROVE  \E r, n, de, dq : Books(r, n, 0, de, dq)
  <1> DEFINE n == task[t].node
             h == Head(node[n].queue).run
             b == Begin(run[h])
  <1>1. \A x \in Nodes : node[x] \in NodeType /\ node[x].active \in Int
    BY DEF IInv, TypeOK, NodeType
  <1>2. ASSUME TakeGuided(t) \/ TakeRefused(t) \/ TakeExecution(t)
        PROVE  /\ h \in Runs /\ n \in Nodes /\ run[h] \in RunType /\ run[h].pending \in Int
               /\ run[h].active \in Int /\ MayTake(n) /\ Outstanding(h)
               /\ b \in RunType /\ b.pending = run[h].pending - 1
               /\ b.active = run[h].active + 1 /\ Same(run[h], b)
    <2>1. h \in Runs /\ n \in Nodes /\ MayTake(n) /\ QueuedFor(h) # {}
      BY <1>2, TakeMoves, TakeExecutionMoves, HolderFacts DEF TakeGuided, TakeRefused, TakeExecution
    <2>2. run[h] \in RunType
      BY <2>1 DEF IInv, TypeOK
    <2>3. run[h].pending \in Int /\ run[h].active \in Int
      BY <2>2, CounterSteps
    <2>4. Outstanding(h)
      BY <2>1, WhatIsOutstanding
    <2> QED
      BY <2>1, <2>2, <2>3, <2>4, RunOperations, ExecutionSteps, PhaseSteps
  <1>3. CASE TakeGuided(t)
    <2> DEFINE p == Park(b, n)
    <2>0. /\ h \in Runs /\ n \in Nodes /\ run[h] \in RunType /\ run[h].pending \in Int
          /\ run[h].active \in Int /\ MayTake(n) /\ Outstanding(h)
          /\ b \in RunType /\ b.pending = run[h].pending - 1
          /\ b.active = run[h].active + 1 /\ Same(run[h], b)
      BY <1>2, <1>3
    <2>1. Moves(h, 0, 0, -1) /\ Seats(None, 0)
      BY <1>3, TakeMoves
    <2>2. /\ run'[h] = Finish(p) /\ \A x \in Runs \ {h} : run'[x] = run[x]
          /\ \A x \in Nodes : node'[x].active = node[x].active
      <3>1. Pop(n, 0) /\ run' = [run EXCEPT ![h] = Finish(p)]
        BY <1>3 DEF TakeGuided
      <3>2. \A x \in Nodes : node'[x].active = node[x].active
        <4>1. \A x \in Nodes : node'[x].active = node[x].active + (IF x = n THEN 0 ELSE 0)
          BY <2>0, <3>1, PopSeats
        <4> QED
          BY <1>1, <4>1
      <3>3. run'[h] = Finish(p) /\ \A x \in Runs \ {h} : run'[x] = run[x]
        <4> HIDE DEF p, h
        <4> QED
          BY <2>0, <3>1 DEF IInv, TypeOK
      <3> QED
        BY <3>2, <3>3
    <2>3. /\ p \in RunType /\ p.pending = b.pending /\ p.active = b.active /\ Same(b, p)
      BY <2>0, RunOperations, ExecutionSteps, PhaseSteps
    <2> HIDE DEF p, b, h
    <2>4. /\ Finish(p).pending = p.pending /\ Finish(p).active = p.active - 1
          /\ Same(p, Finish(p))
      BY <2>3, CounterSteps, PhaseSteps
    <2>5. Pays(run[h], Finish(p), 0, -1) /\ Finish(p).active = run[h].active
      BY <2>0, <2>3, <2>4 DEF Pays
    <2>6. Course(h, Finish(p))
      BY <2>0, <2>3, <2>4 DEF Course, Same, Sank, Keeps
    <2>7. Books(h, None, 0, 0, -1)
      BY <2>0, <2>1, <2>2, <2>5, <2>6, BooksOfRun
    <2> QED
      BY <2>7
  <1>4. CASE TakeRefused(t)
    <2> DEFINE p == Finish(b)
    <2>0. /\ h \in Runs /\ n \in Nodes /\ run[h] \in RunType /\ run[h].pending \in Int
          /\ run[h].active \in Int /\ MayTake(n) /\ Outstanding(h)
          /\ b \in RunType /\ b.pending = run[h].pending - 1
          /\ b.active = run[h].active + 1 /\ Same(run[h], b)
      BY <1>2, <1>4
    <2>1. Moves(h, 0, 0, -1) /\ Seats(None, 0)
      BY <1>4, TakeMoves
    <2>2. /\ run'[h] = Trip(p) /\ \A x \in Runs \ {h} : run'[x] = run[x]
          /\ \A x \in Nodes : node'[x].active = node[x].active
      <3>1. Pop(n, 0) /\ run' = [run EXCEPT ![h] = Trip(p)]
        BY <1>4 DEF TakeRefused
      <3>2. \A x \in Nodes : node'[x].active = node[x].active
        <4>1. \A x \in Nodes : node'[x].active = node[x].active + (IF x = n THEN 0 ELSE 0)
          BY <2>0, <3>1, PopSeats
        <4> QED
          BY <1>1, <4>1
      <3>3. run'[h] = Trip(p) /\ \A x \in Runs \ {h} : run'[x] = run[x]
        <4> HIDE DEF p, h
        <4> QED
          BY <2>0, <3>1 DEF IInv, TypeOK
      <3> QED
        BY <3>2, <3>3
    <2>3. /\ p \in RunType /\ p.pending = b.pending /\ p.active = b.active - 1
          /\ Same(b, p)
      BY <2>0, RunOperations, CounterSteps, PhaseSteps
    <2> HIDE DEF p, b, h
    <2>4. /\ Trip(p).pending = p.pending /\ Trip(p).active = p.active
          /\ Same(p, Trip(p))
      BY <2>3, CounterSteps, PhaseSteps
    <2>5. Pays(run[h], Trip(p), 0, -1) /\ Trip(p).active = run[h].active
      BY <2>0, <2>3, <2>4 DEF Pays
    <2>6. Course(h, Trip(p))
      BY <2>0, <2>3, <2>4 DEF Course, Same, Sank, Keeps
    <2>7. Books(h, None, 0, 0, -1)
      BY <2>0, <2>1, <2>2, <2>5, <2>6, BooksOfRun
    <2> QED
      BY <2>7
  <1>5. CASE TakeExecution(t)
    <2> DEFINE R == IF Kind[n] = "agent" THEN Spawn(b) ELSE b
    <2>0. /\ h \in Runs /\ n \in Nodes /\ run[h] \in RunType /\ run[h].pending \in Int
          /\ run[h].active \in Int /\ MayTake(n) /\ Outstanding(h)
          /\ b \in RunType /\ b.pending = run[h].pending - 1
          /\ b.active = run[h].active + 1 /\ Same(run[h], b)
      BY <1>2, <1>5
    <2>1. Moves(h, 0, 1, -1) /\ Seats(n, 1)
      BY <1>5, TakeExecutionMoves
    <2>2. /\ run'[h] = R /\ \A x \in Runs \ {h} : run'[x] = run[x]
          /\ \A x \in Nodes : node'[x].active = node[x].active + (IF x = n THEN 1 ELSE 0)
      <3>1. Pop(n, 1) /\ run' = [run EXCEPT ![h] = R]
        BY <1>5 DEF TakeExecution
      <3>2. \A x \in Nodes : node'[x].active = node[x].active + (IF x = n THEN 1 ELSE 0)
        BY <2>0, <3>1, PopSeats
      <3>3. run'[h] = R /\ \A x \in Runs \ {h} : run'[x] = run[x]
        <4> HIDE DEF R, h
        <4> QED
          BY <2>0, <3>1 DEF IInv, TypeOK
      <3> QED
        BY <3>2, <3>3
    <2>3. R.pending = b.pending /\ R.active = b.active /\ Same(b, R)
      BY <2>0, CounterSteps, PhaseSteps DEF Same, Keeps
    <2> HIDE DEF R, b, h, n
    <2>4. Pays(run[h], R, 0, -1) /\ R.active = run[h].active + 1
      BY <2>0, <2>3 DEF Pays
    <2>5. Course(h, R)
      BY <2>0, <2>3 DEF Course, Same, Sank, Keeps
    <2>6. Books(h, n, 0, 1, -1)
      BY <2>0, <2>1, <2>2, <2>4, <2>5 DEF Books
    <2> QED
      BY <2>6
  <1>6. CASE DrainEnds(t)
    <2>1. Moves(None, 0, 0, 0) /\ Seats(None, 0)
      BY <1>6, DrainEndsMoves
    <2>2. node' = node /\ \A r \in Runs : run'[r] = Sink(run[r])
      BY <1>6 DEF DrainEnds
    <2>3. Books(None, None, 0, 0, 0)
      BY <2>1, <2>2, BooksOfNone
    <2> QED
      BY <2>3
  <1> QED
    BY <1>3, <1>4, <1>5, <1>6

LEMMA RouteBooks ==
    ASSUME IInv, IInv', FiniteQueues, NEW t \in Tasks, RunSaved(t) \/ HopBegins(t)
    PROVE  Books(task[t].run, None, 0, 0, 0)
  <1> DEFINE r == task[t].run
             R == IF task[t].kind # "direct" THEN Routed(run[r], task[t].hop) ELSE run[r]
  <1>1. /\ Moves(None, 0, 0, 0) /\ Seats(None, 0) /\ r \in Runs /\ task[t].hop \in Nat
        /\ Outstanding(r) /\ run[r] \in RunType
    BY RouteMoves, WhatIsOutstanding DEF IInv, TypeOK
  <1>2. Moves(r, 0, 0, 0)
    BY <1>1, NothingMoves
  <1>3. run'[r] = R /\ \A x \in Runs \ {r} : run'[x] = run[x]
    BY <1>1 DEF RunSaved, HopBegins, Route, IInv, TypeOK
  <1>4. node' = node
    BY DEF RunSaved, HopBegins, Route
  <1>5. R.pending = run[r].pending /\ R.active = run[r].active /\ Same(run[r], R)
    BY <1>1, CounterSteps, PhaseSteps DEF Same, Keeps
  <1> HIDE DEF R
  <1>6. Pays(run[r], R, 0, 0)
    <2>1. run[r].pending \in Int
      BY <1>1, CounterSteps
    <2> QED
      BY <1>5, <2>1 DEF Pays
  <1>7. Course(r, R)
    BY <1>1, <1>5 DEF Course, Same, Sank, Keeps
  <1> QED
    BY <1>1, <1>2, <1>3, <1>4, <1>5, <1>6, <1>7, BooksOfRun

\* The books of an execution that ends: R is what becomes of its run.
LEMMA EndsBooks ==
    ASSUME IInv, IInv', FiniteQueues, NEW t \in Tasks,
           task[t].pc \in {"executing", "watching"}, NEW dr \in Int,
           Moves(task[t].job, dr, -1, 0), Seats(task[t].node, -1),
           \A x \in Runs \ {task[t].job} : run'[x] = run[x],
           Pays(run[task[t].job], run'[task[t].job], dr, 0),
           Course(task[t].job, run'[task[t].job]),
           Raises = {} => /\ Resume(t, 1)
                          /\ run'[task[t].job].active = run[task[t].job].active + (-1)
    PROVE  Books(task[t].job, task[t].node, dr, -1, 0)
  <1>1. task[t].job \in Runs /\ task[t].node \in Nodes
    BY HolderFacts
  <1>2. Raises = {} =>
          \A n \in Nodes : node'[n].active = node[n].active + (IF n = task[t].node THEN -1 ELSE 0)
    <2>1. \A n \in Nodes : node[n] \in NodeType /\ node[n].active \in Int
      BY DEF IInv, TypeOK, NodeType
    <2>2. Freed(node[task[t].node], 1).active = node[task[t].node].active - 1
      BY <1>1, <2>1 DEF Freed, NodeType
    <2>3. Resume(t, 1) => /\ node'[task[t].node] = Freed(node[task[t].node], 1)
                          /\ \A n \in Nodes \ {task[t].node} : node'[n] = node[n]
      BY <1>1 DEF Resume, IInv, TypeOK
    <2> QED
      BY <1>1, <2>1, <2>2, <2>3
  <1> QED
    BY <1>1, <1>2 DEF Books

LEMMA ExecutionsBooks ==
    ASSUME IInv, IInv', FiniteQueues, NEW t \in Tasks,
           Completes(t) \/ AgentFailed(t) \/ \E d \in Data : AgentDone(t, d)
    PROVE  \E r, n, dr, de : Books(r, n, dr, de, 0)
  <1> DEFINE r == task[t].job
             n == task[t].node
             f == Finish(run[r])
  <1>1. task[t].pc \in {"executing", "watching"}
    BY DEF Completes, FunctionEnds, FunctionRaises, ExecuteFails, AgentStarted,
           FunctionDone, AgentFailed, AgentDone, Executes
  <1>2. /\ n \in Nodes /\ r \in Runs /\ run[r] \in RunType /\ Outstanding(r)
        /\ run[r].pending \in Int /\ run[r].active \in Int
    BY <1>1, HolderFacts, WhatIsOutstanding, CounterSteps DEF IInv, TypeOK
  <1>3. /\ f \in RunType /\ f.pending = run[r].pending /\ f.active = run[r].active + (-1)
        /\ Same(run[r], f)
    BY <1>2, RunOperations, CounterSteps, PhaseSteps
  <1>4. CASE FunctionEnds(t) \/ ExecuteFails(t) \/ AgentFailed(t)
    <2>1. /\ task' = Draining(t) /\ Resume(t, 1)
          /\ \/ run' = [run EXCEPT ![r] = f]
             \/ run' = [run EXCEPT ![r] = Sink(f)]
      BY <1>4 DEF FunctionEnds, ExecuteFails, AgentFailed
    <2>2. run'[r] \in {f, Sink(f)} /\ \A x \in Runs \ {r} : run'[x] = run[x]
      <3> HIDE DEF f, r
      <3> QED
        BY <1>2, <2>1 DEF IInv, TypeOK
    <2>3. Moves(r, 0, -1, 0) /\ Seats(n, -1)
      BY <1>1, <2>1, EndsMoves
    <2> HIDE DEF f
    <2>4. Sink(f).pending = f.pending /\ Sink(f).active = f.active
      BY <1>3, CounterSteps
    <2>5. Pays(run[r], run'[r], 0, 0) /\ run'[r].active = run[r].active + (-1)
      BY <1>2, <1>3, <2>2, <2>4 DEF Pays
    <2>6. Course(r, run'[r])
      <3>1. Same(f, Sink(f)) \/ Sank(f, Sink(f))
        BY <1>3, PhaseSteps
      <3> QED
        BY <1>2, <1>3, <2>2, <3>1 DEF Course, Same, Sank, Keeps
    <2>7. Books(r, n, 0, -1, 0)
      BY <1>1, <2>1, <2>2, <2>3, <2>5, <2>6, EndsBooks
    <2> QED
      BY <2>7
  <1>5. CASE FunctionRaises(t)
    <2>1. /\ task' = Draining(t) /\ Resume(t, 2) /\ run' = [run EXCEPT ![r] = Finish(f)]
          /\ Raises # {}
      BY <1>5 DEF FunctionRaises
    <2>2. run'[r] = Finish(f) /\ \A x \in Runs \ {r} : run'[x] = run[x]
      <3> HIDE DEF f, r
      <3> QED
        BY <1>2, <2>1 DEF IInv, TypeOK
    <2>3. Moves(r, 0, -1, 0) /\ Seats(n, -1)
      BY <1>1, <2>1, EndsMoves
    <2> HIDE DEF f
    <2>4. Finish(f).pending = f.pending /\ Same(f, Finish(f))
      BY <1>3, CounterSteps, PhaseSteps
    <2>5. Pays(run[r], run'[r], 0, 0)
      BY <1>2, <1>3, <2>2, <2>4 DEF Pays
    <2>6. Course(r, run'[r])
      BY <1>2, <1>3, <2>2, <2>4 DEF Course, Same, Sank, Keeps
    <2>7. Books(r, n, 0, -1, 0)
      BY <1>1, <2>1, <2>2, <2>3, <2>5, <2>6, EndsBooks
    <2> QED
      BY <2>7
  <1>6. CASE AgentStarted(t)
    <2>1. Moves(None, 0, 0, 0) /\ Seats(None, 0)
      BY <1>6, AgentStartedMoves
    <2>2. node' = node /\ run' = run
      BY <1>6 DEF AgentStarted
    <2>3. Books(None, None, 0, 0, 0)
      BY <2>1, <2>2, BooksOfNone
    <2> QED
      BY <2>3
  <1>7. ASSUME NEW d \in Data, FunctionDone(t, d) \/ AgentDone(t, d)
        PROVE  \E dr, de : Books(r, n, dr, de, 0)
    <2> DEFINE a == Reserve(run[r])
               c == Hop(r, n, d)
    <2>1. /\ run' = [run EXCEPT ![r] = Finish(a)] /\ Free # {}
          /\ task' = [Draining(t) EXCEPT ![NewTask] = c] /\ Resume(t, 1)
      BY <1>7 DEF FunctionDone, AgentDone
    <2>2. EndsWithEvent(t)
      <3>1. c.run = r /\ c.job = None
        BY DEF Hop, Routing
      <3> HIDE DEF c
      <3> QED
        BY <2>1, <3>1 DEF EndsWithEvent
    <2>3. Moves(r, 1, -1, 0) /\ Seats(n, -1)
      BY <1>1, <2>1, <2>2, EndsMoves
    <2>4. run'[r] = Finish(a) /\ \A x \in Runs \ {r} : run'[x] = run[x]
      <3> HIDE DEF a, r
      <3> QED
        BY <1>2, <2>1 DEF IInv, TypeOK
    <2>5. /\ a \in RunType /\ a.pending = run[r].pending + 1 /\ a.active = run[r].active
          /\ Same(run[r], a)
      BY <1>2, RunOperations, CounterSteps, PhaseSteps
    <2> HIDE DEF a
    <2>6. /\ Finish(a).pending = a.pending /\ Finish(a).active = a.active - 1
          /\ Same(a, Finish(a))
      BY <2>5, CounterSteps, PhaseSteps
    <2>7. Pays(run[r], run'[r], 1, 0) /\ run'[r].active = run[r].active + (-1)
      BY <1>2, <2>4, <2>5, <2>6 DEF Pays
    <2>8. Course(r, run'[r])
      BY <1>2, <2>4, <2>5, <2>6 DEF Course, Same, Sank, Keeps
    <2>9. Books(r, n, 1, -1, 0)
      BY <1>1, <2>1, <2>3, <2>4, <2>7, <2>8, EndsBooks
    <2> QED
      BY <2>9
  <1> QED
    BY <1>4, <1>5, <1>6, <1>7 DEF Completes

LEMMA InlineEmitBooks ==
    ASSUME IInv, IInv', FiniteQueues, NEW t \in Tasks, NEW d \in Data, InlineEmit(t, d)
    PROVE  Books(task[t].job, None, 1, 0, 0)
  <1> DEFINE r == task[t].job
             R == Reserve(run[r])
  <1>1. /\ r \in Runs /\ run[r] \in RunType /\ Outstanding(r)
    BY HolderFacts, WhatIsOutstanding DEF InlineEmit, Executes, IInv, TypeOK
  <1>2. Moves(r, 1, 0, 0) /\ Seats(None, 0)
    BY InlineEmitMoves
  <1>3. run'[r] = R /\ (\A x \in Runs \ {r} : run'[x] = run[x]) /\ node' = node
    BY <1>1 DEF InlineEmit, IInv, TypeOK
  <1>4. /\ R.pending = run[r].pending + 1 /\ run[r].pending \in Int
        /\ R.active = run[r].active /\ Same(run[r], R)
    BY <1>1, CounterSteps, PhaseSteps
  <1> HIDE DEF R
  <1>5. Pays(run[r], R, 1, 0)
    BY <1>4 DEF Pays
  <1>6. Course(r, R)
    BY <1>1, <1>4 DEF Course, Same, Sank, Keeps
  <1> QED
    BY <1>1, <1>2, <1>3, <1>4, <1>5, <1>6, BooksOfRun

LEMMA RunEventsBooks ==
    ASSUME IInv, IInv', FiniteQueues, NEW r \in Runs,
           RecordEnd(r) \/ RemoveRun(r) \/ DeadlinePasses(r)
    PROVE  Books(r, None, 0, 0, 0)
  <1>1. /\ run[r] \in RunType /\ node' = node /\ task' = task
        /\ \A x \in Runs \ {r} : run'[x] = run[x]
    BY DEF RecordEnd, RemoveRun, DeadlinePasses, IInv, TypeOK
  <1>2. Moves(r, 0, 0, 0) /\ Seats(None, 0)
    BY <1>1, RunEventsMove, NothingMoves
  <1>3. Course(r, run'[r])
    BY DEF Course, RecordEnd, RemoveRun, DeadlinePasses, IInv, TypeOK
  <1>4. run'[r].pending = run[r].pending /\ run'[r].active = run[r].active
    <2>1. CASE RecordEnd(r)
      <3>1. run'[r] = Recorded(run[r])
        BY <2>1 DEF RecordEnd, IInv, TypeOK
      <3> QED
        BY <1>1, <3>1, CounterSteps
    <2>2. CASE RemoveRun(r)
      BY <1>1, <2>2 DEF RemoveRun, IInv, TypeOK, RunType
    <2>3. CASE DeadlinePasses(r)
      BY <1>1, <2>3 DEF DeadlinePasses, IInv, TypeOK, RunType
    <2> QED
      BY <2>1, <2>2, <2>3
  <1>5. Pays(run[r], run'[r], 0, 0)
    <2>1. run[r].pending \in Int
      BY <1>1, CounterSteps
    <2> QED
      BY <1>4, <2>1 DEF Pays
  <1> QED
    BY <1>1, <1>2, <1>3, <1>4, <1>5, BooksOfRun

\* Every step keeps books of one run and one node.
LEMMA StepBooks ==
    ASSUME IInv, IInv', FiniteQueues, Unborn, [Next]_vars
    PROVE  \E r, n, dr, de, dq : Books(r, n, dr, de, dq)
  <1>1. CASE Activation
    <2>1. PICK r \in Runs, src \in Sources, d \in Data : \E e \in Entries(src) :
            StartRun(r, src, e, d) \/ JoinRun(r, src, e, d)
      BY <1>1 DEF Activation
    <2>2. Books(r, None, 1, 0, 0)
      BY <2>1, ActivationBooks
    <2> QED
      BY <2>2
  <1>2. ASSUME NEW t \in Tasks, LoopStep(t) \/ Resumes(t)
        PROVE  \E r, n, dr, de, dq : Books(r, n, dr, de, dq)
    <2>1. CASE Merge(t) \/ Deliver(t) \/ RouteEnds(t)
      BY <2>1, RoutingBooks
    <2>2. CASE TakeGuided(t) \/ TakeExecution(t) \/ TakeRefused(t) \/ DrainEnds(t)
      BY <2>2, DrainBooks
    <2>3. CASE RunSaved(t) \/ HopBegins(t)
      BY <2>3, RouteBooks
    <2>4. CASE Completes(t) \/ AgentFailed(t) \/ \E d \in Data : AgentDone(t, d)
      BY <2>4, ExecutionsBooks
    <2> QED
      BY <1>2, <2>1, <2>2, <2>3, <2>4 DEF LoopStep, Resumes
  <1>3. ASSUME NEW t \in Tasks, NEW d \in Data, InlineEmit(t, d)
        PROVE  \E r, n, dr, de, dq : Books(r, n, dr, de, dq)
    BY <1>3, InlineEmitBooks
  <1>4. ASSUME NEW r \in Runs, RecordEnd(r) \/ RemoveRun(r) \/ DeadlinePasses(r)
        PROVE  \E x, n, dr, de, dq : Books(x, n, dr, de, dq)
    BY <1>4, RunEventsBooks
  <1>5. CASE Quiescent \/ UNCHANGED vars
    <2>1. run' = run /\ node' = node /\ task' = task
      BY <1>5 DEF Quiescent, vars
    <2>2. Books(None, None, 0, 0, 0)
      BY <2>1, RunEventsMove, BooksOfNone
    <2> QED
      BY <2>2
  <1> QED
    BY <1>1, <1>2, <1>3, <1>4, <1>5 DEF Next

-----------------------------------------------------------------------------
(* Exactness.                                                              *)

\* A run that counts no parked step has none.
ParkedCounted == \A r \in Runs : Counted(run[r])

CInv == IInv /\ FiniteQueues /\ Unborn /\ PendingExact /\ ParkedCounted

\* Sinking, recording, forgetting and lateness leave counters and history alone, and
\* only recording touches the status.
LEMMA EndSteps ==
    ASSUME NEW R \in RunType, NEW S,
           \/ S \in {R, Sink(R), Recorded(R)}
           \/ S = [R EXCEPT !.phase = "gone"] \/ S = [R EXCEPT !.late = TRUE]
    PROVE  /\ S.pending = R.pending /\ S.active = R.active /\ S.suspended = R.suspended
           /\ S.suspendedNodes = R.suspendedNodes /\ S.rejoined = R.rejoined
           /\ S.error = R.error
           /\ S # Recorded(R) => S.status = R.status
           /\ S = Recorded(R) =>
                S.phase = "ended" /\ S.status = IF R.error THEN "tripped" ELSE "complete"
           /\ S = [R EXCEPT !.phase = "gone"] => S.phase = "gone"
           /\ S = [R EXCEPT !.late = TRUE] => S.phase = R.phase
  <1>1. CASE S = R
    BY <1>1 DEF RunType, Recorded
  <1>2. CASE S = Sink(R)
    BY <1>2 DEF RunType, Sink, Recorded
  <1>3. CASE S = Recorded(R)
    <2> DEFINE E == [R EXCEPT !.phase = "ended"]
               v == IF R.error THEN "tripped" ELSE "complete"
    <2>1. S = [E EXCEPT !.status = v]
      BY <1>3 DEF Recorded, RunType
    <2> QED
      BY <1>3, <2>1 DEF RunType
  <1>4. CASE S = [R EXCEPT !.phase = "gone"]
    BY <1>4 DEF RunType, Recorded
  <1>5. CASE S = [R EXCEPT !.late = TRUE]
    BY <1>5 DEF RunType, Recorded
  <1> QED
    BY <1>1, <1>2, <1>3, <1>4, <1>5

\* When the books are kept, a run has work after a step if it had, unless the step is
\* about it.
LEMMA WorkStays ==
    ASSUME FiniteQueues, FiniteQueues', IInv, NEW r0, NEW n0, NEW dr, NEW de, NEW dq,
           Books(r0, n0, dr, de, dq), NEW r \in Runs \ {r0}
    PROVE  Outstanding(r)' <=> Outstanding(r)
  <1>1. /\ Cardinality(Reserving(r))' = Cardinality(Reserving(r))
        /\ Cardinality(ExecutingFor(r))' = Cardinality(ExecutingFor(r))
        /\ Cardinality(QueuedFor(r))' = Cardinality(QueuedFor(r))
    BY Sizes DEF Books, Moves, QueuesMove
  <1>2. \A S \in SUBSET Tasks : Cardinality(S) = 0 <=> S = {}
    BY CountCoroutines, FS_Subset, TasksAssumption, FS_EmptySet
  <1>3. Reserving(r)' = {} <=> Reserving(r) = {}
    <2>1. Reserving(r) \in SUBSET Tasks /\ Reserving(r)' \in SUBSET Tasks
      BY DEF Reserving
    <2> QED
      BY <1>1, <1>2, <2>1
  <1>4. ExecutingFor(r)' = {} <=> ExecutingFor(r) = {}
    <2>1. ExecutingFor(r) \in SUBSET Tasks /\ ExecutingFor(r)' \in SUBSET Tasks
      BY DEF ExecutingFor
    <2> QED
      BY <1>1, <1>2, <2>1
  <1>5. QueuedFor(r)' = {} <=> QueuedFor(r) = {}
    <2>1. IsFiniteSet(QueuedFor(r)) /\ IsFiniteSet(QueuedFor(r)')
      BY DEF FiniteQueues
    <2> QED
      BY <1>1, <2>1, FS_EmptySet
  <1>6. run'[r].suspendedNodes = run[r].suspendedNodes
    <2>1. run'[r] \in {run[r], Sink(run[r])} /\ run[r] \in RunType
      BY DEF Books, IInv, TypeOK
    <2> QED
      BY <2>1, PhaseSteps
  <1> QED
    BY <1>3, <1>4, <1>5, <1>6 DEF Outstanding, Parked

LEMMA InitCInv == Init => CInv
  <1> SUFFICES ASSUME Init PROVE CInv
    OBVIOUS
  <1>1. IInv
    BY InitIInv
  <1>2. \A t \in Tasks : task[t].run = None /\ task[t].pc = "idle"
    BY DEF Init, Idle
  <1>3. \A r \in Runs : run[r] = NoRun /\ run[r].pending = 0
                     /\ run[r].suspended = 0 /\ run[r].suspendedNodes = {}
    BY DEF Init, NoRun
  <1>4. \A r \in Runs : Reserving(r) = {} /\ ExecutingFor(r) = {} /\ QueuedFor(r) = {}
    <2>1. \A r \in Runs : Reserving(r) = {} /\ ExecutingFor(r) = {}
      BY <1>2, NoneAssumption DEF Reserving, ExecutingFor
    <2>2. \A n \in Nodes : DOMAIN node[n].queue = {}
      BY DEF Init
    <2>3. \A r \in Runs : QueuedFor(r) = {}
      BY <2>2 DEF QueuedFor
    <2> QED
      BY <2>1, <2>3
  <1>5. FiniteQueues /\ PendingExact
    BY <1>3, <1>4, FS_EmptySet DEF FiniteQueues, PendingExact
  <1>6. Unborn
    BY <1>3, <1>4 DEF Unborn, Outstanding, Parked
  <1>7. ParkedCounted
    BY <1>3, FS_EmptySet DEF ParkedCounted, Counted
  <1> QED
    BY <1>1, <1>5, <1>6, <1>7 DEF CInv

\* Every step keeps the counts of pending work.
LEMMA StepCInv == CInv /\ [Next]_vars => CInv'
  <1> SUFFICES ASSUME CInv, [Next]_vars PROVE CInv'
    OBVIOUS
  <1>1. IInv /\ FiniteQueues /\ Unborn /\ PendingExact
    BY DEF CInv
  <1>2. IInv'
    BY <1>1, StepIInv
  <1>3. PICK r0, n0, dr, de, dq : Books(r0, n0, dr, de, dq)
    BY <1>1, <1>2, StepBooks
  <1>4. FiniteQueues'
    BY <1>3 DEF Books, Moves, QueuesMove, FiniteQueues
  <1>5. \A r \in Runs : run[r] \in RunType
    BY <1>1 DEF IInv, TypeOK
  <1>6. PendingExact'
    <2>1. ASSUME NEW r \in Runs
          PROVE  run'[r].pending = Cardinality(Reserving(r))' + Cardinality(QueuedFor(r))'
      <3>1. /\ run[r].pending = Cardinality(Reserving(r)) + Cardinality(QueuedFor(r))
            /\ Cardinality(Reserving(r)) \in Nat /\ Cardinality(QueuedFor(r)) \in Nat
        BY <1>1, Sizes DEF PendingExact
      <3>2. /\ Cardinality(Reserving(r))' = Cardinality(Reserving(r)) + (IF r = r0 THEN dr ELSE 0)
            /\ Cardinality(QueuedFor(r))' = Cardinality(QueuedFor(r)) + (IF r = r0 THEN dq ELSE 0)
            /\ dr \in Int /\ dq \in Int
        BY <1>3 DEF Books, Moves, QueuesMove
      <3>3. CASE r = r0
        <4>1. run'[r].pending = run[r].pending + dr + dq
          BY <1>3, <3>3 DEF Books, Pays
        <4> QED
          BY <3>1, <3>2, <3>3, <4>1
      <3>4. CASE r # r0
        <4>1. run'[r].pending = run[r].pending
          BY <1>3, <1>5, <3>4, CounterSteps DEF Books
        <4> QED
          BY <3>1, <3>2, <3>4, <4>1
      <3> QED
        BY <3>3, <3>4
    <2> QED
      BY <2>1 DEF PendingExact
  <1>7. Unborn'
    <2>1. ASSUME NEW r \in Runs, run'[r].phase = "none"
          PROVE  run'[r] = NoRun /\ ~Outstanding(r)'
      <3>1. r # r0
        <4>1. ASSUME r = r0, Course(r, run'[r]) PROVE FALSE
          <5>1. Outstanding(r) => run[r].phase # "none"
            BY <1>1 DEF Unborn
          <5>2. Born.phase # "none"
            BY DEF Born, NoRun, Reserve
          <5>3. run[r].phase = "sunk" => Recorded(run[r]).phase # "none"
            <6>1. ASSUME NEW S, S = [run[r] EXCEPT !.phase = "ended"], NEW v
                  PROVE  [S EXCEPT !.status = v].phase # "none"
              BY <1>5, <6>1 DEF RunType
            <6> QED
              BY <6>1 DEF Recorded
          <5>4. /\ [run[r] EXCEPT !.phase = "gone"].phase # "none"
                /\ run[r].phase # "none" => [run[r] EXCEPT !.late = TRUE].phase # "none"
            BY <1>5 DEF RunType
          <5> QED
            BY <2>1, <4>1, <5>1, <5>2, <5>3, <5>4 DEF Course, Sank, Same, Joins
        <4> QED
          BY <1>3, <4>1 DEF Books
      <3>2. run'[r] \in {run[r], Sink(run[r])}
        BY <1>3, <3>1 DEF Books
      <3>3. run[r].phase = "none" /\ run'[r] = run[r]
        BY <1>5, <2>1, <3>2 DEF Sink, RunType
      <3>4. run[r] = NoRun /\ ~Outstanding(r)
        BY <1>1, <3>3 DEF Unborn
      <3>5. Outstanding(r)' <=> Outstanding(r)
        BY <1>1, <1>3, <1>4, <3>1, WorkStays
      <3> QED
        BY <3>3, <3>4, <3>5
    <2> QED
      BY <2>1 DEF Unborn
  <1>8. ASSUME NEW r \in Runs PROVE Counted(run'[r])
    <2>1. run[r] \in RunType /\ Counted(run[r])
      BY <1>5 DEF CInv, ParkedCounted
    <2>2. ASSUME NEW S, \/ S \in {run[r], Sink(run[r]), Recorded(run[r])}
                        \/ S = [run[r] EXCEPT !.phase = "gone"]
                        \/ S = [run[r] EXCEPT !.late = TRUE]
          PROVE  Counted(S)
      <3>1. S.suspended = run[r].suspended /\ S.suspendedNodes = run[r].suspendedNodes
        BY <2>1, <2>2, EndSteps
      <3> QED
        BY <2>1, <3>1 DEF Counted
    <2>3. Counted(Born)
      <3>1. Born.suspended = 0 /\ Born.suspendedNodes = {}
        BY DEF Born, NoRun, Reserve
      <3> QED
        BY <3>1, FS_EmptySet DEF Counted
    <2>4. CASE r = r0
      <3>1. Course(r, run'[r])
        BY <1>3, <2>4 DEF Books
      <3> QED
        BY <2>1, <2>2, <2>3, <3>1 DEF Course, Same, Sank, Keeps, Joins
    <2>5. CASE r # r0
      BY <1>3, <2>2, <2>5 DEF Books
    <2> QED
      BY <2>4, <2>5
  <1>9. ParkedCounted'
    BY <1>8 DEF ParkedCounted
  <1> QED
    BY <1>2, <1>4, <1>6, <1>7, <1>9 DEF CInv

\* The executions of a node never exceed its limit by the count the scheduler keeps.
Within == \A n \in Nodes : node[n].active <= Limit[n]

AInv == CInv /\ ActiveExact /\ Within

LEMMA InitAInv == Init => AInv
  <1> SUFFICES ASSUME Init PROVE AInv
    OBVIOUS
  <1>1. CInv
    BY InitCInv
  <1>2. /\ \A r \in Runs : run[r].active = 0
        /\ \A n \in Nodes : node[n].active = 0
        /\ \A t \in Tasks : task[t].pc = "idle"
    BY DEF Init, NoRun, Idle
  <1>3. /\ \A r \in Runs : ExecutingFor(r) = {}
        /\ \A n \in Nodes : ExecutingOn(n) = {}
    BY <1>2 DEF ExecutingFor, ExecutingOn
  <1>4. ActiveExact
    BY <1>2, <1>3, FS_EmptySet DEF ActiveExact
  <1>5. Within
    BY <1>2, LimitAssumption DEF Within
  <1> QED
    BY <1>1, <1>4, <1>5 DEF AInv

\* Every step keeps the counts of executions, if no function raises.
LEMMA StepAInv == Raises = {} /\ AInv /\ [Next]_vars => AInv'
  <1> SUFFICES ASSUME Raises = {}, AInv, [Next]_vars PROVE AInv'
    OBVIOUS
  <1>1. CInv /\ CInv' /\ IInv /\ IInv' /\ FiniteQueues /\ Unborn
    BY StepCInv DEF AInv, CInv
  <1>2. PICK r0, n0, dr, de, dq : Books(r0, n0, dr, de, dq)
    BY <1>1, StepBooks
  <1>3. \A n \in Nodes : node[n].active \in Int /\ Limit[n] \in Nat
    BY <1>1, LimitAssumption DEF IInv, TypeOK, NodeType
  <1>4. de \in {-1, 0, 1} /\ de \in Int
    BY <1>2 DEF Books
  <1>5. \A n \in Nodes : node'[n].active = node[n].active + (IF n = n0 THEN de ELSE 0)
    BY <1>2 DEF Books
  <1>6. ASSUME NEW r \in Runs PROVE run'[r].active = Cardinality(ExecutingFor(r))'
    <2>1. /\ run[r].active = Cardinality(ExecutingFor(r))
          /\ Cardinality(ExecutingFor(r)) \in Nat
      BY <1>1, Sizes DEF AInv, ActiveExact
    <2>2. Cardinality(ExecutingFor(r))' =
            Cardinality(ExecutingFor(r)) + (IF r = r0 THEN de ELSE 0)
      BY <1>2 DEF Books, Moves
    <2>3. CASE r = r0
      <3>1. run'[r].active = run[r].active + de
        BY <1>2, <2>3 DEF Books
      <3> QED
        BY <1>4, <2>1, <2>2, <2>3, <3>1
    <2>4. CASE r # r0
      <3>1. run'[r].active = run[r].active
        <4>1. run'[r] \in {run[r], Sink(run[r])} /\ run[r] \in RunType
          BY <1>1, <1>2, <2>4 DEF Books, IInv, TypeOK
        <4> QED
          BY <4>1, CounterSteps
      <3> QED
        BY <2>1, <2>2, <2>4, <3>1
    <2> QED
      BY <2>3, <2>4
  <1>7. ASSUME NEW n \in Nodes PROVE node'[n].active = Cardinality(ExecutingOn(n))'
    <2>1. node[n].active = Cardinality(ExecutingOn(n))
      BY DEF AInv, ActiveExact
    <2>2. Cardinality(ExecutingOn(n))' =
            Cardinality(ExecutingOn(n)) + (IF n = n0 THEN de ELSE 0)
      BY <1>2 DEF Books, Seats
    <2> QED
      BY <1>5, <2>1, <2>2
  <1>8. ASSUME NEW n \in Nodes PROVE node'[n].active <= Limit[n]
    <2>1. node[n].active <= Limit[n]
      BY DEF AInv, Within
    <2>2. n = n0 /\ de = 1 => node[n].active < Limit[n]
      BY <1>2 DEF Books, MayTake
    <2> QED
      BY <1>3, <1>4, <1>5, <2>1, <2>2
  <1> QED
    BY <1>1, <1>6, <1>7, <1>8 DEF AInv, ActiveExact, Within

-----------------------------------------------------------------------------
(* Theorems.                                                               *)

\* run.pending counts the run's queued deliveries and the reserves held for it, in
\* every document, raising functions and injections into ended runs included: no
\* entry, merge, emission, refusal or failure loses or repeats a share.
THEOREM PendingIsExact == Spec => []PendingExact
  <1>1. Spec => []CInv
    BY InitCInv, StepCInv, PTL DEF Spec
  <1>2. CInv => PendingExact
    BY DEF CInv
  <1> QED
    BY <1>1, <1>2, PTL

\* run.active and the active count of each node are the executions in flight, when no
\* function raises, over seats that pass from a drain to an agent's watcher.
THEOREM ActiveIsExact ==
    ASSUME Raises = {}
    PROVE  Spec => []ActiveExact
  <1>1. AInv /\ [Next]_vars => AInv'
    BY StepAInv
  <1>2. Spec => []AInv
    BY <1>1, InitAInv, PTL DEF Spec
  <1>3. AInv => ActiveExact
    BY DEF AInv
  <1> QED
    BY <1>2, <1>3, PTL

\* A serial node executes one delivery at a time and a parallel one at most its limit,
\* whichever runs the deliveries belong to, when no function raises.
THEOREM LimitsHold ==
    ASSUME Raises = {}
    PROVE  Spec => []NodeLimit
  <1>1. AInv /\ [Next]_vars => AInv'
    BY StepAInv
  <1>2. Spec => []AInv
    BY <1>1, InitAInv, PTL DEF Spec
  <1>3. AInv => NodeLimit
    BY DEF AInv, ActiveExact, Within, NodeLimit
  <1> QED
    BY <1>2, <1>3, PTL

====
