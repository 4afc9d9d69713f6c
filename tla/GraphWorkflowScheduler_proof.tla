---- MODULE GraphWorkflowScheduler_proof ----
(***************************************************************************)
(* The per-node scheduler of GraphWorkflowManager loses no delivery, and   *)
(* its pending_ids mirror its queues, for every document.                  *)
(***************************************************************************)
EXTENDS GraphWorkflowManager_proof

-----------------------------------------------------------------------------
(* No lost wakeup.  The drain loop awaits each execution, so a coroutine   *)
(* that takes one delivery leaves the others to nobody until it returns.   *)
(* That is safe because a drain never finds room for more than one: it     *)
(* runs when one delivery was queued or one slot was freed.                *)

\* A draining coroutine has at most one delivery to take, or one slot to fill.
DrainRoom ==
    \A t \in Tasks : task[t].pc = "draining" =>
        \/ Len(node[task[t].node].queue) <= 1
        \/ node[task[t].node].active >= Limit[task[t].node] - 1

WInv == IInv /\ NoLostWakeup /\ DrainRoom

\* When nobody drains, no node has both a queued delivery and a free slot.
LEMMA NobodyDrains ==
    ASSUME WInv, \A u \in Tasks : task[u].pc # "draining"
    PROVE  \A n \in Nodes : ~MayTake(n)
  BY DEF WInv, NoLostWakeup

\* A coroutine that routes, or resumes, finds nobody draining.
LEMMA OthersDoNotDrain ==
    ASSUME WInv, NEW t \in Tasks, task[t].pc = "routing" \/ LoopFree
    PROVE  \A u \in Tasks : task[u].pc # "draining"
  BY DEF WInv, IInv, Shape, LoopFree, Holds

\* Steps that move no draining coroutine and no queue.
LEMMA QuietStep ==
    ASSUME WInv, node' = node,
           \A u \in Tasks : task[u].pc = "draining" \/ task'[u].pc = "draining"
                              => task'[u] = task[u]
    PROVE  NoLostWakeup' /\ DrainRoom'
  <1>1. NoLostWakeup'
    BY DEF WInv, NoLostWakeup, MayTake
  <1>2. DrainRoom'
    BY DEF WInv, DrainRoom
  <1> QED
    BY <1>1, <1>2

\* A coroutine starts to drain node n, the only node that changed: no other has a
\* delivery to take, and n has at most one, or one slot to fill.
LEMMA DrainStarts ==
    ASSUME WInv, NEW t \in Tasks, NEW n \in Nodes,
           task[t].pc = "routing" \/ LoopFree,
           task'[t].pc = "draining", task'[t].node = n,
           \A u \in Tasks \ {t} : task'[u].pc = "draining" => task[u].pc = "draining",
           \A x \in Nodes \ {n} : node'[x] = node[x],
           Len(node'[n].queue) <= 1 \/ node'[n].active >= Limit[n] - 1
    PROVE  NoLostWakeup' /\ DrainRoom'
  <1>1. \A u \in Tasks : task[u].pc # "draining"
    BY OthersDoNotDrain
  <1>2. \A x \in Nodes : ~MayTake(x)
    BY <1>1, NobodyDrains
  <1>3. NoLostWakeup'
    BY <1>2 DEF NoLostWakeup, MayTake
  <1>4. DrainRoom'
    BY <1>1 DEF DrainRoom
  <1> QED
    BY <1>3, <1>4

\* What the routing or resuming coroutine leaves at node n when it adds a delivery
\* or frees a slot there.
LEMMA RoomFacts ==
    ASSUME WInv, NEW t \in Tasks, task[t].pc = "routing" \/ LoopFree, NEW n \in Nodes
    PROVE  /\ node[n] \in NodeType /\ node[n].active \in Int /\ Limit[n] \in Nat
           /\ node[n].queue \in Seq(Delivery)
           /\ Len(node[n].queue) = 0 \/ node[n].active >= Limit[n]
  <1>1. node[n] \in NodeType
    BY DEF WInv, IInv, TypeOK
  <1>2. /\ node[n].active \in Int /\ Limit[n] \in Nat
        /\ node[n].queue \in Seq(Delivery)
    BY <1>1, LimitAssumption DEF NodeType
  <1>3. ~MayTake(n)
    BY OthersDoNotDrain, NobodyDrains
  <1> QED
    BY <1>1, <1>2, <1>3 DEF MayTake

\* Delivering to a node.
LEMMA DeliverWakes ==
    ASSUME WInv, NEW t \in Tasks, Deliver(t)
    PROVE  NoLostWakeup' /\ DrainRoom'
  <1> DEFINE n == Head(task[t].todo)
             a == Todo(task[t], Tail(task[t].todo))
             b == At(a, "draining")
  <1>1. /\ task[t] \in TaskType /\ task[t].pc = "routing" /\ task[t].todo \in Seq(Nodes)
        /\ task[t].todo # <<>>
    BY DEF WInv, IInv, TypeOK, Deliver, TaskType
  <1>2. n \in Nodes /\ Tail(task[t].todo) \in Seq(Nodes)
    BY <1>1
  <1>3. a \in TaskType
    BY <1>1, <1>2, TodoChanges
  <1>4. b \in TaskType /\ b.pc = "draining"
    <2> HIDE DEF a
    <2> QED
      BY <1>3, AtChanges
  <1>5. OnNode(b, n).pc = "draining" /\ OnNode(b, n).node = n
    <2> HIDE DEF b
    <2> QED
      BY <1>2, <1>4, OnNodeChanges
  <1>6. task' = [task EXCEPT ![t] = OnNode(b, n)]
    BY DEF Deliver
  <1>7. task'[t] = OnNode(b, n) /\ \A u \in Tasks \ {t} : task'[u] = task[u]
    BY <1>6 DEF WInv, IInv, TypeOK
  <1>8. /\ node'[n].queue = Append(node[n].queue, [run |-> task[t].run, id |-> task[t].id])
        /\ node'[n].active = node[n].active
        /\ \A x \in Nodes \ {n} : node'[x] = node[x]
    BY <1>2 DEF Deliver, WInv, IInv, TypeOK
  <1> HIDE DEF b, n
  <1>9. Len(node'[n].queue) <= 1 \/ node'[n].active >= Limit[n] - 1
    <2>1. Len(node[n].queue) = 0 \/ node[n].active >= Limit[n]
      BY <1>1, <1>2, RoomFacts
    <2>2. /\ node[n].queue \in Seq(Delivery) /\ node[n].active \in Int /\ Limit[n] \in Nat
      BY <1>1, <1>2, RoomFacts
    <2>3. Len(node'[n].queue) = Len(node[n].queue) + 1
      <3>1. [run |-> task[t].run, id |-> task[t].id] \in Delivery
        <4>1. task[t].run \in Runs /\ task[t].id \in Data
          BY <1>1, HolderFacts DEF WInv
        <4> QED
          BY <4>1 DEF Delivery
      <3> QED
        BY <1>8, <2>2, <3>1
    <2> QED
      BY <1>8, <2>1, <2>2, <2>3
  <1> QED
    BY <1>1, <1>2, <1>5, <1>7, <1>8, <1>9, DrainStarts

\* Only one coroutine drains.
LEMMA DrainIsAlone ==
    ASSUME WInv, NEW t \in Tasks, task[t].pc = "draining"
    PROVE  /\ task[t].node \in Nodes
           /\ \A u \in Tasks \ {t} : task[u].pc # "draining"
           /\ \A x \in Nodes \ {task[t].node} : ~MayTake(x)
  <1>1. task[t].node \in Nodes
    BY HolderFacts DEF WInv
  <1>2. \A u \in Tasks \ {t} : task[u].pc # "draining"
    BY DEF WInv, IInv, Shape, Holds
  <1> QED
    BY <1>1, <1>2 DEF WInv, NoLostWakeup

\* What popping a delivery does to the node, and to no other.
LEMMA PopEffect ==
    ASSUME WInv, NEW n \in Nodes, MayTake(n), NEW busy \in {0, 1}, Pop(n, busy)
    PROVE  /\ node[n].queue \in Seq(Delivery) /\ node[n].active \in Int
           /\ Len(node'[n].queue) = Len(node[n].queue) - 1
           /\ node'[n].active = node[n].active + busy
           /\ \A x \in Nodes \ {n} : node'[x] = node[x]
  <1>1. node[n] \in NodeType /\ node[n].queue # <<>>
    BY DEF WInv, IInv, TypeOK, MayTake
  <1>2. node[n].queue \in Seq(Delivery) /\ node[n].active \in Int
    BY <1>1 DEF NodeType
  <1>3. /\ node'[n].queue = Tail(node[n].queue)
        /\ node'[n].active = node[n].active + busy
        /\ \A x \in Nodes \ {n} : node'[x] = node[x]
    BY DEF Pop, WInv, IInv, TypeOK
  <1> QED
    BY <1>1, <1>2, <1>3

\* The drain takes a delivery and goes on, its slot free again.
LEMMA TakeAndGoOnWakes ==
    ASSUME WInv, NEW t \in Tasks, TakeGuided(t) \/ TakeRefused(t)
    PROVE  NoLostWakeup' /\ DrainRoom'
  <1> DEFINE n == task[t].node
  <1>1. task[t].pc = "draining" /\ MayTake(n) /\ Pop(n, 0) /\ task' = task
    BY DEF TakeGuided, TakeRefused
  <1>2. n \in Nodes /\ \A u \in Tasks \ {t} : task[u].pc # "draining"
    BY <1>1, DrainIsAlone
  <1>3. \A x \in Nodes \ {n} : ~MayTake(x)
    BY <1>1, DrainIsAlone
  <1>4. /\ node[n].queue \in Seq(Delivery) /\ node[n].active \in Int
        /\ Len(node'[n].queue) = Len(node[n].queue) - 1
        /\ node'[n].active = node[n].active + 0
        /\ \A x \in Nodes \ {n} : node'[x] = node[x]
    BY <1>1, <1>2, PopEffect
  <1>5. Limit[n] \in Nat
    BY <1>2, LimitAssumption
  <1>6. Len(node[n].queue) <= 1 \/ node[n].active >= Limit[n] - 1
    BY <1>1 DEF WInv, DrainRoom
  <1> HIDE DEF n
  <1>7. n = task[t].node
    BY DEF n
  <1>8. NoLostWakeup'
    BY <1>1, <1>3, <1>4, <1>7 DEF NoLostWakeup, MayTake
  <1>9. DrainRoom'
    <2>1. Len(node[n].queue) \in Nat
      BY <1>4
    <2>2. Len(node'[n].queue) <= 1 \/ node'[n].active >= Limit[n] - 1
      BY <1>4, <1>5, <1>6, <2>1
    <2> QED
      BY <1>1, <1>2, <1>7, <2>2 DEF DrainRoom
  <1> QED
    BY <1>8, <1>9

\* The drain takes a delivery and awaits its execution: what it leaves behind has
\* no free slot.
LEMMA TakeAndAwaitWakes ==
    ASSUME WInv, NEW t \in Tasks, TakeExecution(t)
    PROVE  NoLostWakeup' /\ DrainRoom'
  <1> DEFINE a == At(task[t], "executing")
  <1>0. PICK n \in Nodes : n = task[t].node
    BY DrainIsAlone DEF TakeExecution
  <1> DEFINE r == Head(node[n].queue).run
  <1>1. /\ task[t].pc = "draining" /\ MayTake(n) /\ Pop(n, 1)
        /\ task' = [task EXCEPT ![t] = ForRun(a, r)]
    BY <1>0 DEF TakeExecution
  <1>2. \A u \in Tasks \ {t} : task[u].pc # "draining"
    BY <1>1, DrainIsAlone
  <1>3. \A x \in Nodes \ {n} : ~MayTake(x)
    BY <1>0, <1>1, DrainIsAlone
  <1>4. /\ node[n].queue \in Seq(Delivery) /\ node[n].active \in Int
        /\ Len(node'[n].queue) = Len(node[n].queue) - 1
        /\ node'[n].active = node[n].active + 1
        /\ \A x \in Nodes \ {n} : node'[x] = node[x]
    BY <1>1, PopEffect
  <1>5. Len(node[n].queue) <= 1 \/ node[n].active >= Limit[n] - 1
    BY <1>0, <1>1 DEF WInv, DrainRoom
  <1>6. task'[t].pc = "executing"
    <2>1. task[t] \in TaskType /\ r \in Runs
      BY <1>1, PopFacts DEF WInv, IInv, TypeOK
    <2>2. a \in TaskType /\ a.pc = "executing"
      BY <2>1, AtChanges
    <2> HIDE DEF a, r
    <2>3. ForRun(a, r).pc = "executing"
      BY <2>1, <2>2, ForRunChanges
    <2> QED
      BY <1>1, <2>3 DEF WInv, IInv, TypeOK
  <1>7. \A u \in Tasks : task'[u].pc # "draining"
    BY <1>1, <1>2, <1>6
  <1>8. ~MayTake(n)'
    <2>1. Limit[n] \in Nat /\ Len(node[n].queue) \in Nat /\ Len(node[n].queue) # 0
      <3>1. node[n].queue # <<>>
        BY <1>1 DEF MayTake
      <3> QED
        BY <1>4, <3>1, LimitAssumption
    <2>2. Len(node'[n].queue) = 0 \/ node'[n].active >= Limit[n]
      <3>1. CASE Len(node[n].queue) <= 1
        <4>1. Len(node[n].queue) = 1
          <5>1. \A i \in Nat : i # 0 /\ i <= 1 => i = 1
            OBVIOUS
          <5> QED
            BY <2>1, <3>1, <5>1, Zenon
        <4> QED
          BY <1>4, <4>1
      <3>2. CASE node[n].active >= Limit[n] - 1
        BY <1>4, <2>1, <3>2
      <3> QED
        BY <1>5, <3>1, <3>2
    <2>3. node'[n].queue = <<>> \/ node'[n].active >= Limit[n]
      <3>1. node'[n].queue = Tail(node[n].queue)
        BY <1>1 DEF Pop, WInv, IInv, TypeOK
      <3>2. node'[n].queue \in Seq(Delivery)
        BY <1>1, <1>4, <3>1 DEF MayTake
      <3> QED
        BY <2>2, <3>2
    <2>4. node'[n].active \in Int
      BY <1>4
    <2> QED
      BY <2>1, <2>3, <2>4 DEF MayTake
  <1>9. NoLostWakeup'
    BY <1>3, <1>4, <1>8 DEF NoLostWakeup, MayTake
  <1>10. DrainRoom'
    BY <1>7 DEF DrainRoom
  <1> QED
    BY <1>9, <1>10

\* The drain ends when its node has nothing it may take.
LEMMA DrainEndsWakes ==
    ASSUME WInv, NEW t \in Tasks, DrainEnds(t)
    PROVE  NoLostWakeup' /\ DrainRoom'
  <1> DEFINE k == task[t]
             a == At(k, "routing")
             m == IF k.kind = "watch" THEN Idle ELSE OnNode(a, None)
  <1>1. /\ k.pc = "draining" /\ ~MayTake(k.node) /\ node' = node
        /\ task' = [task EXCEPT ![t] = m]
    BY DEF DrainEnds
  <1>2. m.pc # "draining"
    <2>1. k \in TaskType
      BY DEF WInv, IInv, TypeOK
    <2>2. a \in TaskType /\ a.pc = "routing"
      BY <2>1, AtChanges
    <2> HIDE DEF a
    <2>3. OnNode(a, None).pc = "routing"
      BY <2>2, OnNodeChanges
    <2> QED
      BY <2>3 DEF Idle
  <1>3. \A u \in Tasks : task'[u].pc # "draining"
    <2> HIDE DEF m
    <2>1. \A u \in Tasks \ {t} : task[u].pc # "draining"
      BY <1>1, DrainIsAlone
    <2> QED
      BY <1>1, <1>2, <2>1 DEF WInv, IInv, TypeOK
  <1>4. \A x \in Nodes : ~MayTake(x)
    BY <1>1, DrainIsAlone
  <1>5. NoLostWakeup'
    BY <1>1, <1>4 DEF NoLostWakeup, MayTake
  <1>6. DrainRoom'
    BY <1>3 DEF DrainRoom
  <1> QED
    BY <1>5, <1>6

\* A coroutine resumes into the drain of its node, with one slot freed or none.
LEMMA ResumeWakes ==
    ASSUME WInv, NEW t \in Tasks, task[t].pc \in {"executing", "watching"}, LoopFree,
           task'[t].pc = "draining", task'[t].node = task[t].node,
           \A u \in Tasks \ {t} : task'[u].pc = "draining" => task[u].pc = "draining",
           node' = node \/ Resume(t, 1)
    PROVE  NoLostWakeup' /\ DrainRoom'
  <1>1. PICK n \in Nodes : n = task[t].node
    BY HolderFacts DEF WInv
  <1>2. /\ node[n] \in NodeType /\ node[n].active \in Int /\ Limit[n] \in Nat
        /\ Len(node[n].queue) = 0 \/ node[n].active >= Limit[n]
    BY RoomFacts
  <1>3. /\ \A x \in Nodes \ {n} : node'[x] = node[x]
        /\ node'[n].queue = node[n].queue
        /\ node'[n].active \in {node[n].active, node[n].active - 1}
    <2>1. CASE node' = node
      BY <2>1
    <2>2. CASE Resume(t, 1)
      <3>1. node' = [node EXCEPT ![n] = Freed(node[n], 1)]
        BY <1>1, <2>2 DEF Resume
      <3>2. /\ Freed(node[n], 1).queue = node[n].queue
            /\ Freed(node[n], 1).active = node[n].active - 1
        BY <1>2 DEF Freed, NodeType
      <3> QED
        BY <3>1, <3>2 DEF WInv, IInv, TypeOK
    <2> QED
      BY <2>1, <2>2
  <1>4. Len(node'[n].queue) <= 1 \/ node'[n].active >= Limit[n] - 1
    BY <1>2, <1>3
  <1> QED
    BY <1>1, <1>3, <1>4, DrainStarts

\* Every resumption of an execution or a watcher, when no function raises.
LEMMA ExecutionsWake ==
    ASSUME WInv, Raises = {}, NEW t \in Tasks,
           Completes(t) \/ AgentFailed(t) \/ \E d \in Data : AgentDone(t, d)
    PROVE  NoLostWakeup' /\ DrainRoom'
  <1>1. task[t].pc \in {"executing", "watching"} /\ LoopFree /\ ~FunctionRaises(t)
    BY DEF Completes, FunctionEnds, FunctionRaises, ExecuteFails, AgentStarted,
           FunctionDone, AgentFailed, AgentDone, Executes
  <1>2. PICK m \in TaskType : /\ m.pc = "draining" /\ m.node = task[t].node
                             /\ Draining(t) = [task EXCEPT ![t] = m]
    BY <1>1, DrainingFacts DEF WInv
  <1>3. node' = node \/ Resume(t, 1)
    BY <1>1 DEF Completes, FunctionEnds, ExecuteFails, AgentStarted, FunctionDone,
               AgentFailed, AgentDone
  <1>4. CASE task' = Draining(t)
    <2>1. /\ task'[t].pc = "draining" /\ task'[t].node = task[t].node
          /\ \A u \in Tasks \ {t} : task'[u] = task[u]
      BY <1>2, <1>4 DEF WInv, IInv, TypeOK
    <2>2. \A u \in Tasks \ {t} : task'[u].pc = "draining" => task[u].pc = "draining"
      BY <2>1
    <2> QED
      BY <1>1, <1>3, <2>1, <2>2, ResumeWakes
  <1>5. ASSUME NEW c, c.pc # "draining", Free # {}, task' = [Draining(t) EXCEPT ![NewTask] = c]
        PROVE  NoLostWakeup' /\ DrainRoom'
    <2>1. NewTask \in Tasks /\ NewTask # t
      BY <1>1, <1>5, NewTaskIsIdle
    <2>2. /\ task'[t] = m /\ task'[NewTask] = c
          /\ \A u \in Tasks \ {t, NewTask} : task'[u] = task[u]
      BY <1>2, <1>5, <2>1 DEF WInv, IInv, TypeOK
    <2>3. task'[t].pc = "draining" /\ task'[t].node = task[t].node
      BY <1>2, <2>2
    <2>4. \A u \in Tasks \ {t} : task'[u].pc = "draining" => task[u].pc = "draining"
      BY <1>5, <2>2
    <2> QED
      BY <1>1, <1>3, <2>3, <2>4, ResumeWakes
  <1>6. ASSUME NEW d \in Data
        PROVE  Hop(task[t].job, task[t].node, d).pc # "draining"
    BY DEF Hop, Routing
  <1>7. Watcher(task[t].node, task[t].job).pc # "draining"
    BY DEF Watcher
  <1>8. CASE \E d \in Data : FunctionDone(t, d) \/ AgentDone(t, d)
    BY <1>5, <1>6, <1>8 DEF FunctionDone, AgentDone
  <1>9. CASE AgentStarted(t)
    BY <1>5, <1>7, <1>9 DEF AgentStarted
  <1>10. CASE FunctionEnds(t) \/ ExecuteFails(t) \/ AgentFailed(t)
    BY <1>4, <1>10 DEF FunctionEnds, ExecuteFails, AgentFailed
  <1> QED
    BY <1>1, <1>8, <1>9, <1>10 DEF Completes

\* The steps that leave every queue and every drain as they are.
LEMMA QuietWakes ==
    ASSUME WInv,
           \/ Activation
           \/ \E t \in Tasks : RunSaved(t) \/ HopBegins(t) \/ Merge(t) \/ RouteEnds(t)
           \/ \E t \in Tasks, d \in Data : InlineEmit(t, d)
           \/ \E r \in Runs : RecordEnd(r) \/ RemoveRun(r) \/ DeadlinePasses(r)
           \/ Quiescent
           \/ UNCHANGED vars
    PROVE  NoLostWakeup' /\ DrainRoom'
  <1> USE DEF WInv, IInv, TypeOK
  <1> DEFINE Quiet == \A u \in Tasks : task[u].pc = "draining" \/ task'[u].pc = "draining"
                                         => task'[u] = task[u]
  <1>1. ASSUME NEW c, c.pc # "draining", Free # {}, task' = [task EXCEPT ![NewTask] = c]
        PROVE  Quiet
    BY <1>1, NewTaskIsIdle
  <1>2. CASE Activation
    <2>1. PICK r \in Runs, src \in Sources, d \in Data :
               \E e \in Entries(src) : StartRun(r, src, e, d) \/ JoinRun(r, src, e, d)
      BY <1>2 DEF Activation
    <2>2. PICK e \in Entries(src) : StartRun(r, src, e, d) \/ JoinRun(r, src, e, d)
      BY <2>1
    <2>3. node' = node /\ Free # {}
      BY <2>2 DEF StartRun, JoinRun
    <2>4. CASE StartRun(r, src, e, d)
      <3> DEFINE c == Routing("starting", e.kind, r, 0, d, e.todo)
      <3>1. task' = [task EXCEPT ![NewTask] = c] /\ c.pc # "draining"
        BY <2>4 DEF StartRun, Routing
      <3> HIDE DEF c
      <3> QED
        BY <1>1, <2>3, <3>1, QuietStep
    <2>5. CASE JoinRun(r, src, e, d)
      <3> DEFINE joined == Release(Reserve(Joined(run[r])), src)
                 dead == e.kind = "entry" /\ Trips(joined, 0)
                 c == Routing("routing", e.kind, r, 0, d, IF dead THEN <<>> ELSE e.todo)
      <3>1. task' = [task EXCEPT ![NewTask] = c]
        BY <2>5 DEF JoinRun
      <3>2. c.pc # "draining"
        BY DEF Routing
      <3> HIDE DEF c
      <3> QED
        BY <1>1, <2>3, <3>1, <3>2, QuietStep
    <2> QED
      BY <2>2, <2>4, <2>5
  <1>3. ASSUME NEW t \in Tasks, NEW k \in TaskType, k.pc # "draining",
               task[t].pc # "draining", task' = [task EXCEPT ![t] = k]
        PROVE  Quiet
    BY <1>3
  <1>4. ASSUME NEW t \in Tasks, RunSaved(t) \/ HopBegins(t) \/ Merge(t) \/ RouteEnds(t)
        PROVE  NoLostWakeup' /\ DrainRoom'
    <2>1. node' = node /\ task[t].pc # "draining"
      BY <1>4 DEF RunSaved, HopBegins, Route, Merge, RouteEnds
    <2>2. \A u \in Tasks \ {t} : task'[u] = task[u]
      BY <1>4 DEF RunSaved, HopBegins, Route, Merge, RouteEnds
    <2>3. task'[t].pc # "draining"
      <3>1. task[t] \in TaskType
        OBVIOUS
      <3>2. CASE Merge(t)
        BY <3>1, <3>2 DEF Merge, Todo, TaskType
      <3>3. CASE RouteEnds(t)
        BY <3>3 DEF RouteEnds, Idle
      <3>4. CASE RunSaved(t) \/ HopBegins(t)
        <4> DEFINE a == At(task[t], "routing")
        <4>1. \E todo : task'[t] = Todo(a, todo)
          BY <3>4 DEF RunSaved, HopBegins, Route
        <4>2. a \in TaskType /\ a.pc = "routing"
          BY <3>1, AtChanges
        <4> HIDE DEF a
        <4> QED
          BY <4>1, <4>2 DEF Todo, TaskType
      <3> QED
        BY <1>4, <3>2, <3>3, <3>4
    <2> QED
      BY <2>1, <2>2, <2>3, QuietStep
  <1>5. ASSUME NEW t \in Tasks, NEW d \in Data, InlineEmit(t, d)
        PROVE  NoLostWakeup' /\ DrainRoom'
    <2>1. /\ task' = [task EXCEPT ![NewTask] = Hop(task[t].job, task[t].node, d)]
          /\ Free # {} /\ node' = node
      BY <1>5 DEF InlineEmit
    <2>2. Hop(task[t].job, task[t].node, d).pc # "draining"
      BY DEF Hop, Routing
    <2> QED
      BY <1>1, <2>1, <2>2, QuietStep
  <1>6. CASE \/ \E r \in Runs : RecordEnd(r) \/ RemoveRun(r) \/ DeadlinePasses(r)
             \/ Quiescent \/ UNCHANGED vars
    BY <1>6, QuietStep DEF RecordEnd, RemoveRun, DeadlinePasses, Quiescent, vars
  <1> QED
    BY <1>2, <1>4, <1>5, <1>6

\* Every step keeps the invariant, when no function raises.
LEMMA StepWInv == Raises = {} /\ WInv /\ [Next]_vars => WInv'
  <1> SUFFICES ASSUME Raises = {}, WInv, [Next]_vars PROVE WInv'
    OBVIOUS
  <1>1. IInv'
    BY StepIInv DEF WInv
  <1>2. ASSUME NEW t \in Tasks, LoopStep(t) PROVE NoLostWakeup' /\ DrainRoom'
    BY <1>2, QuietWakes, DeliverWakes, TakeAndGoOnWakes, TakeAndAwaitWakes, DrainEndsWakes
       DEF LoopStep
  <1>3. ASSUME NEW t \in Tasks, Resumes(t) PROVE NoLostWakeup' /\ DrainRoom'
    BY <1>3, QuietWakes, ExecutionsWake DEF Resumes
  <1>4. NoLostWakeup' /\ DrainRoom'
    BY <1>2, <1>3, QuietWakes DEF Next
  <1> QED
    BY <1>1, <1>4 DEF WInv

\* No delivery is left without a wakeup: whenever a node has a delivery queued and
\* a free slot, a coroutine is draining it, provided that no function raises.
THEOREM DeliveriesAreWoken == Raises = {} => (Spec => []NoLostWakeup)
  <1>1. Init => WInv
    <2> SUFFICES ASSUME Init PROVE WInv
      OBVIOUS
    <2>1. IInv
      BY InitIInv
    <2>2. NoLostWakeup /\ DrainRoom
      BY DEF Init, NoLostWakeup, MayTake, DrainRoom, Idle
    <2> QED
      BY <2>1, <2>2 DEF WInv
  <1>2. Raises = {} => (WInv /\ [Next]_vars => WInv')
    BY StepWInv
  <1>3. WInv => NoLostWakeup
    BY DEF WInv
  <1>4. ASSUME Raises = {} PROVE Spec => []NoLostWakeup
    <2>1. WInv /\ [Next]_vars => WInv'
      BY <1>2, <1>4
    <2> QED
      BY <1>1, <1>3, <2>1, PTL DEF Spec
  <1> QED
    BY <1>4

-----------------------------------------------------------------------------
(* pending_ids.                                                            *)

\* The mirror of one queue: the identities of its deliveries, each once.
Mirrors(ids, q) ==
    /\ ids = {q[i].id : i \in DOMAIN q}
    /\ \A i, j \in DOMAIN q : q[i].id = q[j].id => i = j

\* A delivery whose identity is not queued joins the queue and its mirror.
LEMMA AppendMirrors ==
    ASSUME NEW q \in Seq(Delivery), NEW ids, Mirrors(ids, q),
           NEW x \in Delivery, x.id \notin ids
    PROVE  Mirrors(ids \cup {x.id}, Append(q, x))
  <1> DEFINE p == Append(q, x)
  <1>1. /\ p \in Seq(Delivery) /\ Len(q) \in Nat /\ DOMAIN q = 1..Len(q)
        /\ DOMAIN p = 1..(Len(q) + 1)
        /\ p[Len(q) + 1] = x /\ \A i \in 1..Len(q) : p[i] = q[i]
    OBVIOUS
  <1> HIDE DEF p
  <1>2. ids \cup {x.id} = {p[i].id : i \in DOMAIN p}
    <2>1. ASSUME NEW d \in ids PROVE \E i \in DOMAIN p : d = p[i].id
      <3>1. PICK i \in 1..Len(q) : d = q[i].id
        BY <1>1, <2>1 DEF Mirrors
      <3> QED
        BY <1>1, <3>1
    <2>2. \E i \in DOMAIN p : x.id = p[i].id
      BY <1>1
    <2>3. ASSUME NEW i \in DOMAIN p PROVE p[i].id \in ids \cup {x.id}
      <3>1. CASE i = Len(q) + 1
        BY <1>1, <3>1
      <3>2. CASE i \in 1..Len(q)
        <4>1. q[i].id \in ids
          BY <1>1, <3>2 DEF Mirrors
        <4> QED
          BY <1>1, <3>2, <4>1
      <3> QED
        BY <1>1, <3>1, <3>2
    <2> QED
      BY <2>1, <2>2, <2>3
  <1>3. ASSUME NEW i \in DOMAIN p, NEW j \in DOMAIN p, p[i].id = p[j].id PROVE i = j
    <2>1. CASE i \in 1..Len(q) /\ j \in 1..Len(q)
      BY <1>1, <1>3, <2>1 DEF Mirrors
    <2>2. ASSUME NEW k \in 1..Len(q) PROVE p[k].id # x.id
      <3>1. q[k].id \in ids
        BY <1>1, <2>2 DEF Mirrors
      <3> QED
        BY <1>1, <2>2, <3>1
    <2> QED
      BY <1>1, <1>3, <2>1, <2>2
  <1>4. Mirrors(ids \cup {x.id}, p)
    BY <1>2, <1>3 DEF Mirrors
  <1> QED
    BY <1>4 DEF p

\* The head of the queue leaves it and its mirror.
LEMMA TailMirrors ==
    ASSUME NEW q \in Seq(Delivery), q # <<>>, NEW ids, Mirrors(ids, q)
    PROVE  Mirrors(ids \ {Head(q).id}, Tail(q))
  <1> DEFINE p == Tail(q)
  <1>1. /\ Len(q) \in Nat \ {0} /\ DOMAIN q = 1..Len(q)
        /\ DOMAIN p = 1..(Len(q) - 1) /\ Head(q) = q[1]
        /\ \A i \in 1..(Len(q) - 1) : p[i] = q[i + 1]
    OBVIOUS
  <1> HIDE DEF p
  <1>2. ids \ {q[1].id} = {p[i].id : i \in DOMAIN p}
    <2>1. ASSUME NEW d \in ids, d # q[1].id PROVE \E i \in DOMAIN p : d = p[i].id
      <3>1. PICK i \in 1..Len(q) : d = q[i].id
        BY <1>1, <2>1 DEF Mirrors
      <3>2. i - 1 \in DOMAIN p /\ p[i - 1] = q[i]
        BY <1>1, <2>1, <3>1
      <3> QED
        BY <3>1, <3>2
    <2>2. ASSUME NEW i \in DOMAIN p PROVE p[i].id \in ids /\ p[i].id # q[1].id
      <3>1. /\ i + 1 \in DOMAIN q /\ 1 \in DOMAIN q /\ i + 1 # 1
            /\ p[i] = q[i + 1]
        BY <1>1
      <3> QED
        BY <3>1 DEF Mirrors
    <2> QED
      BY <2>1, <2>2
  <1>3. ASSUME NEW i \in DOMAIN p, NEW j \in DOMAIN p, p[i].id = p[j].id PROVE i = j
    <2>1. /\ i + 1 \in DOMAIN q /\ j + 1 \in DOMAIN q
          /\ p[i] = q[i + 1] /\ p[j] = q[j + 1]
      BY <1>1
    <2>2. i + 1 = j + 1
      BY <1>3, <2>1 DEF Mirrors
    <2> QED
      BY <1>1, <2>2
  <1>4. Mirrors(ids \ {q[1].id}, p)
    BY <1>2, <1>3 DEF Mirrors
  <1> QED
    BY <1>1, <1>4 DEF p

Mirrored(n) ==
    /\ n \in MergeIdentical => Mirrors(node[n].ids, node[n].queue)
    /\ n \notin MergeIdentical => node[n].ids = {}

LEMMA MirrorsEverywhere == PendingIdsMirrorQueue <=> \A n \in Nodes : Mirrored(n)
  BY DEF PendingIdsMirrorQueue, Mirrored, Mirrors

\* Delivering to a node adds an identity that was not queued.
LEMMA DeliverMirrors ==
    ASSUME IInv, PendingIdsMirrorQueue, NEW t \in Tasks, Deliver(t)
    PROVE  PendingIdsMirrorQueue'
  <1> DEFINE x == [run |-> task[t].run, id |-> task[t].id]
  <1>1. /\ task[t].pc = "routing" /\ task[t].run \in Runs /\ task[t].id \in Data
        /\ task[t].todo \in Seq(Nodes) /\ task[t].todo # <<>>
    BY HolderFacts DEF Deliver, IInv, TypeOK, TaskType
  <1>2. PICK n \in Nodes : n = Head(task[t].todo)
    BY <1>1
  <1>3. node[n] \in NodeType /\ node[n].queue \in Seq(Delivery)
    BY DEF IInv, TypeOK, NodeType
  <1>4. x \in Delivery /\ x.id = task[t].id
    BY <1>1 DEF Delivery
  <1>5. n \in MergeIdentical => x.id \notin node[n].ids
    BY <1>2, <1>4 DEF Deliver, Absorbed
  <1>6. /\ node'[n].queue = Append(node[n].queue, x)
        /\ node'[n].ids = IF n \in MergeIdentical THEN node[n].ids \cup {x.id} ELSE node[n].ids
        /\ \A y \in Nodes \ {n} : node'[y] = node[y]
    BY <1>2, <1>4 DEF Deliver, IInv, TypeOK
  <1> HIDE DEF x
  <1>7. Mirrored(n)'
    <2>1. CASE n \in MergeIdentical
      BY <1>3, <1>4, <1>5, <1>6, <2>1, AppendMirrors, MirrorsEverywhere DEF Mirrored
    <2>2. CASE n \notin MergeIdentical
      BY <1>6, <2>2, MirrorsEverywhere DEF Mirrored
    <2> QED
      BY <2>1, <2>2
  <1>8. ASSUME NEW y \in Nodes \ {n} PROVE Mirrored(y)'
    BY <1>6, MirrorsEverywhere DEF Mirrored
  <1>9. \A y \in Nodes : Mirrored(y)'
    BY <1>7, <1>8
  <1> QED
    BY <1>9, MirrorsEverywhere DEF PendingIdsMirrorQueue, Mirrored, Mirrors

\* Taking a delivery removes its identity.
LEMMA PopMirrors ==
    ASSUME IInv, PendingIdsMirrorQueue, NEW n \in Nodes, MayTake(n),
           NEW busy, Pop(n, busy)
    PROVE  PendingIdsMirrorQueue'
  <1>1. /\ node[n] \in NodeType /\ node[n].queue \in Seq(Delivery)
        /\ node[n].queue # <<>>
    BY DEF IInv, TypeOK, NodeType, MayTake
  <1>2. /\ node'[n].queue = Tail(node[n].queue)
        /\ node'[n].ids = node[n].ids \ {Head(node[n].queue).id}
        /\ \A y \in Nodes \ {n} : node'[y] = node[y]
    BY DEF Pop, IInv, TypeOK
  <1>3. Mirrored(n)'
    <2>1. CASE n \in MergeIdentical
      BY <1>1, <1>2, <2>1, TailMirrors, MirrorsEverywhere DEF Mirrored
    <2>2. CASE n \notin MergeIdentical
      BY <1>2, <2>2, MirrorsEverywhere DEF Mirrored
    <2> QED
      BY <2>1, <2>2
  <1>4. ASSUME NEW y \in Nodes \ {n} PROVE Mirrored(y)'
    BY <1>2, MirrorsEverywhere DEF Mirrored
  <1>5. \A y \in Nodes : Mirrored(y)'
    BY <1>3, <1>4
  <1> QED
    BY <1>5, MirrorsEverywhere DEF PendingIdsMirrorQueue, Mirrored, Mirrors

\* Freeing slots, and every other step, leaves queues and identities alone.
LEMMA OthersMirror ==
    ASSUME IInv, PendingIdsMirrorQueue,
           node' = node \/ \E t \in Tasks, slots \in {1, 2} : Resume(t, slots)
    PROVE  PendingIdsMirrorQueue'
  <1>1. \A n \in Nodes : node'[n].queue = node[n].queue /\ node'[n].ids = node[n].ids
    <2>1. ASSUME NEW t \in Tasks, NEW slots \in {1, 2}, Resume(t, slots), NEW n \in Nodes
          PROVE  node'[n].queue = node[n].queue /\ node'[n].ids = node[n].ids
      <3>1. node[n] \in NodeType
        BY DEF IInv, TypeOK
      <3>2. node'[n] \in {node[n], Freed(node[n], slots)}
        BY <2>1 DEF Resume, IInv, TypeOK
      <3>3. Freed(node[n], slots).queue = node[n].queue /\ Freed(node[n], slots).ids = node[n].ids
        BY <3>1 DEF Freed, NodeType
      <3> QED
        BY <3>2, <3>3
    <2> QED
      BY <2>1
  <1>2. \A n \in Nodes : Mirrored(n)'
    BY <1>1, MirrorsEverywhere DEF Mirrored
  <1> QED
    BY <1>2, MirrorsEverywhere DEF PendingIdsMirrorQueue, Mirrored, Mirrors

\* pending_ids mirrors the queue of every node in every state: an identical
\* delivery is absorbed only while one that will execute is queued.
THEOREM IdsMirrorQueues == Spec => []PendingIdsMirrorQueue
  <1>1. Init => PendingIdsMirrorQueue
    <2> SUFFICES ASSUME Init, NEW n \in Nodes PROVE Mirrored(n)
      BY MirrorsEverywhere
    <2>1. node[n].queue = <<>> /\ node[n].ids = {}
      BY DEF Init
    <2> QED
      <3>1. DOMAIN node[n].queue = {}
        BY <2>1
      <3> QED
        BY <2>1, <3>1 DEF Mirrored, Mirrors
  <1>2. IInv /\ PendingIdsMirrorQueue /\ [Next]_vars => PendingIdsMirrorQueue'
    <2> SUFFICES ASSUME IInv, PendingIdsMirrorQueue, [Next]_vars
                 PROVE  PendingIdsMirrorQueue'
      OBVIOUS
    <2>1. ASSUME NEW t \in Tasks, LoopStep(t) PROVE PendingIdsMirrorQueue'
      <3>1. CASE Deliver(t)
        BY <3>1, DeliverMirrors
      <3>2. CASE TakeGuided(t) \/ TakeExecution(t) \/ TakeRefused(t)
        <4>1. task[t].node \in Nodes
          BY <3>2, HolderFacts DEF TakeGuided, TakeExecution, TakeRefused
        <4>2. MayTake(task[t].node) /\ (Pop(task[t].node, 0) \/ Pop(task[t].node, 1))
          BY <3>2 DEF TakeGuided, TakeExecution, TakeRefused
        <4> QED
          BY <4>1, <4>2, PopMirrors
      <3>3. CASE Merge(t) \/ RouteEnds(t) \/ DrainEnds(t)
        BY <3>3, OthersMirror DEF Merge, RouteEnds, DrainEnds
      <3> QED
        BY <2>1, <3>1, <3>2, <3>3 DEF LoopStep
    <2>2. ASSUME NEW t \in Tasks, Resumes(t) PROVE PendingIdsMirrorQueue'
      <3>1. node' = node \/ Resume(t, 1) \/ Resume(t, 2)
        BY <2>2 DEF Resumes, Completes, RunSaved, HopBegins, Route, FunctionEnds,
                   FunctionRaises, ExecuteFails, AgentStarted, FunctionDone,
                   AgentFailed, AgentDone
      <3> QED
        BY <3>1, OthersMirror
    <2>3. CASE /\ ~\E t \in Tasks : LoopStep(t) \/ Resumes(t)
               /\ [Next]_vars
      <3>1. node' = node
        BY <2>3 DEF Next, Activation, StartRun, JoinRun, InlineEmit, RecordEnd, RemoveRun,
                   DeadlinePasses, Quiescent, vars
      <3> QED
        BY <3>1, OthersMirror
    <2> QED
      BY <2>1, <2>2, <2>3
  <1>3. Spec => []IInv
    BY InitIInv, StepIInv, PTL DEF Spec
  <1> QED
    BY <1>1, <1>2, <1>3, PTL DEF Spec

====
