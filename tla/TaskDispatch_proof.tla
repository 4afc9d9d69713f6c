-------------------------- MODULE TaskDispatch_proof --------------------------
(***************************************************************************)
(* For any tasks, coroutines, budgets and requests, and whatever saves of  *)
(* one row interleave and whatever coroutines end in an exception: a task  *)
(* that is done, failed or canceled stays so unless a save overtakes it;   *)
(* the ledger implements TaskLedger, in which a task is at work, asks or   *)
(* is done only with a run of its own; and no task that waits is           *)
(* forgotten, unless a task with a turn budget is canceled.                *)
(***************************************************************************)
EXTENDS TaskDispatch, FiniteSetTheorems, WellFoundedInduction, TLAPS

-----------------------------------------------------------------------------
(* Types.                                                                  *)

\* A non-empty list of tasks has an oldest one.
LEMMA OldestOnList ==
    ASSUME NEW todo \in SUBSET Task, todo # {}
    PROVE  Oldest(todo) \in todo
  <1>1. todo \subseteq Nat
    BY TaskDispatchAssumption DEF Task
  <1> DEFINE Less == {pair \in Nat \X Nat : pair[1] < pair[2]}
  <1>2. IsWellFoundedOn(Less, Nat)
    BY NatLessThanWellFounded DEF OpToRel
  <1>3. PICK t \in todo : \A u \in todo : ~(<<u, t>> \in Less)
    <2> HIDE DEF Less
    <2> QED
      BY <1>1, <1>2, WFMin
  <1>4. \A u \in todo : t <= u
    <2>1. ASSUME NEW u \in todo
          PROVE  t <= u
      <3>1. u \in Nat /\ t \in Nat
        BY <1>1
      <3>2. ~(<<u, t>> \in Less)
        BY <1>3
      <3>3. ~(u < t)
        BY <3>1, <3>2
      <3> QED
        BY <3>1, <3>3
    <2> QED
      BY <2>1
  <1> QED
    BY <1>3, <1>4 DEF Oldest

LEMMA IdleType == Idle \in LaneType
  BY TaskDispatchAssumption
     DEF Idle, NoRow, LaneType, Pc, Task, Event, Role, RowType, Status, Terminal

LEMMA ResumedType ==
    ASSUME NEW ln \in LaneType
    PROVE  Resumed(ln) \in LaneType
  <1>1. ln.todo \in SUBSET Task
    BY DEF LaneType
  <1>2. CASE ln.todo # {}
    BY <1>1, <1>2, OldestOnList, IdleType DEF Resumed, Turned, LaneType, Pc
  <1>3. CASE ln.todo = {}
    BY <1>3, IdleType DEF Resumed, LaneType, Pc
  <1> QED
    BY <1>2, <1>3

LEMMA StatusAfterType ==
    ASSUME NEW status \in Status, NEW event \in Event
    PROVE  StatusAfter(status, event) \in Status
  BY DEF StatusAfter, Status, Event, Terminal

LEMMA RecordingType ==
    ASSUME row \in [Task -> RowType], NEW ln \in LaneType, NEW t \in Task,
           NEW event \in Event, NEW author \in Role
    PROVE  Recording(ln, t, event, author) \in LaneType
  <1>1. row[t] \in RowType
    OBVIOUS
  <1> HIDE DEF Event, Role
  <1> QED
    BY <1>1 DEF Recording, LaneType, Pc

LEMMA RecordedType ==
    ASSUME NEW ln \in LaneType
    PROVE  /\ Recorded(ln) \in RowType
           /\ Recorded(ln).process = ln.copy.process
           /\ Recorded(ln).status = StatusAfter(ln.copy.status, ln.event)
  <1>1. ln.copy \in RowType /\ ln.event \in Event
    BY DEF LaneType
  <1>2. StatusAfter(ln.copy.status, ln.event) \in Status
    BY <1>1, StatusAfterType DEF RowType
  <1> QED
    BY <1>1, <1>2 DEF Recorded, RowType

LEMMA StampedType ==
    ASSUME NEW ln \in LaneType
    PROVE  /\ Stamped(ln) \in RowType
           /\ Stamped(ln).process = ln.proc
           /\ Stamped(ln).status = ln.copy.status
  <1>1. ln.copy \in RowType /\ ln.proc \in 0..MaxProcs
    BY DEF LaneType
  <1> QED
    BY <1>1 DEF Stamped, RowType

\* A save of a row of the right type, by a coroutine about that task.
LEMMA SaveRowType ==
    ASSUME TypeOK, NEW l \in Lanes, NEW r \in RowType, SaveRow(l, r)
    PROVE  /\ row' \in [Task -> RowType]
           /\ raced' \subseteq Task /\ broken' \in BOOLEAN
           /\ row'[lane[l].task] = r
           /\ \A u \in Task : u # lane[l].task => row'[u] = row[u]
  <1>1. lane[l].task \in Task /\ row \in [Task -> RowType] /\ raced \subseteq Task
    BY DEF TypeOK, LaneType
  <1>2. row' = [row EXCEPT ![lane[l].task] = r]
    BY DEF SaveRow
  <1>3. raced' = raced \/ raced' = raced \cup {lane[l].task}
    BY DEF SaveRow
  <1>4. broken' \in BOOLEAN
    BY DEF SaveRow
  <1> QED
    BY <1>1, <1>2, <1>3, <1>4

\* A lane that only moves to another place of its coroutine.
LEMMA GotoType ==
    ASSUME lane \in [Lanes -> LaneType], NEW l \in Lanes, NEW ln \in LaneType, Goto(l, ln)
    PROVE  lane' \in [Lanes -> LaneType]
  BY DEF Goto

LEMMA AtPcType ==
    ASSUME NEW ln \in LaneType, NEW pc \in Pc
    PROVE  [ln EXCEPT !.pc = pc] \in LaneType
  BY DEF LaneType

LEMMA TurnType ==
    ASSUME NEW ln \in LaneType, NEW turns \in Nat
    PROVE  Turn(ln, turns) \in LaneType
  <1>1. NoRow \in RowType
    BY TaskDispatchAssumption DEF NoRow, RowType, Status
  <1>2. [ln EXCEPT !.pc = "failing", !.copy = NoRow] \in LaneType
    BY <1>1 DEF LaneType, Pc
  <1>3. [ln EXCEPT !.pc = "turning", !.copy = NoRow, !.turns = turns + 1] \in LaneType
    <2>1. turns + 1 \in Nat
      OBVIOUS
    <2> DEFINE more == turns + 1
    <2> HIDE DEF more
    <2>2. [ln EXCEPT !.pc = "turning", !.copy = NoRow, !.turns = more] \in LaneType
      BY <1>1, <2>1 DEF LaneType, Pc, more
    <2> QED
      BY <2>2 DEF more
  <1> QED
    BY <1>2, <1>3 DEF Turn

LEMMA HeardType ==
    ASSUME row \in [Task -> RowType], NEW l \in Lanes, NEW e \in NewsType, NEW pc \in Pc
    PROVE  Heard(l, e, pc) \in LaneType
  <1> DEFINE frees == row[e.task].status \in Terminal
  <1>1. frees \in BOOLEAN
    OBVIOUS
  <1> HIDE DEF frees
  <1>2. [Idle EXCEPT !.pc = pc, !.task = e.task, !.event = e.event, !.author = e.author,
                     !.frees = frees] \in LaneType
    BY <1>1, IdleType DEF LaneType, NewsType
  <1> QED
    BY <1>2 DEF Heard, frees

LEMMA InitTypeOK == Init => TypeOK
  <1>1. NoRow \in RowType
    BY TaskDispatchAssumption DEF NoRow, RowType, Status
  <1>2. 0 \in 0..MaxRequests /\ 0 \in 0..MaxFaults /\ Len(<<>>) <= MaxProcs
    BY TaskDispatchAssumption
  <1>3. Init => raced \subseteq Task /\ broken \in BOOLEAN
    BY DEF Init
  <1>4. Init => /\ row \in [Task -> RowType] /\ run \in Seq(RunType) /\ Len(run) <= MaxProcs
                /\ lane \in [Lanes -> LaneType] /\ news \in Seq(NewsType)
                /\ asked \in 0..MaxRequests /\ faults \in 0..MaxFaults
    BY <1>1, <1>2, IdleType DEF Init
  <1> QED
    BY <1>3, <1>4 DEF TypeOK

LEMMA LedgerTypeOK ==
    ASSUME TypeOK, NEW l \in Lanes,
           \/ \E t \in Task : Create(l, t)
           \/ \E t \in Task, author \in Role, event \in Event : Request(l, t, author, event)
           \/ SaveRecord(l) \/ Announce(l)
    PROVE  TypeOK'
  <1>0. lane[l] \in LaneType
    BY DEF TypeOK
  <1>1. ASSUME NEW t \in Task, Create(l, t)
        PROVE  TypeOK'
    <2>1. [status |-> "submitted", process |-> 0] \in RowType
      BY TaskDispatchAssumption DEF RowType, Status
    <2>2. [Idle EXCEPT !.pc = "announcing", !.task = t] \in LaneType
      BY IdleType DEF LaneType, Pc
    <2>3. lane' \in [Lanes -> LaneType]
      BY <1>1, <2>2, GotoType DEF Create, TypeOK
    <2> QED
      BY <1>1, <2>1, <2>3 DEF Create, TypeOK, history
  <1>2. ASSUME NEW t \in Task, NEW author \in Role, NEW event \in Event,
               Request(l, t, author, event)
        PROVE  TypeOK'
    <2>1. lane' \in [Lanes -> LaneType]
      BY <1>2, IdleType, RecordingType, GotoType DEF Request, TypeOK
    <2>2. asked' \in 0..MaxRequests
      BY <1>2, TaskDispatchAssumption DEF Request, TypeOK
    <2> QED
      BY <1>2, <2>1, <2>2 DEF Request, TypeOK, history
  <1>3. CASE SaveRecord(l)
    <2>1. [lane[l] EXCEPT !.pc = "announcing", !.copy = NoRow] \in LaneType
      <3>1. NoRow \in RowType
        BY TaskDispatchAssumption DEF NoRow, RowType, Status
      <3> QED
        BY <1>0, <3>1 DEF LaneType, Pc
    <2>2. lane' \in [Lanes -> LaneType]
      BY <1>3, <2>1, GotoType DEF SaveRecord, TypeOK
    <2>3. row' \in [Task -> RowType] /\ raced' \subseteq Task /\ broken' \in BOOLEAN
      BY <1>0, <1>3, RecordedType, SaveRowType DEF SaveRecord
    <2> QED
      BY <1>3, <2>2, <2>3 DEF SaveRecord, TypeOK
  <1>4. CASE Announce(l)
    <2>1. lane' \in [Lanes -> LaneType]
      BY <1>0, <1>4, ResumedType, GotoType DEF Announce, TypeOK
    <2>2. news' \in Seq(NewsType)
      <3>1. [task |-> lane[l].task, event |-> lane[l].event, author |-> lane[l].author] \in NewsType
        BY <1>0 DEF LaneType, NewsType
      <3> QED
        BY <1>4, <3>1 DEF Announce, TypeOK
    <2> QED
      BY <1>4, <2>1, <2>2 DEF Announce, TypeOK, history
  <1> QED
    BY <1>1, <1>2, <1>3, <1>4

LEMMA NewsTypeOK ==
    ASSUME TypeOK, NEW l \in Lanes, HandleNews(l)
    PROVE  TypeOK'
  <1>1. Head(news) \in NewsType /\ news' \in Seq(NewsType)
    BY DEF HandleNews, TypeOK
  <1>2. /\ Heard(l, Head(news), "dispatch") \in LaneType
        /\ Heard(l, Head(news), "delivering") \in LaneType
        /\ Heard(l, Head(news), "budget") \in LaneType
        /\ Resumed(Heard(l, Head(news), "idle")) \in LaneType
    BY <1>1, HeardType, ResumedType DEF TypeOK, Pc
  <1>3. PICK ln \in LaneType : Goto(l, ln)
    <2> HIDE DEF LaneType
    <2> QED
      BY <1>2 DEF HandleNews
  <1>4. lane' \in [Lanes -> LaneType]
    BY <1>3, GotoType DEF TypeOK
  <1> QED
    BY <1>1, <1>4 DEF HandleNews, TypeOK, history

\* What a lane knows of runs: the ones it has read or carries exist, and where it is about
\* one it has one.
OnRun == {"reading", "attach", "attaching", "turning"}
Good(ln) ==
    /\ ln.proc <= Len(run) /\ ln.copy.process <= Len(run)
    /\ ln.pc \in OnRun => ln.proc # 0
RunsExist ==
    /\ \A t \in Task : row[t].process <= Len(run)
    /\ \A l \in Lanes : Good(lane[l])

\* Steps that move the lane and touch nothing else.
LEMMA QuietTypeOK ==
    ASSUME TypeOK, RunsExist, NEW l \in Lanes,
           \/ Deliver(l) \/ BudgetHolds(l) \/ BudgetCrossed(l) \/ Fail(l) \/ FailRefused(l)
           \/ ListWaiting(l) \/ DispatchWaits(l) \/ DispatchGoes(l) \/ NobodyOfThatName(l)
           \/ AttachReads(l) \/ ReadRun(l) \/ Raise(l)
    PROVE  TypeOK'
  <1> USE DEF Pc
  <1>0. lane[l] \in LaneType /\ lane[l].task \in Task /\ lane[l].proc \in 0..MaxProcs
    BY DEF TypeOK, LaneType
  <1>1. \E ln \in LaneType : Goto(l, ln)
    <2>1. CASE Deliver(l)
      <3>1. [lane[l] EXCEPT !.pc = "reading", !.proc = row[lane[l].task].process] \in LaneType
        <4>1. row[lane[l].task].process \in 0..MaxProcs
          BY <1>0 DEF TypeOK, RowType
        <4> QED
          BY <1>0, <4>1 DEF LaneType
      <3> QED
        BY <1>0, <2>1, <3>1, AtPcType, ResumedType DEF Deliver
    <2>2. CASE BudgetHolds(l) \/ DispatchWaits(l)
      BY <1>0, <2>2, ResumedType DEF BudgetHolds, DispatchWaits
    <2>3. CASE BudgetCrossed(l) \/ DispatchGoes(l) \/ NobodyOfThatName(l)
      BY <1>0, <2>3, AtPcType DEF BudgetCrossed, DispatchGoes, NobodyOfThatName
    <2>4. CASE Fail(l)
      BY <1>0, <2>4, RecordingType DEF Fail, TypeOK, Event, Role
    <2>5. CASE FailRefused(l) \/ Raise(l)
      BY <2>5, IdleType DEF FailRefused, Raise
    <2>6. CASE ListWaiting(l)
      <3>1. [Idle EXCEPT !.todo = {t \in Task : Waiting(t)}] \in LaneType
        BY IdleType DEF LaneType
      <3> QED
        BY <2>6, <3>1, ResumedType DEF ListWaiting
    <2>7. CASE AttachReads(l)
      <3>1. row[lane[l].task] \in RowType
        BY <1>0 DEF TypeOK
      <3>2. [lane[l] EXCEPT !.pc = "attaching", !.copy = row[lane[l].task]] \in LaneType
        BY <1>0, <3>1 DEF LaneType
      <3> QED
        BY <2>7, <3>2 DEF AttachReads
    <2>8. CASE ReadRun(l)
      <3>1. PICK turns : Goto(l, Turn(lane[l], turns)) /\ turns = run[lane[l].proc].turns
        BY <2>8 DEF ReadRun
      <3>2. turns \in Nat
        <4>1. lane[l].proc \in 1..Len(run)
          BY <1>0, <2>8 DEF ReadRun, At, RunsExist, Good, OnRun, TypeOK
        <4>2. run[lane[l].proc] \in RunType
          BY <4>1 DEF TypeOK
        <4> QED
          BY <3>1, <4>2 DEF RunType
      <3> QED
        BY <1>0, <3>1, <3>2, TurnType
    <2> QED
      BY <2>1, <2>2, <2>3, <2>4, <2>5, <2>6, <2>7, <2>8
  <1>2. lane' \in [Lanes -> LaneType]
    BY <1>1, GotoType DEF TypeOK
  <1>3. UNCHANGED <<row, run, news, asked, raced>>
    BY DEF Deliver, BudgetHolds, BudgetCrossed, Fail, FailRefused, ListWaiting, DispatchWaits,
           DispatchGoes, NobodyOfThatName, AttachReads, ReadRun, Raise, history
  <1>4. faults' \in 0..MaxFaults
    BY TaskDispatchAssumption
       DEF TypeOK, Deliver, BudgetHolds, BudgetCrossed, Fail, FailRefused, ListWaiting,
           DispatchWaits, DispatchGoes, NobodyOfThatName, AttachReads, ReadRun, Raise
  <1>5. broken' \in BOOLEAN
    <2>1. broken' = broken \/ broken' = TRUE \/ broken' = FALSE
      BY DEF Deliver, BudgetHolds, BudgetCrossed, Fail, FailRefused, ListWaiting,
           DispatchWaits, DispatchGoes, NobodyOfThatName, AttachReads, ReadRun, Raise, history
    <2> QED
      BY <2>1 DEF TypeOK
  <1> QED
    BY <1>2, <1>3, <1>4, <1>5 DEF TypeOK

LEMMA RunTypeOK ==
    ASSUME TypeOK, RunsExist, NEW l \in Lanes, SpawnRun(l) \/ AttachSaves(l) \/ GiveTurn(l)
    PROVE  TypeOK'
  <1> USE DEF Pc
  <1>0. lane[l] \in LaneType /\ lane[l].task \in Task
    BY DEF TypeOK, LaneType
  <1>1. CASE SpawnRun(l)
    <2>1. /\ run' \in Seq(RunType) /\ Len(run') = Len(run) + 1 /\ Len(run') <= MaxProcs
          /\ Len(run) + 1 \in 0..MaxProcs
      <3>1. [task |-> lane[l].task, turns |-> 0, given |-> 0] \in RunType
        BY <1>0 DEF RunType
      <3> QED
        BY <1>1, <3>1, TaskDispatchAssumption DEF SpawnRun, TypeOK
    <2>2. [lane[l] EXCEPT !.pc = "attach", !.proc = Len(run) + 1] \in LaneType
      BY <1>0, <2>1 DEF LaneType
    <2>3. lane' \in [Lanes -> LaneType]
      BY <1>1, <2>2, GotoType DEF SpawnRun, TypeOK
    <2> QED
      BY <1>1, <2>1, <2>3 DEF SpawnRun, TypeOK, history
  <1>2. CASE AttachSaves(l)
    <2>1. lane' \in [Lanes -> LaneType]
      BY <1>0, <1>2, TurnType, GotoType DEF AttachSaves, TypeOK
    <2>2. row' \in [Task -> RowType] /\ raced' \subseteq Task /\ broken' \in BOOLEAN
      BY <1>0, <1>2, StampedType, SaveRowType DEF AttachSaves
    <2> QED
      BY <1>2, <2>1, <2>2 DEF AttachSaves, TypeOK
  <1>3. CASE GiveTurn(l)
    <2>1. lane' \in [Lanes -> LaneType]
      BY <1>0, <1>3, ResumedType, GotoType DEF GiveTurn, TypeOK
    <2> DEFINE p == lane[l].proc
               given == [run[p] EXCEPT !.turns = lane[l].turns, !.given = run[p].given + 1]
    <2>2. p \in 1..Len(run)
      BY <1>0, <1>3 DEF GiveTurn, At, RunsExist, Good, OnRun, TypeOK, LaneType
    <2>3. given \in RunType
      <3> HIDE DEF p
      <3>1. lane[l].turns \in Nat
        BY <1>0 DEF LaneType
      <3>2. run[p] \in RunType
        BY <2>2 DEF TypeOK
      <3>3. run[p].given + 1 \in Nat
        BY <3>2 DEF RunType
      <3> DEFINE more == run[p].given + 1
      <3> HIDE DEF more
      <3>4. [run[p] EXCEPT !.turns = lane[l].turns, !.given = more] \in RunType
        BY <3>1, <3>2, <3>3 DEF RunType, more
      <3> QED
        BY <3>4 DEF more
    <2>4. run' = [run EXCEPT ![p] = given]
      BY <1>3 DEF GiveTurn
    <2> HIDE DEF p, given
    <2>5. run' \in Seq(RunType) /\ Len(run') = Len(run)
      BY <2>2, <2>3, <2>4 DEF TypeOK
    <2> QED
      BY <1>3, <2>1, <2>5 DEF GiveTurn, TypeOK, history
  <1> QED
    BY <1>1, <1>2, <1>3

-----------------------------------------------------------------------------
(* Runs exist.                                                             *)

LEMMA InitRunsExist == Init => RunsExist
  BY DEF Init, RunsExist, Good, NoRow, Idle, OnRun

\* Whatever lane moves, if it stays good, the rows do too and no run goes away.
LEMMA LaneRunsExist ==
    ASSUME TypeOK, RunsExist, NEW l \in Lanes, NEW ln, Goto(l, ln),
           Len(run) \in Nat, Len(run') \in Nat, Len(run) <= Len(run'), Good(ln)',
           \A t \in Task : row'[t].process <= Len(run')
    PROVE  RunsExist'
  <1>1. lane'[l] = ln /\ \A k \in Lanes : k # l => lane'[k] = lane[k]
    BY DEF Goto, TypeOK
  <1>2. ASSUME NEW k \in Lanes, k # l
        PROVE  Good(lane[k])'
    <2>1. Good(lane[k]) /\ lane'[k] = lane[k]
      BY <1>1, <1>2 DEF RunsExist
    <2>2. lane[k].proc \in Nat /\ lane[k].copy.process \in Nat
      BY TaskDispatchAssumption DEF TypeOK, LaneType, RowType
    <2> QED
      BY <2>1, <2>2 DEF Good
  <1>3. Good(lane[l])'
    BY <1>1 DEF Good
  <1> QED
    BY <1>2, <1>3 DEF RunsExist

LEMMA ResumedGood ==
    ASSUME NEW ln, Len(run) \in Nat
    PROVE  Good(Resumed(ln))
  BY DEF Good, Resumed, Turned, Idle, NoRow, OnRun

LEMMA IdleGood ==
    ASSUME Len(run) \in Nat
    PROVE  Good(Idle)
  BY DEF Good, Idle, NoRow, OnRun

\* A lane keeps the run it has.
LEMMA MovedGood ==
    ASSUME NEW ln \in LaneType, Good(ln), NEW pc \in Pc, pc \in OnRun => ln.proc # 0
    PROVE  Good([ln EXCEPT !.pc = pc])
  BY DEF Good, LaneType

LEMMA TurnGood ==
    ASSUME NEW ln \in LaneType, Good(ln), ln.proc # 0, NEW turns, Len(run) \in Nat
    PROVE  Good(Turn(ln, turns))
  BY DEF Good, Turn, LaneType, NoRow, OnRun

LEMMA RecordingGood ==
    ASSUME NEW ln \in LaneType, Good(ln), NEW t \in Task, NEW event, NEW author,
           row \in [Task -> RowType], row[t].process <= Len(run)
    PROVE  Good(Recording(ln, t, event, author))
  BY DEF Good, Recording, LaneType, RowType, OnRun

LEMMA LengthOfRun == TypeOK => Len(run) \in Nat
  BY DEF TypeOK

\* Steps that only move the lane.
LEMMA QuietRunsExist ==
    ASSUME TypeOK, RunsExist, NEW l \in Lanes,
           \/ Deliver(l) \/ BudgetHolds(l) \/ BudgetCrossed(l) \/ Fail(l) \/ FailRefused(l)
           \/ ListWaiting(l) \/ DispatchWaits(l) \/ DispatchGoes(l) \/ NobodyOfThatName(l)
           \/ AttachReads(l) \/ ReadRun(l) \/ Announce(l) \/ HandleNews(l) \/ Raise(l)
           \/ \E t \in Task, author \in Role, event \in Event : Request(l, t, author, event)
    PROVE  RunsExist'
  <1> USE LengthOfRun
  <1>0. /\ lane[l] \in LaneType /\ lane[l].task \in Task /\ Good(lane[l])
        /\ row[lane[l].task].process <= Len(run)
    BY DEF TypeOK, LaneType, RunsExist
  <1>1. \E ln : Goto(l, ln) /\ Good(ln)
    <2>1. CASE Deliver(l)
      <3> DEFINE ln == [lane[l] EXCEPT !.pc = "reading", !.proc = row[lane[l].task].process]
      <3>1. CASE Goto(l, ln) /\ row[lane[l].task].process # 0
        <4>1. ln.proc = row[lane[l].task].process /\ ln.copy = lane[l].copy
          BY <1>0 DEF LaneType
        <4> HIDE DEF ln
        <4>2. Good(ln)
          BY <1>0, <3>1, <4>1 DEF Good
        <4> QED
          BY <3>1, <4>2
      <3>2. CASE Goto(l, [lane[l] EXCEPT !.pc = "dispatch"])
        BY <1>0, <3>2, MovedGood DEF Pc, OnRun
      <3>3. CASE Goto(l, Resumed(lane[l]))
        BY <3>3, ResumedGood
      <3> QED
        BY <2>1, <3>1, <3>2, <3>3 DEF Deliver
    <2>2. CASE BudgetHolds(l) \/ DispatchWaits(l) \/ ListWaiting(l) \/ Announce(l)
      BY <2>2, ResumedGood DEF BudgetHolds, DispatchWaits, ListWaiting, Announce
    <2>3. CASE BudgetCrossed(l) \/ DispatchGoes(l) \/ NobodyOfThatName(l)
      BY <1>0, <2>3, MovedGood DEF BudgetCrossed, DispatchGoes, NobodyOfThatName, Pc, OnRun
    <2>4. CASE Fail(l)
      BY <1>0, <2>4, RecordingGood DEF Fail, TypeOK
    <2>5. CASE FailRefused(l) \/ Raise(l)
      BY <2>5, IdleGood DEF FailRefused, Raise
    <2>6. CASE AttachReads(l)
      <3> DEFINE ln == [lane[l] EXCEPT !.pc = "attaching", !.copy = row[lane[l].task]]
      <3>1. Goto(l, ln) /\ lane[l].proc # 0
        BY <1>0, <2>6 DEF AttachReads, At, Good, OnRun
      <3>2. ln.copy = row[lane[l].task] /\ ln.proc = lane[l].proc
        BY <1>0 DEF LaneType
      <3> HIDE DEF ln
      <3>3. Good(ln)
        BY <1>0, <3>1, <3>2 DEF Good
      <3> QED
        BY <3>1, <3>3
    <2>7. CASE ReadRun(l)
      BY <1>0, <2>7, TurnGood DEF ReadRun, At, Good, OnRun
    <2>8. CASE HandleNews(l)
      <3>1. ASSUME NEW e, NEW pc, pc \notin OnRun
            PROVE  Good(Heard(l, e, pc))
        BY <3>1 DEF Heard, Good, Idle, NoRow
      <3>2. /\ Good(Heard(l, Head(news), "dispatch"))
            /\ Good(Heard(l, Head(news), "delivering"))
            /\ Good(Heard(l, Head(news), "budget"))
        BY <3>1 DEF OnRun
      <3> QED
        BY <2>8, <3>2, ResumedGood DEF HandleNews
    <2>9. ASSUME NEW t \in Task, NEW author \in Role, NEW event \in Event,
                 Request(l, t, author, event)
          PROVE  \E ln : Goto(l, ln) /\ Good(ln)
      BY <2>9, IdleType, IdleGood, RecordingGood DEF Request, TypeOK, RunsExist
    <2> QED
      BY <2>1, <2>2, <2>3, <2>4, <2>5, <2>6, <2>7, <2>8, <2>9
  <1>2. PICK ln : Goto(l, ln) /\ Good(ln)
    BY <1>1
  <1>3. UNCHANGED <<row, run>>
    BY DEF Deliver, BudgetHolds, BudgetCrossed, Fail, FailRefused, ListWaiting, DispatchWaits,
           DispatchGoes, NobodyOfThatName, AttachReads, ReadRun, Announce, HandleNews, Request,
           Raise
  <1>4. Good(ln)'
    BY <1>2, <1>3 DEF Good
  <1>5. \A t \in Task : row'[t].process <= Len(run')
    BY <1>3 DEF RunsExist
  <1>6. Len(run') \in Nat /\ Len(run) <= Len(run')
    BY <1>3
  <1> QED
    BY <1>2, <1>4, <1>5, <1>6, LaneRunsExist

\* Steps that write a row.
LEMMA RowRunsExist ==
    ASSUME TypeOK, RunsExist, NEW l \in Lanes,
           (\E t \in Task : Create(l, t)) \/ SaveRecord(l) \/ AttachSaves(l)
    PROVE  RunsExist'
  <1> USE LengthOfRun
  <1>0. lane[l] \in LaneType /\ Good(lane[l])
    BY DEF TypeOK, RunsExist
  <1>1. PICK ln : Goto(l, ln) /\ Good(ln)
    <2>1. CASE \E t \in Task : Create(l, t)
      <3>1. PICK t \in Task : Create(l, t)
        BY <2>1
      <3>2. Good([Idle EXCEPT !.pc = "announcing", !.task = t])
        BY DEF Good, Idle, NoRow, OnRun
      <3> QED
        BY <3>1, <3>2 DEF Create
    <2>2. CASE SaveRecord(l)
      <3>1. Good([lane[l] EXCEPT !.pc = "announcing", !.copy = NoRow])
        BY <1>0 DEF Good, LaneType, NoRow, OnRun
      <3> QED
        BY <2>2, <3>1 DEF SaveRecord
    <2>3. CASE AttachSaves(l)
      BY <1>0, <2>3, TurnGood DEF AttachSaves, At, Good, OnRun
    <2> QED
      BY <2>1, <2>2, <2>3
  <1>2. run' = run
    BY DEF Create, SaveRecord, AttachSaves
  <1>3. \A t \in Task : row'[t].process <= Len(run')
    <2>1. \E r, t : row' = [row EXCEPT ![t] = r] /\ r.process <= Len(run)
      <3>1. CASE SaveRecord(l) \/ AttachSaves(l)
        <4>1. CASE SaveRecord(l)
          BY <1>0, <4>1, RecordedType DEF SaveRecord, SaveRow, Good
        <4>2. CASE AttachSaves(l)
          BY <1>0, <4>2, StampedType DEF AttachSaves, SaveRow, Good
        <4> QED
          BY <3>1, <4>1, <4>2
      <3>2. CASE \E t \in Task : Create(l, t)
        <4> DEFINE new == [status |-> "submitted", process |-> 0]
        <4>1. PICK t \in Task : row' = [row EXCEPT ![t] = new]
          BY <3>2 DEF Create
        <4>2. new.process <= Len(run)
          OBVIOUS
        <4> HIDE DEF new
        <4> QED
          BY <4>1, <4>2
      <3> QED
        BY <3>1, <3>2
    <2> QED
      BY <1>2, <2>1 DEF RunsExist, TypeOK
  <1>4. Good(ln)'
    BY <1>1, <1>2 DEF Good
  <1>5. Len(run') \in Nat /\ Len(run) <= Len(run')
    BY <1>2
  <1> QED
    BY <1>1, <1>3, <1>4, <1>5, LaneRunsExist

\* Steps that write the runs.
LEMMA RunRunsExist ==
    ASSUME TypeOK, RunsExist, NEW l \in Lanes, SpawnRun(l) \/ GiveTurn(l)
    PROVE  RunsExist'
  <1> USE LengthOfRun
  <1>0. lane[l] \in LaneType /\ Good(lane[l])
    BY DEF TypeOK, RunsExist
  <1>1. /\ Len(run') = Len(run) \/ Len(run') = Len(run) + 1
        /\ SpawnRun(l) => Len(run') = Len(run) + 1
    <2>1. CASE SpawnRun(l)
      BY <2>1 DEF SpawnRun, TypeOK
    <2>2. CASE GiveTurn(l)
      <3>1. PICK r : run' = [run EXCEPT ![lane[l].proc] = r]
        <4>1. run' = [run EXCEPT ![lane[l].proc] =
                  [run[lane[l].proc] EXCEPT !.turns = lane[l].turns, !.given = run[lane[l].proc].given + 1]]
          BY <2>2 DEF GiveTurn
        <4> QED
          BY <4>1
      <3>2. Len(run') = Len(run)
        BY <3>1 DEF TypeOK
      <3>3. ~SpawnRun(l)
        BY <2>2 DEF SpawnRun, GiveTurn, At
      <3> QED
        BY <3>2, <3>3
    <2> QED
      BY <2>1, <2>2
  <1>2. row' = row
    BY DEF SpawnRun, GiveTurn
  <1>3. PICK ln : Goto(l, ln) /\ Good(ln)'
    <2>1. CASE SpawnRun(l)
      <3> DEFINE ln == [lane[l] EXCEPT !.pc = "attach", !.proc = Len(run) + 1]
      <3>1. PICK moved : moved = ln
        OBVIOUS
      <3>2. Goto(l, moved)
        BY <2>1, <3>1 DEF SpawnRun
      <3>3. moved.proc = Len(run) + 1 /\ moved.copy.process <= Len(run)
        BY <1>0, <3>1 DEF LaneType, Good
      <3>4. lane[l].copy.process \in Nat /\ moved.copy = lane[l].copy
        BY <1>0, <3>1, TaskDispatchAssumption DEF LaneType, RowType
      <3>5. Good(moved)'
        BY <1>1, <2>1, <3>3, <3>4 DEF Good
      <3> QED
        BY <3>2, <3>5
    <2>2. CASE GiveTurn(l)
      <3>1. PICK moved : moved = Resumed(lane[l])
        OBVIOUS
      <3>2. moved.proc = 0 /\ moved.copy.process = 0 /\ moved.pc \notin OnRun
        BY <3>1 DEF Resumed, Turned, Idle, NoRow, OnRun
      <3>3. Good(moved)'
        BY <1>1, <3>2 DEF Good
      <3> QED
        BY <2>2, <3>1, <3>3 DEF GiveTurn
    <2> QED
      BY <2>1, <2>2
  <1>4. \A t \in Task : row'[t].process <= Len(run')
    <2>1. \A t \in Task : row[t].process \in Nat
      BY TaskDispatchAssumption DEF TypeOK, RowType
    <2> QED
      BY <1>1, <1>2, <2>1 DEF RunsExist
  <1> QED
    BY <1>1, <1>3, <1>4, LaneRunsExist

-----------------------------------------------------------------------------
(* Who writes a row.                                                       *)

\* What a coroutine is about to save has been checked against the row it read.
Checked(ln) ==
    /\ ln.pc = "saving" => Accepts(ln.copy.status, ln.event, ln.author)
    /\ ln.pc = "attaching" => ln.copy.status # "none"

WritesInv == \A l \in Lanes : Checked(lane[l])

Final ==
    \A t \in Task :
        row[t].status \in Terminal /\ row'[t].status # row[t].status
          => \E l \in Lanes : Writes(lane[l], t) /\ Overtaken(l)

LEMMA InitWritesInv == Init => WritesInv
  BY DEF Init, WritesInv, Checked, Idle

LEMMA MoveWritesInv ==
    ASSUME TypeOK, WritesInv, NEW l \in Lanes, NEW ln, Goto(l, ln), Checked(ln)
    PROVE  WritesInv'
  <1>1. lane'[l] = ln /\ \A k \in Lanes : k # l => lane'[k] = lane[k]
    BY DEF Goto, TypeOK
  <1> QED
    BY <1>1 DEF WritesInv, Checked

LEMMA StepWritesInv ==
    ASSUME TypeOK, WritesInv, NEW l \in Lanes,
           \/ \E t \in Task : Create(l, t)
           \/ \E t \in Task, author \in Role, event \in Event : Request(l, t, author, event)
           \/ HandleNews(l) \/ LaneStep(l) \/ Raise(l)
    PROVE  WritesInv'
  <1>0. lane[l] \in LaneType /\ lane[l].task \in Task
    BY DEF TypeOK, LaneType
  <1>1. ASSUME NEW ln, ln.pc \notin {"saving", "attaching"}
        PROVE  Checked(ln)
    BY <1>1 DEF Checked
  <1>2. ASSUME NEW ln
        PROVE  Resumed(ln).pc \notin {"saving", "attaching"}
    BY DEF Resumed, Turned, Idle
  <1>3. ASSUME NEW pc \in Pc \ {"saving", "attaching"}
        PROVE  [lane[l] EXCEPT !.pc = pc].pc \notin {"saving", "attaching"}
    BY <1>0, <1>3 DEF LaneType
  <1>4. ASSUME NEW turns
        PROVE  Turn(lane[l], turns).pc \notin {"saving", "attaching"}
    BY <1>0 DEF Turn, LaneType
  <1>5. ASSUME NEW ln \in LaneType, NEW t \in Task, NEW author, NEW event,
               Accepts(row[t].status, event, author)
        PROVE  Checked(Recording(ln, t, event, author))
    BY <1>5 DEF Recording, LaneType, Checked
  <1>6. \E ln : Goto(l, ln) /\ Checked(ln)
    <2>1. CASE Deliver(l)
      <3>1. [lane[l] EXCEPT !.pc = "reading", !.proc = row[lane[l].task].process].pc
                \notin {"saving", "attaching"}
        BY <1>0 DEF LaneType
      <3> QED
        BY <2>1, <3>1, <1>1, <1>2, <1>3 DEF Deliver, Pc
    <2>2. CASE BudgetHolds(l) \/ DispatchWaits(l) \/ ListWaiting(l) \/ Announce(l) \/ GiveTurn(l)
      BY <2>2, <1>1, <1>2 DEF BudgetHolds, DispatchWaits, ListWaiting, Announce, GiveTurn
    <2>3. CASE BudgetCrossed(l) \/ DispatchGoes(l) \/ NobodyOfThatName(l)
      BY <2>3, <1>1, <1>3 DEF BudgetCrossed, DispatchGoes, NobodyOfThatName, Pc
    <2>4. CASE Fail(l)
      BY <1>0, <2>4, <1>5 DEF Fail
    <2>5. CASE FailRefused(l) \/ Raise(l)
      BY <2>5, <1>1 DEF FailRefused, Raise, Idle
    <2>6. CASE AttachReads(l)
      <3> DEFINE ln == [lane[l] EXCEPT !.pc = "attaching", !.copy = row[lane[l].task]]
      <3>1. Goto(l, ln) /\ row[lane[l].task].status # "none"
        BY <2>6 DEF AttachReads
      <3>2. ln.pc = "attaching" /\ ln.copy = row[lane[l].task]
        BY <1>0 DEF LaneType
      <3> HIDE DEF ln
      <3> QED
        BY <3>1, <3>2 DEF Checked
    <2>7. CASE ReadRun(l) \/ AttachSaves(l)
      BY <2>7, <1>1, <1>4 DEF ReadRun, AttachSaves
    <2>8. CASE HandleNews(l)
      <3>1. ASSUME NEW e, NEW pc, pc \notin {"saving", "attaching"}
            PROVE  Checked(Heard(l, e, pc))
        BY <3>1, <1>1 DEF Heard, Idle
      <3>2. /\ Checked(Heard(l, Head(news), "dispatch"))
            /\ Checked(Heard(l, Head(news), "delivering"))
            /\ Checked(Heard(l, Head(news), "budget"))
            /\ Checked(Resumed(Heard(l, Head(news), "idle")))
        BY <3>1, <1>1, <1>2
      <3> QED
        BY <2>8, <3>2 DEF HandleNews
    <2>9. ASSUME NEW t \in Task, NEW author \in Role, NEW event \in Event,
                 Request(l, t, author, event)
          PROVE  \E ln : Goto(l, ln) /\ Checked(ln)
      BY <2>9, <1>5, IdleType DEF Request
    <2>10. CASE SpawnRun(l)
      <3>1. [lane[l] EXCEPT !.pc = "attach", !.proc = Len(run) + 1].pc \notin {"saving", "attaching"}
        BY <1>0 DEF LaneType
      <3> QED
        BY <2>10, <3>1, <1>1 DEF SpawnRun
    <2>11. ASSUME NEW t \in Task, Create(l, t)
           PROVE  \E ln : Goto(l, ln) /\ Checked(ln)
      <3>1. [Idle EXCEPT !.pc = "announcing", !.task = t].pc = "announcing"
        BY DEF Idle
      <3> QED
        BY <2>11, <3>1, <1>1 DEF Create
    <2>12. CASE SaveRecord(l)
      <3>1. [lane[l] EXCEPT !.pc = "announcing", !.copy = NoRow].pc = "announcing"
        BY <1>0 DEF LaneType
      <3> QED
        BY <2>12, <3>1, <1>1 DEF SaveRecord
    <2> QED
      BY <2>1, <2>2, <2>3, <2>4, <2>5, <2>6, <2>7, <2>8, <2>9, <2>10, <2>11, <2>12 DEF LaneStep
  <1> QED
    BY <1>6, MoveWritesInv

\* A save that is not overtaken changes no status that is terminal: an event was checked
\* against the row as it still is, and a stamp leaves the status.
LEMMA StepFinal ==
    ASSUME TypeOK, WritesInv, NEW l \in Lanes,
           (\E t \in Task : Create(l, t)) \/ SaveRecord(l) \/ AttachSaves(l)
    PROVE  Final
  <1>0. lane[l] \in LaneType /\ lane[l].task \in Task /\ Checked(lane[l])
    BY DEF TypeOK, LaneType, WritesInv
  <1>1. ASSUME NEW t \in Task, Create(l, t)
        PROVE  Final
    <2>1. row[t].status = "none" /\ \A u \in Task : u # t => row'[u] = row[u]
      BY <1>1 DEF Create, TypeOK
    <2> QED
      BY <2>1 DEF Final, Terminal
  <1>2. CASE SaveRecord(l)
    <2>1. \A u \in Task : u # lane[l].task => row'[u] = row[u]
      BY <1>0, <1>2, RecordedType, SaveRowType DEF SaveRecord
    <2>2. Writes(lane[l], lane[l].task)
      BY <1>2 DEF SaveRecord, At, Writes
    <2>3. row[lane[l].task].status \in Terminal => Overtaken(l)
      BY <1>0, <1>2 DEF SaveRecord, At, Checked, Accepts, Overtaken
    <2> QED
      BY <2>1, <2>2, <2>3 DEF Final
  <1>3. CASE AttachSaves(l)
    <2>1. /\ \A u \in Task : u # lane[l].task => row'[u] = row[u]
          /\ row'[lane[l].task].status = lane[l].copy.status
      BY <1>0, <1>3, StampedType, SaveRowType DEF AttachSaves
    <2>2. Writes(lane[l], lane[l].task)
      BY <1>3 DEF AttachSaves, At, Writes
    <2>3. row'[lane[l].task].status # row[lane[l].task].status => Overtaken(l)
      BY <2>1 DEF Overtaken
    <2> QED
      BY <2>1, <2>2, <2>3 DEF Final
  <1> QED
    BY <1>1, <1>2, <1>3

-----------------------------------------------------------------------------
(* Together.                                                               *)

Typed == TypeOK /\ RunsExist /\ WritesInv

LEMMA InitTyped == Init => Typed
  BY InitTypeOK, InitRunsExist, InitWritesInv DEF Typed

\* The order of the cases is that of Next; what writes no row leaves every status alone.
LEMMA NextTyped == Typed /\ [Next]_vars => Typed' /\ Final
  <1> SUFFICES ASSUME TypeOK, RunsExist, WritesInv, [Next]_vars
               PROVE  TypeOK' /\ RunsExist' /\ WritesInv' /\ Final
    BY DEF Typed
  <1>1. ASSUME row' = row
        PROVE  Final
    BY <1>1 DEF Final
  <1>2. ASSUME NEW l \in Lanes, \E t \in Task : Create(l, t)
        PROVE  TypeOK' /\ RunsExist' /\ WritesInv' /\ Final
    BY <1>2, LedgerTypeOK, RowRunsExist, StepWritesInv, StepFinal
  <1>3. ASSUME NEW l \in Lanes,
               \E t \in Task, author \in Role, event \in Event : Request(l, t, author, event)
        PROVE  TypeOK' /\ RunsExist' /\ WritesInv' /\ Final
    <2>1. row' = row
      BY <1>3 DEF Request
    <2> QED
      BY <1>1, <1>3, <2>1, LedgerTypeOK, QuietRunsExist, StepWritesInv
  <1>4. ASSUME NEW l \in Lanes, SaveRecord(l) \/ AttachSaves(l)
        PROVE  TypeOK' /\ RunsExist' /\ WritesInv' /\ Final
    BY <1>4, LedgerTypeOK, RunTypeOK, RowRunsExist, StepWritesInv, StepFinal DEF LaneStep
  <1>5. ASSUME NEW l \in Lanes, Announce(l) \/ HandleNews(l)
        PROVE  TypeOK' /\ RunsExist' /\ WritesInv' /\ Final
    <2>1. row' = row
      BY <1>5 DEF Announce, HandleNews
    <2> QED
      BY <1>1, <1>5, <2>1, LedgerTypeOK, NewsTypeOK, QuietRunsExist, StepWritesInv DEF LaneStep
  <1>6. ASSUME NEW l \in Lanes, SpawnRun(l) \/ GiveTurn(l)
        PROVE  TypeOK' /\ RunsExist' /\ WritesInv' /\ Final
    <2>1. row' = row
      BY <1>6 DEF SpawnRun, GiveTurn
    <2> QED
      BY <1>1, <1>6, <2>1, RunTypeOK, RunRunsExist, StepWritesInv DEF LaneStep
  <1>7. ASSUME NEW l \in Lanes,
               \/ Deliver(l) \/ BudgetHolds(l) \/ BudgetCrossed(l) \/ Fail(l) \/ FailRefused(l)
               \/ ListWaiting(l) \/ DispatchWaits(l) \/ DispatchGoes(l) \/ NobodyOfThatName(l)
               \/ AttachReads(l) \/ ReadRun(l) \/ Raise(l)
        PROVE  TypeOK' /\ RunsExist' /\ WritesInv' /\ Final
    <2>1. row' = row
      BY <1>7 DEF Deliver, BudgetHolds, BudgetCrossed, Fail, FailRefused, ListWaiting,
             DispatchWaits, DispatchGoes, NobodyOfThatName, AttachReads, ReadRun, Raise
    <2>2. WritesInv'
      BY <1>7, StepWritesInv DEF LaneStep
    <2> QED
      BY <1>1, <1>7, <2>1, <2>2, QuietTypeOK, QuietRunsExist
  <1>8. CASE UNCHANGED vars
    <2>1. UNCHANGED <<row, run, lane, news, asked, faults, raced, broken>>
      BY <1>8 DEF vars, history
    <2>2. TypeOK'
      BY <2>1 DEF TypeOK
    <2>3. RunsExist'
      BY <2>1 DEF RunsExist, Good
    <2>4. WritesInv'
      BY <2>1 DEF WritesInv, Checked
    <2> QED
      BY <1>1, <2>1, <2>2, <2>3, <2>4
  <1> QED
    BY <1>2, <1>3, <1>4, <1>5, <1>6, <1>7, <1>8 DEF Next, LaneStep, AtRest

LEMMA SpecTyped == Spec => []Typed
  BY InitTyped, NextTyped, PTL DEF Spec

\* The rows, the runs, the coroutines and the news keep their types.
THEOREM TypeCorrect == Spec => []TypeOK
  <1>1. Typed => TypeOK
    BY DEF Typed
  <1> QED
    BY <1>1, SpecTyped, PTL

\* A task that is done, failed or canceled stays so, however saves interleave, unless one
\* of them puts back a row it read before: record checks the event against the row whose
\* copy it saves, and attach_run stamps the row as it is by then and touches nothing else.
THEOREM TerminalStays == Spec => TerminalIsFinal
  <1>1. Typed /\ [Next]_vars
          => [\A t \in Task :
                row[t].status \in Terminal /\ row'[t].status # row[t].status
                  => \E l \in Lanes : Writes(lane[l], t) /\ Overtaken(l)]_vars
    BY NextTyped DEF Final
  <1> QED
    BY <1>1, SpecTyped, PTL DEF Spec, TerminalIsFinal

-----------------------------------------------------------------------------
(* No task is forgotten: who is still to come for it.                      *)

\* The tasks a coroutine is still to dispatch or to fail, and the rest of its list.
Tries(ln) ==
    \/ ln.pc \in {"dispatch", "spawning", "attach", "attaching", "failing"}
    \/ ln.pc = "saving" /\ ln.event \in Terminal
Ahead(ln) == ln.todo \cup {t \in {ln.task} : Tries(ln)}

\* None of them is over: no failure of the coroutine will be refused, which would cost it
\* the rest of its list.
Sound(ln) == \A t \in Ahead(ln) : Open(t)

\* A coroutine, or a piece of news, that ends in a new list of what waits: the end of a
\* task, as long as its row still says so.
WillFree(ln) ==
    \/ /\ ln.pc = "announcing" /\ ln.event \in Terminal
       /\ row[ln.task].status \in Terminal
    \/ ln.pc = "listing"
    \/ /\ ln.pc \in {"delivering", "reading", "turning"}
       /\ ln.event = "canceled" /\ ln.frees /\ ln.todo = {} /\ Budget[ln.task] = 0
TellsAnEnd(e) == e.event \in Terminal /\ row[e.task].status \in Terminal
WillList ==
    \/ \E l \in Lanes : WillFree(lane[l])
    \/ \E i \in DOMAIN news : TellsAnEnd(news[i])

\* Somebody is to come for t itself.
Introduces(ln, t) == ln.pc = "announcing" /\ ln.event = "created" /\ ln.task = t
Carried(t) ==
    \/ \E l \in Lanes : Introduces(lane[l], t)
    \/ \E i \in DOMAIN news : news[i].event = "created" /\ news[i].task = t
    \/ \E l \in Lanes : t \in Ahead(lane[l]) /\ Sound(lane[l])

Remembered ==
    broken \/ WillList \/ AtCapacity \/ \A t \in Task : Waiting(t) => Carried(t)

\* Only a task without a turn budget is canceled, and a coroutine that has yet to find out
\* what to do has no list.
Honest(ln) ==
    /\ ln.pc \in {"saving", "announcing"} /\ ln.event = "canceled" => Budget[ln.task] = 0
    /\ ln.pc \in {"idle", "delivering", "reading", "budget"} => ln.todo = {}

HonestNews == \A i \in DOMAIN news : news[i].event = "canceled" => Budget[news[i].task] = 0

AllHonest == HonestNews /\ \A l \in Lanes : Honest(lane[l])

\* No participant cancels a task with a turn budget.
CancelsAreFree ==
    \A t \in Task : Budget[t] # 0 => <<t, "creator", "canceled">> \notin Requests

LEMMA InitRemembered == Init => AllHonest /\ Remembered
  <1> SUFFICES ASSUME Init PROVE AllHonest /\ Remembered
    OBVIOUS
  <1>1. AllHonest
    BY DEF Init, AllHonest, HonestNews, Honest, Idle
  <1>2. \A t \in Task : ~Waiting(t)
    BY DEF Init, Waiting, IsWaiting, NoRow
  <1> QED
    BY <1>1, <1>2 DEF Remembered

LEMMA WaitingIsOpen ==
    ASSUME NEW t \in Task, Waiting(t)
    PROVE  Open(t)
  BY DEF Waiting, IsWaiting, Open, Terminal

\* Room is freed only by a task that holds a run and ends.
LEMMA MoreRunsLessRoom ==
    ASSUME LiveRuns \subseteq LiveRuns', AtCapacity
    PROVE  AtCapacity'
  <1>1. IsFiniteSet(Task)
    BY FS_Interval, TaskDispatchAssumption DEF Task
  <1>2. LiveRuns \subseteq Task /\ LiveRuns' \subseteq Task
    BY DEF LiveRuns
  <1>3. IsFiniteSet(LiveRuns) /\ IsFiniteSet(LiveRuns')
    BY <1>1, <1>2, FS_Subset
  <1>4. Cardinality(LiveRuns) \in Nat /\ Cardinality(LiveRuns') \in Nat
    BY <1>3, FS_CardinalityType
  <1>5. Cardinality(LiveRuns) <= Cardinality(LiveRuns')
    BY <1>3, FS_Subset
  <1> QED
    BY <1>4, <1>5, TaskDispatchAssumption DEF AtCapacity

\* Where a coroutine goes on with its list, all of the list is ahead of it.
LEMMA ResumedAhead ==
    ASSUME NEW ln \in LaneType
    PROVE  /\ Ahead(Resumed(ln)) = ln.todo
           /\ Resumed(ln).pc \in {"idle", "dispatch", "listing"}
           /\ Resumed(ln).pc = "idle" => Resumed(ln).todo = {}
           /\ ln.todo = {} /\ ln.frees => Resumed(ln).pc = "listing"
  <1>1. ln.todo \in SUBSET Task
    BY DEF LaneType
  <1>2. CASE ln.todo # {}
    <2>1. Oldest(ln.todo) \in ln.todo
      BY <1>1, <1>2, OldestOnList
    <2> DEFINE first == Oldest(ln.todo)
    <2>2. Resumed(ln) = [Idle EXCEPT !.pc = "dispatch", !.task = first, !.todo = ln.todo \ {first}]
      BY <1>2 DEF Resumed, Turned
    <2> HIDE DEF first
    <2>3. /\ Resumed(ln).pc = "dispatch" /\ Resumed(ln).task = first
          /\ Resumed(ln).todo = ln.todo \ {first}
      BY <2>2 DEF Idle
    <2>4. first \in ln.todo
      BY <2>1 DEF first
    <2> QED
      BY <1>2, <2>3, <2>4 DEF Ahead, Tries
  <1>3. CASE ln.todo = {}
    <2>1. Resumed(ln) = Idle \/ (Resumed(ln) = [Idle EXCEPT !.pc = "listing"])
      BY <1>3 DEF Resumed
    <2>2. Resumed(ln).todo = {} /\ Resumed(ln).pc \in {"idle", "listing"}
      BY <2>1 DEF Idle
    <2>3. ln.frees => Resumed(ln).pc = "listing"
      BY <1>3 DEF Resumed, Idle
    <2> QED
      BY <1>3, <2>2, <2>3 DEF Ahead, Tries
  <1> QED
    BY <1>2, <1>3

LEMMA ResumedHonest ==
    ASSUME NEW ln \in LaneType
    PROVE  Honest(Resumed(ln))
  BY ResumedAhead DEF Honest

\* The other coroutines stay honest.
LEMMA StepHonest ==
    ASSUME TypeOK, NEW l \in Lanes, NEW ln, Goto(l, ln), Honest(ln),
           \A k \in Lanes : Honest(lane[k])
    PROVE  \A k \in Lanes : Honest(lane[k])'
  <1>1. lane'[l] = ln /\ \A k \in Lanes : k # l => lane'[k] = lane[k]
    BY DEF Goto, TypeOK
  <1> QED
    BY <1>1 DEF Honest

\* No task leaves a terminal status.
EndsStay == \A t \in Task : row[t].status \in Terminal => row'[t].status \in Terminal

LEMMA TasksOfNews ==
    ASSUME TypeOK
    PROVE  \A i \in DOMAIN news : news[i] \in NewsType /\ news[i].task \in Task
  <1>1. \A i \in DOMAIN news : news[i] \in NewsType
    BY DEF TypeOK
  <1> QED
    BY <1>1 DEF NewsType

\* What a step of one coroutine has to keep so that no task is forgotten.
LEMMA StepRemembered ==
    ASSUME TypeOK, Remembered, ~broken, NEW l \in Lanes, NEW ln, Goto(l, ln), news' = news,
           lane[l].pc # "announcing", EndsStay,
           WillFree(lane[l]) => WillFree(ln)',
           AtCapacity => AtCapacity',
           \A t \in Task : Open(t) => Open(t)',
           \A t \in Task : Waiting(t)' => Waiting(t) \/ Introduces(ln, t),
           ~AtCapacity /\ Sound(lane[l])
             => \A t \in Ahead(lane[l]) : Waiting(t)' => t \in Ahead(ln) /\ Sound(ln)'
    PROVE  Remembered'
  <1>1. lane'[l] = ln /\ \A k \in Lanes : k # l => lane'[k] = lane[k]
    BY DEF Goto, TypeOK
  <1>2. CASE AtCapacity
    BY <1>2 DEF Remembered
  <1>3. CASE WillList
    <2>1. CASE \E i \in DOMAIN news : TellsAnEnd(news[i])
      <3>1. \E i \in DOMAIN news : TellsAnEnd(news[i])'
        BY <2>1, TasksOfNews DEF EndsStay, TellsAnEnd
      <3> QED
        BY <3>1 DEF Remembered, WillList
    <2>2. ASSUME NEW k \in Lanes, WillFree(lane[k])
          PROVE  Remembered'
      <3>1. CASE k # l
        <4>1. lane'[k] = lane[k] /\ lane[k].task \in Task
          BY <1>1, <3>1 DEF TypeOK, LaneType
        <4>2. WillFree(lane[k])'
          BY <2>2, <4>1 DEF WillFree, EndsStay
        <4> QED
          BY <4>2 DEF Remembered, WillList
      <3>2. CASE k = l
        <4>1. WillFree(lane[l])'
          BY <1>1, <2>2, <3>2 DEF WillFree
        <4> QED
          BY <4>1 DEF Remembered, WillList
      <3> QED
        BY <3>1, <3>2
    <2> QED
      BY <1>3, <2>1, <2>2 DEF WillList
  <1>4. ASSUME ~AtCapacity, NEW t \in Task, Waiting(t)', Carried(t)
        PROVE  Carried(t)'
    <2>1. ASSUME NEW k \in Lanes, Introduces(lane[k], t)
          PROVE  Carried(t)'
      <3>1. k # l /\ lane'[k] = lane[k]
        BY <1>1, <2>1 DEF Introduces
      <3> QED
        BY <2>1, <3>1 DEF Carried, Introduces
    <2>2. CASE \E i \in DOMAIN news : news[i].event = "created" /\ news[i].task = t
      BY <2>2 DEF Carried
    <2>3. ASSUME NEW k \in Lanes, t \in Ahead(lane[k]), Sound(lane[k])
          PROVE  Carried(t)'
      <3>1. CASE k = l
        <4>1. t \in Ahead(ln) /\ Sound(ln)'
          BY <1>4, <2>3, <3>1
        <4>2. t \in Ahead(lane[l])' /\ Sound(lane[l])'
          BY <1>1, <4>1 DEF Ahead, Tries, Sound
        <4> QED
          BY <4>2 DEF Carried
      <3>2. CASE k # l
        <4>1. lane'[k] = lane[k] /\ Ahead(lane[k]) \subseteq Task
          BY <1>1, <3>2 DEF TypeOK, LaneType, Ahead
        <4>2. t \in Ahead(lane[k])' /\ Sound(lane[k])'
          BY <2>3, <4>1 DEF Ahead, Tries, Sound
        <4> QED
          BY <4>2 DEF Carried
      <3> QED
        BY <3>1, <3>2
    <2> QED
      BY <1>4, <2>1, <2>2, <2>3 DEF Carried
  <1>5. ASSUME NEW t \in Task, Introduces(ln, t)
        PROVE  Carried(t)'
    BY <1>1, <1>5 DEF Carried, Introduces
  <1> QED
    BY <1>2, <1>3, <1>4, <1>5 DEF Remembered

\* A step that writes no row and tells no news: the coroutine stays honest, and keeps what
\* is ahead of it as long as there is room.
Passes(l, ln) ==
    /\ Goto(l, ln) /\ Honest(ln) /\ lane[l].pc # "announcing"
    /\ WillFree(lane[l]) => WillFree(ln)
    /\ ~AtCapacity /\ Sound(lane[l])
         => \A t \in Ahead(lane[l]) : t \in Ahead(ln) /\ Sound(ln)

LEMMA PassRemembered ==
    ASSUME TypeOK, AllHonest, Remembered, UNCHANGED <<row, news, broken>>,
           NEW l \in Lanes, NEW ln, Passes(l, ln)
    PROVE  AllHonest' /\ Remembered'
  <1>1. \A k \in Lanes : Honest(lane[k])'
    BY StepHonest DEF Passes, AllHonest
  <1>2. HonestNews'
    BY DEF AllHonest, HonestNews
  <1>3. /\ AtCapacity => AtCapacity'
        /\ \A t \in Task : Open(t) => Open(t)'
        /\ \A t \in Task : Waiting(t)' => Waiting(t)
    BY DEF AtCapacity, LiveRuns, Open, Waiting
  <1>4. Sound(ln) => Sound(ln)'
    BY DEF Sound, Open
  <1>5. EndsStay /\ (WillFree(lane[l]) => WillFree(ln)')
    BY DEF EndsStay, Passes, WillFree
  <1>6. ~broken => Remembered'
    BY <1>3, <1>4, <1>5, StepRemembered DEF Passes
  <1>7. broken => Remembered'
    BY DEF Remembered
  <1> QED
    BY <1>1, <1>2, <1>6, <1>7 DEF AllHonest

\* The delivery of news: the coroutine has no list yet.
LEMMA DeliverPasses ==
    ASSUME TypeOK, AllHonest, NEW l \in Lanes,
           Deliver(l) \/ BudgetHolds(l) \/ BudgetCrossed(l) \/ ReadRun(l)
    PROVE  \E ln : Passes(l, ln)
  <1>0. lane[l] \in LaneType
    BY DEF TypeOK
  <1>1. /\ lane[l].pc \in {"delivering", "budget", "reading"}
        /\ lane[l].todo = {}
    BY DEF Deliver, BudgetHolds, BudgetCrossed, ReadRun, At, AllHonest, Honest
  <1>2. Ahead(lane[l]) = {}
    BY <1>1 DEF Ahead, Tries
  <1>3. ASSUME NEW ln, Goto(l, ln), Honest(ln), WillFree(lane[l]) => WillFree(ln)
        PROVE  Passes(l, ln)
    BY <1>1, <1>2, <1>3 DEF Passes
  <1>4. CASE Deliver(l)
    <2>1. lane[l].pc = "delivering"
      BY <1>4 DEF Deliver, At
    <2>2. CASE row[lane[l].task].process # 0
      <3> DEFINE ln == [lane[l] EXCEPT !.pc = "reading", !.proc = row[lane[l].task].process]
      <3>1. /\ ln.pc = "reading" /\ ln.event = lane[l].event /\ ln.frees = lane[l].frees
            /\ ln.todo = lane[l].todo /\ ln.task = lane[l].task
        BY <1>0 DEF LaneType
      <3>2. Goto(l, ln)
        BY <1>4, <2>2 DEF Deliver
      <3> HIDE DEF ln
      <3>3. Honest(ln)
        BY <1>1, <3>1 DEF Honest
      <3>4. WillFree(lane[l]) => WillFree(ln)
        BY <2>1, <3>1 DEF WillFree
      <3> QED
        BY <1>3, <3>2, <3>3, <3>4
    <2>3. CASE row[lane[l].task].process = 0 /\ lane[l].event = "replied" /\ Waiting(lane[l].task)
      <3> DEFINE ln == [lane[l] EXCEPT !.pc = "dispatch"]
      <3>1. ln.pc = "dispatch"
        BY <1>0 DEF LaneType
      <3>2. Goto(l, ln)
        BY <1>4, <2>3 DEF Deliver
      <3> HIDE DEF ln
      <3>3. Honest(ln)
        BY <3>1 DEF Honest
      <3>4. ~WillFree(lane[l])
        BY <2>1, <2>3 DEF WillFree
      <3> QED
        BY <1>3, <3>2, <3>3, <3>4
    <2>4. CASE /\ row[lane[l].task].process = 0
               /\ ~(lane[l].event = "replied" /\ Waiting(lane[l].task))
      <3>1. Goto(l, Resumed(lane[l]))
        BY <1>4, <2>4 DEF Deliver
      <3>2. WillFree(lane[l]) => WillFree(Resumed(lane[l]))
        BY <1>0, <2>1, ResumedAhead DEF WillFree
      <3> QED
        BY <1>0, <1>3, <3>1, <3>2, ResumedHonest
    <2> QED
      BY <2>2, <2>3, <2>4
  <1>5. CASE BudgetHolds(l)
    <2>1. Goto(l, Resumed(lane[l])) /\ ~WillFree(lane[l])
      BY <1>5 DEF BudgetHolds, At, WillFree
    <2> QED
      BY <1>0, <1>3, <2>1, ResumedHonest
  <1>6. CASE BudgetCrossed(l)
    <2>1. [lane[l] EXCEPT !.pc = "failing"].pc = "failing"
      BY <1>0 DEF LaneType
    <2>2. Goto(l, [lane[l] EXCEPT !.pc = "failing"]) /\ ~WillFree(lane[l])
      BY <1>6 DEF BudgetCrossed, At, WillFree
    <2>3. Honest([lane[l] EXCEPT !.pc = "failing"])
      BY <2>1 DEF Honest
    <2> QED
      BY <1>3, <2>2, <2>3
  <1>7. CASE ReadRun(l)
    <2>1. PICK ln, turns : Goto(l, ln) /\ ln = Turn(lane[l], turns)
      BY <1>7 DEF ReadRun
    <2>2. /\ ln.pc \in {"failing", "turning"} /\ ln.event = lane[l].event
          /\ ln.frees = lane[l].frees /\ ln.todo = lane[l].todo /\ ln.task = lane[l].task
          /\ Budget[lane[l].task] = 0 => ln.pc = "turning"
      BY <1>0, <2>1 DEF Turn, LaneType
    <2>3. Honest(ln)
      BY <2>2 DEF Honest
    <2>4. WillFree(lane[l]) => WillFree(ln)
      BY <1>1, <2>2 DEF WillFree
    <2> QED
      BY <1>3, <2>1, <2>3, <2>4
  <1> QED
    BY <1>4, <1>5, <1>6, <1>7

\* Dispatch and failure: what is ahead of the coroutine stays ahead, and a failure that is
\* refused had nothing sound ahead.
LEMMA DispatchPasses ==
    ASSUME TypeOK, RunsExist, AllHonest, NEW l \in Lanes,
           \/ DispatchWaits(l) \/ DispatchGoes(l) \/ NobodyOfThatName(l) \/ SpawnRun(l)
           \/ AttachReads(l) \/ Fail(l) \/ FailRefused(l)
    PROVE  \E ln : Passes(l, ln)
  <1>0. lane[l] \in LaneType /\ lane[l].task \in Task
    BY DEF TypeOK, LaneType
  <1>1. /\ lane[l].pc \in {"dispatch", "spawning", "attach", "failing"}
        /\ ~WillFree(lane[l]) /\ lane[l].task \in Ahead(lane[l])
    BY DEF DispatchWaits, DispatchGoes, NobodyOfThatName, SpawnRun, AttachReads, Fail,
           FailRefused, At, WillFree, Ahead, Tries
  <1>2. ASSUME NEW ln, Goto(l, ln), Honest(ln), ln.task = lane[l].task, ln.todo = lane[l].todo,
               Tries(ln)
        PROVE  Passes(l, ln)
    <2>1. Ahead(ln) = Ahead(lane[l])
      BY <1>1, <1>2 DEF Ahead, Tries
    <2> QED
      BY <1>1, <1>2, <2>1 DEF Passes, Sound
  <1>3. CASE DispatchWaits(l)
    <2>1. AtCapacity /\ Goto(l, Resumed(lane[l]))
      BY <1>3 DEF DispatchWaits
    <2> QED
      BY <1>0, <1>1, <2>1, ResumedHonest DEF Passes
  <1>4. CASE DispatchGoes(l) \/ NobodyOfThatName(l) \/ SpawnRun(l) \/ AttachReads(l)
    <2>1. PICK ln : /\ Goto(l, ln) /\ ln.task = lane[l].task /\ ln.todo = lane[l].todo
                    /\ ln.pc \in {"spawning", "failing", "attach", "attaching"}
      <3>1. CASE DispatchGoes(l)
        <4> DEFINE ln == [lane[l] EXCEPT !.pc = "spawning"]
        <4>1. ln.pc = "spawning" /\ ln.task = lane[l].task /\ ln.todo = lane[l].todo
          BY <1>0 DEF LaneType
        <4> QED
          BY <3>1, <4>1 DEF DispatchGoes
      <3>2. CASE NobodyOfThatName(l)
        <4> DEFINE ln == [lane[l] EXCEPT !.pc = "failing"]
        <4>1. ln.pc = "failing" /\ ln.task = lane[l].task /\ ln.todo = lane[l].todo
          BY <1>0 DEF LaneType
        <4> QED
          BY <3>2, <4>1 DEF NobodyOfThatName
      <3>3. CASE SpawnRun(l)
        <4> DEFINE ln == [lane[l] EXCEPT !.pc = "attach", !.proc = Len(run) + 1]
        <4>1. ln.pc = "attach" /\ ln.task = lane[l].task /\ ln.todo = lane[l].todo
          BY <1>0 DEF LaneType
        <4> QED
          BY <3>3, <4>1 DEF SpawnRun
      <3>4. CASE AttachReads(l)
        <4> DEFINE ln == [lane[l] EXCEPT !.pc = "attaching", !.copy = row[lane[l].task]]
        <4>1. ln.pc = "attaching" /\ ln.task = lane[l].task /\ ln.todo = lane[l].todo
          BY <1>0 DEF LaneType
        <4> QED
          BY <3>4, <4>1 DEF AttachReads
      <3> QED
        BY <1>4, <3>1, <3>2, <3>3, <3>4
    <2>2. Honest(ln) /\ Tries(ln)
      BY <2>1 DEF Honest, Tries
    <2> QED
      BY <1>2, <2>1, <2>2
  <1>5. CASE Fail(l)
    <2> DEFINE ln == Recording(lane[l], lane[l].task, "failed", "system")
    <2>1. /\ ln.pc = "saving" /\ ln.task = lane[l].task /\ ln.todo = lane[l].todo
          /\ ln.event = "failed"
      BY <1>0 DEF Recording, LaneType
    <2>3. Goto(l, ln)
      BY <1>5 DEF Fail
    <2> HIDE DEF ln
    <2>4. Honest(ln) /\ Tries(ln)
      BY <2>1 DEF Honest, Tries, Terminal
    <2> QED
      BY <1>2, <2>1, <2>3, <2>4
  <1>6. CASE FailRefused(l)
    <2>1. ~Sound(lane[l])
      BY <1>1, <1>6 DEF FailRefused, Accepts, By, Sound, Open
    <2>2. Goto(l, Idle) /\ Honest(Idle)
      BY <1>6 DEF FailRefused, Honest, Idle
    <2> QED
      BY <1>1, <2>1, <2>2 DEF Passes
  <1> QED
    BY <1>3, <1>4, <1>5, <1>6

\* A turn that was given ends the coroutine's business with the task, not with its list.
LEMMA TurnPasses ==
    ASSUME TypeOK, NEW l \in Lanes, GiveTurn(l)
    PROVE  \E ln : Passes(l, ln)
  <1>0. lane[l] \in LaneType
    BY DEF TypeOK
  <1>1. Goto(l, Resumed(lane[l])) /\ lane[l].pc = "turning"
    BY DEF GiveTurn, At
  <1>2. Ahead(lane[l]) = lane[l].todo
    BY <1>1 DEF Ahead, Tries
  <1>3. Ahead(Resumed(lane[l])) = Ahead(lane[l])
    BY <1>0, <1>2, ResumedAhead
  <1>4. WillFree(lane[l]) => WillFree(Resumed(lane[l]))
    BY <1>0, <1>1, ResumedAhead DEF WillFree
  <1> QED
    BY <1>0, <1>1, <1>3, <1>4, ResumedHonest DEF Passes, Sound

\* A participant's request starts a coroutine that had nothing ahead.
LEMMA RequestPasses ==
    ASSUME TypeOK, AllHonest, CancelsAreFree, NEW l \in Lanes, NEW t \in Task,
           NEW author \in Role, NEW event \in Event, Request(l, t, author, event)
    PROVE  \E ln : Passes(l, ln)
  <1> DEFINE ln == Recording(Idle, t, event, author)
  <1>1. ln.pc = "saving" /\ ln.task = t /\ ln.event = event
    BY DEF Recording, Idle
  <1>2. Goto(l, ln) /\ lane[l].pc = "idle"
    BY DEF Request, At
  <1>3. event = "canceled" => Budget[t] = 0
    <2>1. <<t, author, event>> \in Requests /\ author \in By(event)
      BY DEF Request, Accepts
    <2>2. author \in {"creator", "owner"}
      BY <2>1, TaskDispatchAssumption
    <2>3. event = "canceled" => author = "creator"
      BY <2>1, <2>2 DEF By
    <2> QED
      BY <2>1, <2>3 DEF CancelsAreFree
  <1> HIDE DEF ln
  <1>4. Honest(ln)
    BY <1>1, <1>3 DEF Honest
  <1>5. Ahead(lane[l]) = {} /\ ~WillFree(lane[l])
    BY <1>2 DEF AllHonest, Honest, Ahead, Tries, WillFree
  <1> QED
    BY <1>2, <1>4, <1>5 DEF Passes

\* A new list holds all that waits, and nothing that is over.
LEMMA ListRemembered ==
    ASSUME TypeOK, AllHonest, NEW l \in Lanes, ListWaiting(l)
    PROVE  AllHonest' /\ Remembered'
  <1> DEFINE listed == [Idle EXCEPT !.todo = {t \in Task : Waiting(t)}]
  <1>1. listed \in LaneType /\ listed.todo = {t \in Task : Waiting(t)}
    BY IdleType DEF LaneType, Idle
  <1>2. PICK ln : ln = Resumed(listed) /\ Goto(l, ln) /\ UNCHANGED <<row, news>>
    BY DEF ListWaiting
  <1> HIDE DEF listed
  <1>3. Honest(ln) /\ Ahead(ln) = {t \in Task : Waiting(t)}
    BY <1>1, <1>2, ResumedHonest, ResumedAhead
  <1>4. lane'[l] = ln
    BY <1>2 DEF Goto, TypeOK
  <1>5. AllHonest'
    <2>1. HonestNews'
      BY <1>2 DEF AllHonest, HonestNews
    <2>2. \A k \in Lanes : Honest(lane[k])'
      BY <1>2, <1>3, StepHonest DEF AllHonest
    <2> QED
      BY <2>1, <2>2 DEF AllHonest
  <1>6. ASSUME NEW t \in Task, Waiting(t)'
        PROVE  Carried(t)'
    <2>1. t \in Ahead(ln)
      BY <1>2, <1>3, <1>6 DEF Waiting
    <2>2. Sound(ln)'
      BY <1>2, <1>3, WaitingIsOpen DEF Sound, Open
    <2>3. t \in Ahead(lane[l])' /\ Sound(lane[l])'
      BY <1>4, <2>1, <2>2 DEF Ahead, Tries, Sound
    <2> QED
      BY <2>3 DEF Carried
  <1> QED
    BY <1>5, <1>6 DEF Remembered

\* The news says what the coroutine that tells it knew.
LEMMA AnnounceRemembered ==
    ASSUME TypeOK, AllHonest, Remembered, NEW l \in Lanes, Announce(l)
    PROVE  AllHonest' /\ Remembered'
  <1> DEFINE e == [task |-> lane[l].task, event |-> lane[l].event, author |-> lane[l].author]
  <1>0. lane[l] \in LaneType
    BY DEF TypeOK
  <1>1. e.task = lane[l].task /\ e.event = lane[l].event
    OBVIOUS
  <1>2. PICK ln : /\ ln = Resumed(lane[l]) /\ Goto(l, ln)
                  /\ news' = Append(news, e) /\ row' = row /\ lane[l].pc = "announcing"
                  /\ broken' = broken
    BY DEF Announce, At, history
  <1> HIDE DEF e
  <1>3. Honest(ln) /\ Ahead(ln) = lane[l].todo /\ Ahead(lane[l]) = lane[l].todo
    BY <1>0, <1>2, ResumedHonest, ResumedAhead DEF Ahead, Tries
  <1>4. Honest(lane[l])
    BY DEF AllHonest
  <1>5. lane'[l] = ln /\ \A k \in Lanes : k # l => lane'[k] = lane[k]
    BY <1>2 DEF Goto, TypeOK
  <1>6. /\ \A i \in DOMAIN news : i \in DOMAIN news' /\ news'[i] = news[i]
        /\ Len(news) + 1 \in DOMAIN news' /\ news'[Len(news) + 1] = e
        /\ \A i \in DOMAIN news' : i \in DOMAIN news \/ i = Len(news) + 1
    <2>1. news \in Seq(NewsType)
      BY DEF TypeOK
    <2> QED
      BY <1>2, <2>1
  <1>7. AllHonest'
    <2>1. HonestNews'
      <3>1. ASSUME NEW i \in DOMAIN news', news'[i].event = "canceled"
            PROVE  Budget[news'[i].task] = 0
        <4>1. CASE i \in DOMAIN news
          BY <1>6, <3>1, <4>1 DEF AllHonest, HonestNews
        <4>2. CASE i = Len(news) + 1
          BY <1>1, <1>2, <1>4, <1>6, <3>1, <4>2 DEF Honest
        <4> QED
          BY <1>6, <4>1, <4>2
      <3> QED
        BY <1>2, <3>1 DEF HonestNews
    <2>2. \A k \in Lanes : Honest(lane[k])'
      BY <1>2, <1>3, StepHonest DEF AllHonest
    <2> QED
      BY <2>1, <2>2 DEF AllHonest
  <1>8. CASE AtCapacity
    <2>1. AtCapacity'
      BY <1>2, <1>8 DEF AtCapacity, LiveRuns, Open
    <2> QED
      BY <1>7, <2>1 DEF Remembered
  <1>9. CASE WillList
    <2>1. ASSUME NEW i \in DOMAIN news, TellsAnEnd(news[i])
          PROVE  WillList'
      BY <1>2, <1>6, <2>1 DEF WillList, TellsAnEnd
    <2>2. ASSUME NEW k \in Lanes, WillFree(lane[k])
          PROVE  WillList'
      <3>1. CASE k = l
        <4>1. e.event \in Terminal /\ row'[e.task].status \in Terminal
          BY <1>1, <1>2, <2>2, <3>1 DEF WillFree
        <4>2. PICK i \in DOMAIN news' : news'[i] = e
          BY <1>6
        <4> QED
          BY <4>1, <4>2 DEF WillList, TellsAnEnd
      <3>2. CASE k # l
        <4>1. WillFree(lane[k])'
          BY <1>2, <1>5, <2>2, <3>2 DEF WillFree
        <4> QED
          BY <4>1 DEF WillList
      <3> QED
        BY <3>1, <3>2
    <2>3. \/ \E k \in Lanes : WillFree(lane[k])
          \/ \E i \in DOMAIN news : TellsAnEnd(news[i])
      BY <1>9 DEF WillList
    <2>4. WillList'
      BY <2>1, <2>2, <2>3
    <2> QED
      BY <1>7, <2>4 DEF Remembered
  <1>10. ASSUME NEW t \in Task, Carried(t)
         PROVE  Carried(t)'
    <2>1. ASSUME NEW k \in Lanes, Introduces(lane[k], t)
          PROVE  Carried(t)'
      <3>1. CASE k = l
        BY <1>1, <1>6, <2>1, <3>1 DEF Carried, Introduces
      <3>2. CASE k # l
        BY <1>5, <2>1, <3>2 DEF Carried, Introduces
      <3> QED
        BY <3>1, <3>2
    <2>2. CASE \E i \in DOMAIN news : news[i].event = "created" /\ news[i].task = t
      BY <1>6, <2>2 DEF Carried
    <2>3. ASSUME NEW k \in Lanes, t \in Ahead(lane[k]), Sound(lane[k])
          PROVE  Carried(t)'
      <3>1. Ahead(lane[k])' = Ahead(lane[k])
        <4>1. CASE k = l
          BY <1>3, <1>5, <4>1 DEF Ahead, Tries
        <4>2. CASE k # l
          BY <1>5, <4>2 DEF Ahead, Tries
        <4> QED
          BY <4>1, <4>2
      <3>2. t \in Ahead(lane[k])' /\ Sound(lane[k])'
        BY <1>2, <2>3, <3>1 DEF Sound, Open
      <3> QED
        BY <3>2 DEF Carried
    <2> QED
      BY <1>10, <2>1, <2>2, <2>3 DEF Carried
  <1>11. \A t \in Task : Waiting(t)' => Waiting(t)
    BY <1>2 DEF Waiting
  <1>12. CASE broken
    BY <1>2, <1>7, <1>12 DEF Remembered
  <1> QED
    BY <1>7, <1>8, <1>9, <1>10, <1>11, <1>12 DEF Remembered

\* The handler of a piece of news: an end is followed by a new list, a creation by a
\* dispatch.
LEMMA HeardCarries ==
    ASSUME TypeOK, AllHonest, NEW l \in Lanes, HandleNews(l)
    PROVE  \E ln : /\ Goto(l, ln) /\ Honest(ln)
                   /\ TellsAnEnd(Head(news)) => WillFree(ln)
                   /\ Head(news).event = "created" /\ Waiting(Head(news).task)
                        => Head(news).task \in Ahead(ln) /\ Sound(ln)
  <1> DEFINE e == Head(news)
             frees == row[e.task].status \in Terminal
             Hears(pc) == Heard(l, e, pc)
  <1>0. news # <<>> /\ e \in NewsType
    BY DEF HandleNews, TypeOK
  <1>1. /\ TellsAnEnd(e) => frees /\ e.event \in Terminal
        /\ e.event = "canceled" => Budget[e.task] = 0
    <2>1. 1 \in DOMAIN news /\ news[1] = e
      BY <1>0 DEF TypeOK
    <2> QED
      BY <2>1 DEF AllHonest, HonestNews, TellsAnEnd
  <1>2. ASSUME NEW pc \in Pc
        PROVE  /\ Hears(pc) \in LaneType
               /\ Hears(pc).pc = pc /\ Hears(pc).task = e.task /\ Hears(pc).event = e.event
               /\ Hears(pc).todo = {} /\ (TellsAnEnd(e) => Hears(pc).frees)
    <2>1. Hears(pc) \in LaneType
      BY <1>0, HeardType DEF TypeOK
    <2>2. /\ Hears(pc).pc = pc /\ Hears(pc).task = e.task /\ Hears(pc).event = e.event
          /\ Hears(pc).todo = {} /\ Hears(pc).frees = frees
      BY DEF Heard, Idle
    <2> QED
      BY <1>1, <2>1, <2>2
  <1>3. {"idle", "dispatch", "delivering", "budget"} \subseteq Pc
    BY DEF Pc
  <1> HIDE DEF Hears
  <1>4. /\ Honest(Resumed(Hears("idle")))
        /\ TellsAnEnd(e) => WillFree(Resumed(Hears("idle")))
    BY <1>2, <1>3, ResumedHonest, ResumedAhead DEF WillFree
  <1>5. CASE e.event = "created"
    <2>1. CASE Waiting(e.task)
      <3>1. Goto(l, Hears("dispatch"))
        BY <1>5, <2>1 DEF HandleNews, Hears, ForTheRun
      <3>2. Honest(Hears("dispatch"))
        BY <1>2, <1>3 DEF Honest
      <3>3. Ahead(Hears("dispatch")) = {e.task}
        BY <1>2, <1>3 DEF Ahead, Tries
      <3>4. Sound(Hears("dispatch"))
        BY <1>0, <2>1, <3>3, WaitingIsOpen DEF Sound, NewsType
      <3> QED
        BY <1>1, <1>5, <3>1, <3>2, <3>3, <3>4 DEF Terminal
    <2>2. CASE ~Waiting(e.task)
      <3>1. Goto(l, Resumed(Hears("idle")))
        BY <1>5, <2>2 DEF HandleNews, Hears, ForTheRun
      <3> QED
        BY <1>4, <2>2, <3>1
    <2> QED
      BY <2>1, <2>2
  <1>6. CASE e.event \in ForTheRun /\ e.author # "owner"
    <2>1. Goto(l, Hears("delivering"))
      BY <1>6 DEF HandleNews, Hears, ForTheRun
    <2>2. Honest(Hears("delivering"))
      BY <1>2, <1>3 DEF Honest
    <2>3. TellsAnEnd(e) => WillFree(Hears("delivering"))
      BY <1>1, <1>2, <1>3, <1>6 DEF WillFree, ForTheRun, Terminal
    <2>4. e.event # "created"
      BY <1>6 DEF ForTheRun
    <2> QED
      BY <2>1, <2>2, <2>3, <2>4
  <1>7. CASE e.event # "created" /\ ~(e.event \in ForTheRun /\ e.author # "owner")
    <2>1. CASE e.author = "owner" /\ ~frees
      <3>1. Goto(l, Hears("budget"))
        BY <1>7, <2>1 DEF HandleNews, Hears
      <3>2. Honest(Hears("budget"))
        BY <1>2, <1>3 DEF Honest
      <3> QED
        BY <1>1, <1>7, <2>1, <3>1, <3>2
    <2>2. CASE ~(e.author = "owner" /\ ~frees)
      <3>1. Goto(l, Resumed(Hears("idle")))
        BY <1>7, <2>2 DEF HandleNews, Hears, ForTheRun
      <3> QED
        BY <1>4, <1>7, <3>1
    <2> QED
      BY <2>1, <2>2
  <1> QED
    BY <1>5, <1>6, <1>7

LEMMA NewsRemembered ==
    ASSUME TypeOK, AllHonest, Remembered, NEW l \in Lanes, HandleNews(l)
    PROVE  AllHonest' /\ Remembered'
  <1>1. PICK ln : /\ Goto(l, ln) /\ Honest(ln)
                  /\ TellsAnEnd(Head(news)) => WillFree(ln)
                  /\ Head(news).event = "created" /\ Waiting(Head(news).task)
                       => Head(news).task \in Ahead(ln) /\ Sound(ln)
    BY HeardCarries
  <1>2. lane'[l] = ln /\ \A k \in Lanes : k # l => lane'[k] = lane[k]
    BY <1>1 DEF Goto, TypeOK
  <1>3. row' = row /\ broken' = broken /\ lane[l].pc = "idle"
    BY DEF HandleNews, At, history
  <1>4. /\ \A i \in DOMAIN news : \/ news[i] = Head(news)
                                  \/ i - 1 \in DOMAIN news' /\ news'[i - 1] = news[i]
        /\ \A i \in DOMAIN news' : i + 1 \in DOMAIN news /\ news'[i] = news[i + 1]
    <2>1. news \in Seq(NewsType) /\ news # <<>> /\ news' = Tail(news)
      BY DEF HandleNews, TypeOK
    <2> QED
      BY <2>1
  <1>5. AllHonest'
    <2>1. HonestNews'
      BY <1>3, <1>4 DEF AllHonest, HonestNews
    <2>2. \A k \in Lanes : Honest(lane[k])'
      BY <1>1, StepHonest DEF AllHonest
    <2> QED
      BY <2>1, <2>2 DEF AllHonest
  <1>6. Ahead(lane[l]) = {} /\ ~WillFree(lane[l])
    BY <1>3 DEF AllHonest, Honest, Ahead, Tries, WillFree
  <1>7. CASE AtCapacity
    <2>1. AtCapacity'
      BY <1>3, <1>7 DEF AtCapacity, LiveRuns, Open
    <2> QED
      BY <1>5, <2>1 DEF Remembered
  <1>8. CASE WillList
    <2>1. ASSUME NEW i \in DOMAIN news, TellsAnEnd(news[i])
          PROVE  WillList'
      <3>1. CASE news[i] = Head(news)
        <4>1. WillFree(lane[l])'
          BY <1>1, <1>2, <1>3, <2>1, <3>1 DEF WillFree
        <4> QED
          BY <4>1 DEF WillList
      <3>2. CASE i - 1 \in DOMAIN news' /\ news'[i - 1] = news[i]
        BY <1>3, <2>1, <3>2 DEF WillList, TellsAnEnd
      <3> QED
        BY <1>4, <3>1, <3>2
    <2>2. ASSUME NEW k \in Lanes, WillFree(lane[k])
          PROVE  WillList'
      <3>1. WillFree(lane[k])'
        BY <1>2, <1>3, <1>6, <2>2 DEF WillFree
      <3> QED
        BY <3>1 DEF WillList
    <2>3. \/ \E k \in Lanes : WillFree(lane[k])
          \/ \E i \in DOMAIN news : TellsAnEnd(news[i])
      BY <1>8 DEF WillList
    <2>4. WillList'
      BY <2>1, <2>2, <2>3
    <2> QED
      BY <1>5, <2>4 DEF Remembered
  <1>9. ASSUME NEW t \in Task, Waiting(t), Carried(t)
        PROVE  Carried(t)'
    <2>1. ASSUME NEW k \in Lanes, Introduces(lane[k], t)
          PROVE  Carried(t)'
      BY <1>2, <1>3, <2>1 DEF Carried, Introduces
    <2>2. ASSUME NEW i \in DOMAIN news, news[i].event = "created", news[i].task = t
          PROVE  Carried(t)'
      <3>1. CASE news[i] = Head(news)
        <4>1. t \in Ahead(ln) /\ Sound(ln)
          BY <1>1, <1>9, <2>2, <3>1
        <4>2. t \in Ahead(lane[l])' /\ Sound(lane[l])'
          BY <1>2, <1>3, <4>1 DEF Ahead, Tries, Sound, Open
        <4> QED
          BY <4>2 DEF Carried
      <3>2. CASE i - 1 \in DOMAIN news' /\ news'[i - 1] = news[i]
        BY <2>2, <3>2 DEF Carried
      <3> QED
        BY <1>4, <3>1, <3>2
    <2>3. ASSUME NEW k \in Lanes, t \in Ahead(lane[k]), Sound(lane[k])
          PROVE  Carried(t)'
      <3>1. k # l /\ lane'[k] = lane[k]
        BY <1>2, <1>6, <2>3
      <3>2. t \in Ahead(lane[k])' /\ Sound(lane[k])'
        BY <1>3, <2>3, <3>1 DEF Ahead, Tries, Sound, Open
      <3> QED
        BY <3>2 DEF Carried
    <2> QED
      BY <1>9, <2>1, <2>2, <2>3 DEF Carried
  <1>10. \A t \in Task : Waiting(t)' => Waiting(t)
    BY <1>3 DEF Waiting
  <1>11. CASE broken
    BY <1>3, <1>5, <1>11 DEF Remembered
  <1> QED
    BY <1>5, <1>7, <1>8, <1>9, <1>10, <1>11 DEF Remembered

\* A new task waits, and its announcement is still to come.
LEMMA CreateRemembered ==
    ASSUME TypeOK, AllHonest, Remembered, NEW l \in Lanes, NEW t \in Task, Create(l, t)
    PROVE  AllHonest' /\ Remembered'
  <1>1. PICK ln : Goto(l, ln) /\ Introduces(ln, t)
    <2> DEFINE ln == [Idle EXCEPT !.pc = "announcing", !.task = t]
    <2>1. Introduces(ln, t)
      BY DEF Introduces, Idle
    <2>2. Goto(l, ln)
      BY DEF Create
    <2> QED
      BY <2>1, <2>2
  <1>2. /\ row[t].status = "none" /\ row'[t] = [status |-> "submitted", process |-> 0]
        /\ \A u \in Task : u # t => row'[u] = row[u]
        /\ news' = news /\ lane[l].pc = "idle" /\ broken' = broken
    BY DEF Create, At, TypeOK, history
  <1>3. EndsStay
    BY <1>2 DEF EndsStay, Terminal
  <1>4. Honest(ln)
    BY <1>1 DEF Honest, Introduces
  <1>5. AllHonest'
    BY <1>1, <1>2, <1>4, StepHonest DEF AllHonest, HonestNews
  <1>6. Ahead(lane[l]) = {} /\ ~WillFree(lane[l])
    BY <1>2 DEF AllHonest, Honest, Ahead, Tries, WillFree
  <1>7. \A u \in Task : Open(u) => Open(u)' /\ row'[u] = row[u]
    BY <1>2 DEF Open
  <1>8. LiveRuns \subseteq LiveRuns'
    BY <1>7 DEF LiveRuns
  <1>9. \A u \in Task : Waiting(u)' => Waiting(u) \/ Introduces(ln, u)
    BY <1>1, <1>2 DEF Waiting
  <1>10. ~broken => Remembered'
    BY <1>1, <1>2, <1>3, <1>6, <1>7, <1>8, <1>9, MoreRunsLessRoom, StepRemembered
  <1>11. broken => Remembered'
    BY <1>2 DEF Remembered
  <1> QED
    BY <1>5, <1>10, <1>11

\* The save of an event: an end brings a new list, anything else leaves who waits and who
\* holds a run as they were.
LEMMA SaveRemembered ==
    ASSUME TypeOK, WritesInv, AllHonest, Remembered, NEW l \in Lanes, SaveRecord(l)
    PROVE  AllHonest' /\ Remembered'
  <1> DEFINE t == lane[l].task
             old == row[lane[l].task]
  <1>0. lane[l] \in LaneType /\ t \in Task /\ old \in RowType /\ lane[l].pc = "saving"
    BY DEF SaveRecord, At, TypeOK, LaneType
  <1>1. PICK ln : /\ Goto(l, ln) /\ ln.pc = "announcing" /\ ln.event = lane[l].event
                  /\ ln.task = t /\ ln.todo = lane[l].todo
    <2> DEFINE ln == [lane[l] EXCEPT !.pc = "announcing", !.copy = NoRow]
    <2>1. /\ ln.pc = "announcing" /\ ln.event = lane[l].event
          /\ ln.task = t /\ ln.todo = lane[l].todo
      BY <1>0 DEF LaneType
    <2>2. Goto(l, ln)
      BY DEF SaveRecord
    <2> HIDE DEF ln
    <2> QED
      BY <2>1, <2>2
  <1>2. AllHonest'
    <2>1. Honest(lane[l]) /\ news' = news
      BY DEF AllHonest, SaveRecord
    <2>2. Honest(ln)
      BY <1>0, <1>1, <2>1 DEF Honest
    <2> QED
      BY <1>1, <2>1, <2>2, StepHonest DEF AllHonest, HonestNews
  <1>3. /\ row'[t].process = lane[l].copy.process
        /\ row'[t].status = StatusAfter(lane[l].copy.status, lane[l].event)
        /\ \A u \in Task : u # t => row'[u] = row[u]
        /\ news' = news
    BY <1>0, RecordedType, SaveRowType DEF SaveRecord
  <1>4. CASE lane[l].event \in Terminal
    <2>1. lane'[l] = ln
      BY <1>1 DEF Goto, TypeOK
    <2>2. row'[t].status \in Terminal
      BY <1>3, <1>4 DEF StatusAfter, Terminal
    <2>3. WillFree(lane[l])'
      BY <1>1, <1>4, <2>1, <2>2 DEF WillFree
    <2>4. WillList'
      BY <2>3 DEF WillList
    <2> QED
      BY <1>2, <2>4 DEF Remembered
  <1>5. CASE broken'
    BY <1>2, <1>5 DEF Remembered
  <1>6. CASE lane[l].event \notin Terminal /\ ~broken'
    <2>1. ~broken /\ lane[l].copy = old
      BY <1>6 DEF SaveRecord, SaveRow, Overtaken
    <2>2. old.status \notin Terminal \cup {"none"}
      BY <1>0, <2>1 DEF WritesInv, Checked, Accepts
    <2>3. row'[t].status \notin Terminal \cup {"none"}
      BY <1>3, <1>6, <2>1, <2>2 DEF StatusAfter, Terminal
    <2>4. row'[t].status = "submitted" => old.status = "submitted"
      BY <1>3, <1>6, <2>1 DEF StatusAfter, Terminal
    <2>5. row'[t].process = old.process
      BY <1>3, <2>1
    <2> HIDE DEF t, old
    <2>6. \A u \in Task : Open(u) => Open(u)'
      BY <1>3, <2>3 DEF Open
    <2>7. \A u \in Task : row'[u].process = row[u].process
      BY <1>3, <2>5 DEF old, t
    <2>8. LiveRuns \subseteq LiveRuns'
      BY <2>6, <2>7 DEF LiveRuns
    <2>9. \A u \in Task : Waiting(u)' => Waiting(u)
      BY <1>3, <2>4, <2>7 DEF Waiting, IsWaiting, old, t
    <2>10. ~WillFree(lane[l]) /\ Ahead(lane[l]) = lane[l].todo /\ Ahead(ln) = lane[l].todo
      BY <1>0, <1>1, <1>6 DEF WillFree, Ahead, Tries
    <2>11. Sound(lane[l]) => Sound(ln)'
      BY <1>0, <2>6, <2>10 DEF Sound, LaneType
    <2>12. EndsStay
      BY <1>3, <2>2 DEF EndsStay, old, t
    <2>13. Remembered'
      BY <1>0, <1>1, <1>3, <2>1, <2>6, <2>8, <2>9, <2>10, <2>11, <2>12,
         MoreRunsLessRoom, StepRemembered
    <2> QED
      BY <1>2, <2>13
  <1> QED
    BY <1>4, <1>5, <1>6

\* The stamping of a run: the task waits no more, and its first turn is within any budget.
LEMMA AttachRemembered ==
    ASSUME TypeOK, RunsExist, AllHonest, Remembered, NEW l \in Lanes, AttachSaves(l)
    PROVE  AllHonest' /\ Remembered'
  <1> DEFINE t == lane[l].task
  <1>0. /\ lane[l] \in LaneType /\ t \in Task /\ lane[l].pc = "attaching"
        /\ Budget[t] \in Nat /\ lane[l].proc # 0
    BY TaskDispatchAssumption DEF AttachSaves, At, TypeOK, LaneType, RunsExist, Good, OnRun
  <1>1. PICK ln : Goto(l, ln) /\ ln.pc = "turning" /\ ln.todo = lane[l].todo
    <2>1. ~(Budget[t] # 0 /\ 0 + 1 > Budget[t])
      BY <1>0
    <2>2. Goto(l, [lane[l] EXCEPT !.pc = "turning", !.copy = NoRow, !.turns = 0 + 1])
      BY <2>1 DEF AttachSaves, Turn
    <2> DEFINE one == 0 + 1
    <2> HIDE DEF one
    <2>3. /\ [lane[l] EXCEPT !.pc = "turning", !.copy = NoRow, !.turns = one].pc = "turning"
          /\ [lane[l] EXCEPT !.pc = "turning", !.copy = NoRow, !.turns = one].todo = lane[l].todo
      BY <1>0 DEF LaneType
    <2>4. Goto(l, [lane[l] EXCEPT !.pc = "turning", !.copy = NoRow, !.turns = one])
      BY <2>2 DEF one
    <2> QED
      BY <2>3, <2>4
  <1>2. /\ row'[t].status = lane[l].copy.status /\ row'[t].process # 0
        /\ \A u \in Task : u # t => row'[u] = row[u]
        /\ news' = news
    BY <1>0, StampedType, SaveRowType DEF AttachSaves
  <1>3. t \in Ahead(lane[l]) /\ Ahead(ln) = lane[l].todo /\ ~WillFree(lane[l])
    BY <1>0, <1>1 DEF WillFree, Ahead, Tries
  <1>4. Honest(ln)
    BY <1>1 DEF Honest
  <1>5. AllHonest'
    BY <1>1, <1>2, <1>4, StepHonest DEF AllHonest, HonestNews
  <1>6. CASE broken'
    BY <1>5, <1>6 DEF Remembered
  <1>7. CASE ~broken'
    <2>1. ~broken /\ row'[t].status = row[t].status
      BY <1>2, <1>7 DEF AttachSaves, SaveRow, Overtaken
    <2>2. Ahead(ln) \subseteq Ahead(lane[l]) /\ Ahead(lane[l]) \subseteq Ahead(ln) \cup {t}
      BY <1>3 DEF Ahead
    <2> HIDE DEF t
    <2>3. EndsStay /\ \A u \in Task : Open(u) => Open(u)'
      BY <1>2, <2>1 DEF Open, EndsStay
    <2>4. LiveRuns \subseteq LiveRuns'
      BY <1>2, <2>3 DEF LiveRuns
    <2>5. \A u \in Task : Waiting(u)' => u # t /\ Waiting(u)
      BY <1>2 DEF Waiting, IsWaiting
    <2>6. Sound(lane[l]) => Sound(ln)'
      <3>1. Ahead(ln) \subseteq Task
        BY <1>0, <1>3 DEF LaneType
      <3> QED
        BY <2>2, <2>3, <3>1 DEF Sound
    <2>7. Ahead(lane[l]) \subseteq Task
      BY <1>0 DEF Ahead, LaneType, t
    <2>8. \A u \in Ahead(lane[l]) : Waiting(u)' => u \in Ahead(ln)
      BY <2>2, <2>5, <2>7
    <2>9. Remembered'
      BY <1>0, <1>1, <1>2, <1>3, <2>1, <2>3, <2>4, <2>5, <2>6, <2>8,
         MoreRunsLessRoom, StepRemembered
    <2> QED
      BY <1>5, <2>9
  <1> QED
    BY <1>6, <1>7

\* An exception ends the coroutine, and is remembered.
LEMMA RaiseRemembered ==
    ASSUME TypeOK, AllHonest, NEW l \in Lanes, Raise(l)
    PROVE  AllHonest' /\ Remembered'
  <1>1. Goto(l, Idle) /\ news' = news /\ broken'
    BY DEF Raise
  <1>2. Honest(Idle)
    BY DEF Honest, Idle
  <1>3. AllHonest'
    BY <1>1, <1>2, StepHonest DEF AllHonest, HonestNews
  <1> QED
    BY <1>1, <1>3 DEF Remembered

RememberedInv == Typed /\ AllHonest /\ Remembered

LEMMA NextRemembered ==
    ASSUME CancelsAreFree, RememberedInv, [Next]_vars
    PROVE  RememberedInv'
  <1>0. /\ TypeOK /\ RunsExist /\ WritesInv /\ AllHonest /\ Remembered
        /\ Typed'
    BY NextTyped DEF RememberedInv, Typed
  <1>1. ASSUME NEW l \in Lanes, NEW ln, Passes(l, ln), UNCHANGED <<row, news, broken>>
        PROVE  AllHonest' /\ Remembered'
    BY <1>0, <1>1, PassRemembered
  <1>2. ASSUME NEW l \in Lanes, NEW t \in Task, Create(l, t)
        PROVE  AllHonest' /\ Remembered'
    BY <1>0, <1>2, CreateRemembered
  <1>3. ASSUME NEW l \in Lanes, NEW t \in Task, NEW author \in Role, NEW event \in Event,
               Request(l, t, author, event)
        PROVE  AllHonest' /\ Remembered'
    <2>1. UNCHANGED <<row, news, broken>>
      BY <1>3 DEF Request, history
    <2> QED
      BY <1>0, <1>1, <1>3, <2>1, RequestPasses
  <1>4. ASSUME NEW l \in Lanes, SaveRecord(l) \/ AttachSaves(l)
        PROVE  AllHonest' /\ Remembered'
    BY <1>0, <1>4, SaveRemembered, AttachRemembered
  <1>5. ASSUME NEW l \in Lanes, Announce(l) \/ HandleNews(l) \/ ListWaiting(l)
        PROVE  AllHonest' /\ Remembered'
    BY <1>0, <1>5, AnnounceRemembered, NewsRemembered, ListRemembered
  <1>6. ASSUME NEW l \in Lanes,
               Deliver(l) \/ BudgetHolds(l) \/ BudgetCrossed(l) \/ ReadRun(l)
        PROVE  AllHonest' /\ Remembered'
    <2>1. UNCHANGED <<row, news, broken>>
      BY <1>6 DEF Deliver, BudgetHolds, BudgetCrossed, ReadRun, history
    <2> QED
      BY <1>0, <1>1, <1>6, <2>1, DeliverPasses
  <1>7. ASSUME NEW l \in Lanes,
               \/ DispatchWaits(l) \/ DispatchGoes(l) \/ NobodyOfThatName(l) \/ SpawnRun(l)
               \/ AttachReads(l) \/ Fail(l) \/ FailRefused(l)
        PROVE  AllHonest' /\ Remembered'
    <2>1. UNCHANGED <<row, news, broken>>
      BY <1>7 DEF DispatchWaits, DispatchGoes, NobodyOfThatName, SpawnRun, AttachReads, Fail,
             FailRefused, history
    <2> QED
      BY <1>0, <1>1, <1>7, <2>1, DispatchPasses
  <1>8. ASSUME NEW l \in Lanes, GiveTurn(l)
        PROVE  AllHonest' /\ Remembered'
    <2>1. UNCHANGED <<row, news, broken>>
      BY <1>8 DEF GiveTurn, history
    <2> QED
      BY <1>0, <1>1, <1>8, <2>1, TurnPasses
  <1>9. ASSUME UNCHANGED vars
        PROVE  AllHonest' /\ Remembered'
    <2>1. row' = row /\ lane' = lane /\ news' = news /\ broken' = broken
      BY <1>9 DEF vars, history
    <2>2. AllHonest'
      BY <1>0, <2>1 DEF AllHonest, HonestNews, Honest
    <2>3. Remembered'
      BY <1>0, <2>1 DEF Remembered, WillList, WillFree, TellsAnEnd, AtCapacity, LiveRuns, Open, Waiting,
             Carried, Introduces, Ahead, Tries, Sound
    <2> QED
      BY <2>2, <2>3
  <1>10. AllHonest' /\ Remembered'
    <2>1. CASE \E l \in Lanes, t \in Task : Create(l, t)
      BY <1>2, <2>1
    <2>2. CASE \E l \in Lanes, t \in Task, author \in Role, event \in Event :
                 Request(l, t, author, event)
      BY <1>3, <2>2
    <2>3. ASSUME NEW l \in Lanes, HandleNews(l) \/ LaneStep(l) \/ Raise(l)
          PROVE  AllHonest' /\ Remembered'
      BY <1>0, <1>4, <1>5, <1>6, <1>7, <1>8, <2>3, RaiseRemembered DEF LaneStep
    <2> QED
      BY <1>9, <2>1, <2>2, <2>3 DEF Next, AtRest
  <1> QED
    BY <1>0, <1>10 DEF RememberedInv

\* Where everybody rests, nobody is still to come: what waits is kept out by capacity.
LEMMA RestRemembered ==
    ASSUME TypeOK, AllHonest, Remembered
    PROVE  NoForgottenTask
  <1> SUFFICES ASSUME Quiet, NEW t \in Task, Waiting(t) PROVE AtCapacity \/ broken
    BY DEF NoForgottenTask
  <1>1. DOMAIN news = {}
    BY DEF Quiet
  <1>2. ASSUME NEW l \in Lanes
        PROVE  /\ ~WillFree(lane[l]) /\ ~Introduces(lane[l], t) /\ Ahead(lane[l]) = {}
    <2>1. lane[l].pc = "idle"
      BY DEF Quiet, At
    <2> QED
      BY <2>1 DEF AllHonest, Honest, WillFree, Introduces, Ahead, Tries
  <1>3. ~WillList /\ ~Carried(t)
    BY <1>1, <1>2 DEF WillList, Carried
  <1> QED
    BY <1>3 DEF Remembered

\* Once the machinery has acted on all the news, a task waits only because its creator has
\* no room: whatever the order of requests, handlers, double dispatches and refused
\* failures, each end of a run is followed by a new list (on_task_event, dispatch_waiting),
\* and a coroutine loses its list only to a task that ended meanwhile.  The exceptions are
\* told by broken: what an exception or an overwritten row undoes is put right by the next
\* list, and by nothing before it.  The hypothesis is one the code needs: the turn that
\* tells a canceled run of its end is not refused by a turn budget.
THEOREM NobodyForgetsATask ==
    ASSUME CancelsAreFree
    PROVE  Spec => []NoForgottenTask
  <1>1. Init => RememberedInv
    BY InitTyped, InitRemembered DEF RememberedInv
  <1>2. RememberedInv /\ [Next]_vars => RememberedInv'
    BY NextRemembered
  <1>3. RememberedInv => NoForgottenTask
    BY RestRemembered DEF RememberedInv, Typed
  <1> QED
    BY <1>1, <1>2, <1>3, PTL DEF Spec

-----------------------------------------------------------------------------
(* The runs of a task.                                                     *)

\* What is stamped on a task is a run of its own; until its row is overwritten unread, a
\* task is at work, asks or is done only with one.
RowStaffed(t) ==
    /\ row[t].process # 0 => run[row[t].process].task = t
    /\ row[t].status = "none" => row[t].process = 0
    /\ t \notin raced /\ row[t].status \in {"working", "input_required", "done"}
         => row[t].process # 0

\* A run that was given a turn is, or was, the one of its task.
RunStaffed(p) ==
    run[p].given > 0 /\ run[p].task \notin raced => row[run[p].task].process # 0

\* The owner's side of a task.
OfTheRun == {"started", "asked", "done"}

\* A coroutine carries a run of the task it is about, and a row that names one or none; the
\* task has a run by the time a turn is given or the owner is recorded.
LaneStaffed(ln) ==
    /\ ln.pc \in OnRun => run[ln.proc].task = ln.task
    /\ ln.pc \in {"saving", "attaching"} =>
         /\ row[ln.task].status # "none"
         /\ ln.copy.process # 0 => run[ln.copy.process].task = ln.task
    /\ ln.task \notin raced =>
         /\ ln.pc \in {"reading", "turning"} => row[ln.task].process # 0
         /\ ln.pc = "saving" /\ ln.event \in OfTheRun => row[ln.task].process # 0

Staffed ==
    /\ \A t \in Task : RowStaffed(t)
    /\ \A p \in 1..Len(run) : RunStaffed(p)
    /\ \A l \in Lanes : LaneStaffed(lane[l])

LEMMA InitStaffed == Init => Staffed
  BY DEF Init, Staffed, RowStaffed, RunStaffed, LaneStaffed, NoRow, Idle, OnRun

\* A run stays where it is and keeps its task.
RunsStay ==
    \A p \in Nat : p # 0 /\ p <= Len(run) => p <= Len(run') /\ run'[p].task = run[p].task

\* A task that exists goes on to exist, and a stamped one stays stamped unless its row is
\* overwritten unread.
StampsStay ==
    /\ raced \subseteq raced'
    /\ \A t \in Task :
         /\ row[t].status # "none" => row'[t].status # "none"
         /\ t \notin raced' /\ row[t].process # 0 => row'[t].process # 0

LEMMA NumbersOfRuns ==
    ASSUME TypeOK
    PROVE  /\ Len(run) \in Nat
           /\ \A t \in Task : row[t].process \in Nat
           /\ \A l \in Lanes : /\ lane[l].proc \in Nat /\ lane[l].task \in Task
                               /\ lane[l].copy.process \in Nat
           /\ \A p \in 1..Len(run) : run[p].task \in Task /\ run[p].given \in Nat
  <1>1. \A t \in Task : row[t].process \in Nat
    BY TaskDispatchAssumption DEF TypeOK, RowType
  <1>2. \A l \in Lanes : /\ lane[l].proc \in Nat /\ lane[l].task \in Task
                         /\ lane[l].copy.process \in Nat
    BY TaskDispatchAssumption DEF TypeOK, LaneType, RowType
  <1>3. \A p \in 1..Len(run) : run[p] \in RunType
    BY DEF TypeOK
  <1> QED
    BY <1>1, <1>2, <1>3 DEF TypeOK, RunType

\* The coroutines that do not move know what they knew.
LEMMA OthersStaffed ==
    ASSUME TypeOK, RunsExist, Staffed, RunsStay, StampsStay,
           NEW l \in Lanes, NEW ln, Goto(l, ln), LaneStaffed(ln)'
    PROVE  \A k \in Lanes : LaneStaffed(lane[k])'
  <1>1. lane'[l] = ln /\ \A k \in Lanes : k # l => lane'[k] = lane[k]
    BY DEF Goto, TypeOK
  <1>2. ASSUME NEW k \in Lanes, k # l
        PROVE  LaneStaffed(lane[k])'
    <2>1. lane'[k] = lane[k] /\ LaneStaffed(lane[k]) /\ Good(lane[k])
      BY <1>1, <1>2 DEF Staffed, RunsExist
    <2>2. lane[k].proc \in Nat /\ lane[k].task \in Task /\ lane[k].copy.process \in Nat
      BY NumbersOfRuns
    <2> QED
      BY <2>1, <2>2 DEF LaneStaffed, Good, RunsStay, StampsStay
  <1>3. LaneStaffed(lane[l])'
    BY <1>1 DEF LaneStaffed
  <1> QED
    BY <1>2, <1>3

\* A coroutine that moves and writes nothing.
LEMMA MoveStaffed ==
    ASSUME TypeOK, RunsExist, Staffed, UNCHANGED <<row, run, raced>>,
           NEW l \in Lanes, NEW ln, Goto(l, ln), LaneStaffed(ln)
    PROVE  Staffed'
  <1>1. LaneStaffed(ln)' /\ RunsStay /\ StampsStay
    BY DEF LaneStaffed, RunsStay, StampsStay
  <1>2. \A k \in Lanes : LaneStaffed(lane[k])'
    BY <1>1, OthersStaffed
  <1> QED
    BY <1>2 DEF Staffed, RowStaffed, RunStaffed

LEMMA PlainStaffed ==
    ASSUME NEW ln, ln.pc \notin OnRun \cup {"saving"}
    PROVE  LaneStaffed(ln)
  BY DEF LaneStaffed, OnRun

LEMMA ResumedStaffed ==
    ASSUME TypeOK, NEW l \in Lanes
    PROVE  LaneStaffed(Resumed(lane[l]))
  <1>1. lane[l] \in LaneType
    BY DEF TypeOK
  <1>2. Resumed(lane[l]).pc \in {"idle", "dispatch", "listing"}
    BY <1>1, ResumedAhead
  <1> QED
    BY <1>2, PlainStaffed DEF OnRun

\* Whether it gives a turn or fails its task, a coroutine goes on with the same run.
LEMMA TurnStaffed ==
    ASSUME NEW ln \in LaneType, NEW turns \in Nat
    PROVE  /\ Turn(ln, turns).pc \in {"turning", "failing"}
           /\ Turn(ln, turns).task = ln.task /\ Turn(ln, turns).proc = ln.proc
  <1> DEFINE more == turns + 1
  <1>1. \/ Turn(ln, turns) = [ln EXCEPT !.pc = "failing", !.copy = NoRow]
        \/ Turn(ln, turns) = [ln EXCEPT !.pc = "turning", !.copy = NoRow, !.turns = more]
    BY DEF Turn
  <1> HIDE DEF more
  <1> QED
    BY <1>1 DEF LaneType

\* A participant: the owner speaks from a run that was given a turn.
LEMMA RequestStaffed ==
    ASSUME TypeOK, RunsExist, Staffed, NEW l \in Lanes, NEW t \in Task,
           NEW author \in Role, NEW event \in Event, Request(l, t, author, event)
    PROVE  Staffed'
  <1>1. PICK ln : /\ Goto(l, ln) /\ ln.pc = "saving" /\ ln.task = t /\ ln.event = event
                  /\ ln.copy = row[t]
    <2> DEFINE ln == Recording(Idle, t, event, author)
    <2>1. ln.pc = "saving" /\ ln.task = t /\ ln.event = event /\ ln.copy = row[t]
      BY DEF Recording, Idle
    <2> QED
      BY <2>1 DEF Request
  <1>2. event \in OfTheRun => author = "owner"
    <2>1. <<t, author, event>> \in Requests /\ author \in By(event)
      BY DEF Request, Accepts
    <2>2. author \in {"creator", "owner"}
      BY <2>1, TaskDispatchAssumption
    <2> QED
      BY <2>1, <2>2 DEF By, OfTheRun
  <1>3. event \in OfTheRun /\ t \notin raced => row[t].process # 0
    <2> SUFFICES ASSUME event \in OfTheRun, t \notin raced PROVE row[t].process # 0
      OBVIOUS
    <2>1. PICK p \in DOMAIN run : run[p].task = t /\ run[p].given > 0
      BY <1>2 DEF Request
    <2>2. p \in 1..Len(run)
      BY <2>1 DEF TypeOK
    <2> QED
      BY <2>1, <2>2 DEF Staffed, RunStaffed
  <1>4. row[t].status # "none" /\ UNCHANGED <<row, run, raced>>
    BY DEF Request, Accepts, history
  <1>5. row[t].process # 0 => run[row[t].process].task = t
    BY DEF Staffed, RowStaffed
  <1>6. LaneStaffed(ln)
    BY <1>1, <1>3, <1>4, <1>5 DEF LaneStaffed, OnRun
  <1> QED
    BY <1>1, <1>4, <1>6, MoveStaffed

\* The steps of a coroutine that write neither a row nor a run.
LEMMA QuietStaffed ==
    ASSUME TypeOK, RunsExist, Staffed, NEW l \in Lanes,
           \/ Announce(l) \/ HandleNews(l) \/ Deliver(l) \/ BudgetHolds(l) \/ BudgetCrossed(l)
           \/ Fail(l) \/ FailRefused(l) \/ ListWaiting(l) \/ DispatchWaits(l) \/ DispatchGoes(l)
           \/ NobodyOfThatName(l) \/ AttachReads(l) \/ ReadRun(l) \/ Raise(l)
    PROVE  Staffed'
  <1>0. /\ lane[l] \in LaneType /\ lane[l].task \in Task /\ LaneStaffed(lane[l])
        /\ Good(lane[l]) /\ lane[l].proc \in Nat
    BY NumbersOfRuns DEF TypeOK, Staffed, RunsExist
  <1>1. ASSUME NEW pc \in Pc \ (OnRun \cup {"saving"})
        PROVE  LaneStaffed([lane[l] EXCEPT !.pc = pc])
    <2>1. [lane[l] EXCEPT !.pc = pc].pc = pc
      BY <1>0 DEF LaneType
    <2> QED
      BY <2>1, PlainStaffed
  <1>2. \E ln : Goto(l, ln) /\ LaneStaffed(ln)
    <2>1. CASE Announce(l) \/ BudgetHolds(l) \/ DispatchWaits(l)
      BY <2>1, ResumedStaffed DEF Announce, BudgetHolds, DispatchWaits
    <2>2. CASE BudgetCrossed(l) \/ DispatchGoes(l) \/ NobodyOfThatName(l)
      BY <2>2, <1>1 DEF BudgetCrossed, DispatchGoes, NobodyOfThatName, Pc, OnRun
    <2>3. CASE FailRefused(l) \/ Raise(l)
      <3>1. LaneStaffed(Idle)
        BY PlainStaffed DEF Idle, OnRun
      <3> QED
        BY <2>3, <3>1 DEF FailRefused, Raise
    <2>4. CASE ListWaiting(l)
      <3>1. PICK todo \in SUBSET Task : Goto(l, Resumed([Idle EXCEPT !.todo = todo]))
        BY <2>4 DEF ListWaiting
      <3>2. [Idle EXCEPT !.todo = todo] \in LaneType
        BY IdleType DEF LaneType
      <3>3. Resumed([Idle EXCEPT !.todo = todo]).pc \in {"idle", "dispatch", "listing"}
        BY <3>2, ResumedAhead
      <3> QED
        BY <3>1, <3>3, PlainStaffed DEF OnRun
    <2>5. CASE HandleNews(l)
      <3> DEFINE e == Head(news)
                 Hears(pc) == Heard(l, e, pc)
      <3>1. e \in NewsType
        BY <2>5 DEF HandleNews, TypeOK
      <3>2. ASSUME NEW pc \in Pc
            PROVE  Hears(pc) \in LaneType /\ Hears(pc).pc = pc
        <4>1. Hears(pc) \in LaneType
          BY <3>1, HeardType DEF TypeOK
        <4>2. Hears(pc).pc = pc
          BY DEF Heard, Idle
        <4> QED
          BY <4>1, <4>2
      <3> HIDE DEF Hears
      <3>3. {"idle", "dispatch", "delivering", "budget"} \subseteq Pc
        BY DEF Pc
      <3>4. /\ LaneStaffed(Hears("dispatch")) /\ LaneStaffed(Hears("delivering"))
            /\ LaneStaffed(Hears("budget")) /\ LaneStaffed(Resumed(Hears("idle")))
        BY <3>2, <3>3, PlainStaffed, ResumedAhead DEF OnRun
      <3>5. \/ Goto(l, Hears("dispatch")) \/ Goto(l, Hears("delivering"))
            \/ Goto(l, Hears("budget")) \/ Goto(l, Resumed(Hears("idle")))
        BY <2>5 DEF HandleNews, Hears
      <3> QED
        BY <3>4, <3>5
    <2>6. CASE Deliver(l)
      <3>1. CASE row[lane[l].task].process # 0
        <4>1. PICK ln : /\ ln = [lane[l] EXCEPT !.pc = "reading", !.proc = row[lane[l].task].process]
                        /\ Goto(l, ln)
          BY <2>6, <3>1 DEF Deliver
        <4>2. ln.pc = "reading" /\ ln.proc = row[lane[l].task].process /\ ln.task = lane[l].task
          BY <1>0, <4>1 DEF LaneType
        <4>3. LaneStaffed(ln)
          BY <1>0, <3>1, <4>2 DEF LaneStaffed, Staffed, RowStaffed
        <4> QED
          BY <4>1, <4>3
      <3>2. CASE row[lane[l].task].process = 0
        <4>1. LaneStaffed([lane[l] EXCEPT !.pc = "dispatch"])
          BY <1>1 DEF Pc, OnRun
        <4> QED
          BY <2>6, <3>2, <4>1, ResumedStaffed DEF Deliver
      <3> QED
        BY <3>1, <3>2
    <2>7. CASE Fail(l)
      <3>1. PICK ln : /\ ln = Recording(lane[l], lane[l].task, "failed", "system")
                      /\ Goto(l, ln)
        BY <2>7 DEF Fail
      <3>2. /\ ln.pc = "saving" /\ ln.event = "failed" /\ ln.task = lane[l].task
            /\ ln.copy = row[lane[l].task]
        BY <1>0, <3>1 DEF Recording, LaneType
      <3>3. row[lane[l].task].status # "none" /\ RowStaffed(lane[l].task)
        BY <1>0, <2>7 DEF Fail, Accepts, Staffed
      <3>4. LaneStaffed(ln)
        BY <3>2, <3>3 DEF LaneStaffed, RowStaffed, OnRun, OfTheRun
      <3> QED
        BY <3>1, <3>4
    <2>8. CASE AttachReads(l)
      <3>1. PICK ln : /\ ln = [lane[l] EXCEPT !.pc = "attaching", !.copy = row[lane[l].task]]
                      /\ Goto(l, ln) /\ lane[l].pc = "attach"
                      /\ row[lane[l].task].status # "none"
        BY <2>8 DEF AttachReads, At
      <3>2. /\ ln.pc = "attaching" /\ ln.proc = lane[l].proc /\ ln.task = lane[l].task
            /\ ln.copy = row[lane[l].task] /\ RowStaffed(lane[l].task)
        BY <1>0, <3>1 DEF LaneType, Staffed
      <3>3. LaneStaffed(ln)
        BY <1>0, <3>1, <3>2 DEF LaneStaffed, RowStaffed, OnRun
      <3> QED
        BY <3>1, <3>3
    <2>9. CASE ReadRun(l)
      <3>1. lane[l].pc = "reading" /\ run[lane[l].proc].turns \in Nat
        <4>1. lane[l].proc \in 1..Len(run)
          BY <1>0, <2>9, NumbersOfRuns DEF ReadRun, At, Good, OnRun
        <4>2. run[lane[l].proc] \in RunType
          BY <4>1 DEF TypeOK
        <4> QED
          BY <2>9, <4>2 DEF ReadRun, At, RunType
      <3>2. PICK ln : /\ ln = Turn(lane[l], run[lane[l].proc].turns) /\ Goto(l, ln)
        BY <2>9 DEF ReadRun
      <3>3. ln.pc \in {"turning", "failing"} /\ ln.task = lane[l].task /\ ln.proc = lane[l].proc
        BY <1>0, <3>1, <3>2, TurnStaffed
      <3>4. LaneStaffed(ln)
        BY <1>0, <3>1, <3>3 DEF LaneStaffed, OnRun
      <3> QED
        BY <3>2, <3>4
    <2> QED
      BY <2>1, <2>2, <2>3, <2>4, <2>5, <2>6, <2>7, <2>8, <2>9
  <1>3. UNCHANGED <<row, run, raced>>
    BY DEF Announce, HandleNews, Deliver, BudgetHolds, BudgetCrossed, Fail, FailRefused,
           ListWaiting, DispatchWaits, DispatchGoes, NobodyOfThatName, AttachReads, ReadRun,
           Raise, history
  <1> QED
    BY <1>2, <1>3, MoveStaffed

\* A new run has had no turn; a turn is given to a run whose task has one.
LEMMA RunStepStaffed ==
    ASSUME TypeOK, RunsExist, Staffed, NEW l \in Lanes, SpawnRun(l) \/ GiveTurn(l)
    PROVE  Staffed'
  <1>0. /\ lane[l] \in LaneType /\ lane[l].task \in Task /\ LaneStaffed(lane[l])
        /\ Good(lane[l]) /\ lane[l].proc \in Nat /\ Len(run) \in Nat
        /\ \A t \in Task : row[t].process \in Nat /\ row[t].process <= Len(run)
        /\ lane[l].copy.process \in Nat
    BY NumbersOfRuns DEF TypeOK, Staffed, RunsExist
  <1>1. row' = row /\ raced' = raced
    BY DEF SpawnRun, GiveTurn, history
  <1>2. PICK ln : Goto(l, ln) /\ LaneStaffed(ln)' /\ RunsStay
                  /\ \A p \in 1..Len(run') : RunStaffed(p)'
    <2>1. CASE SpawnRun(l)
      <3> DEFINE new == [task |-> lane[l].task, turns |-> 0, given |-> 0]
      <3>1. run' = Append(run, new)
        BY <2>1 DEF SpawnRun
      <3>2. new.task = lane[l].task /\ new.given = 0
        OBVIOUS
      <3> HIDE DEF new
      <3>3. /\ Len(run') = Len(run) + 1 /\ run'[Len(run) + 1] = new
            /\ \A p \in 1..Len(run) : run'[p] = run[p]
        BY <3>1 DEF TypeOK
      <3>4. PICK ln : /\ ln = [lane[l] EXCEPT !.pc = "attach", !.proc = Len(run) + 1]
                      /\ Goto(l, ln)
        BY <2>1 DEF SpawnRun
      <3>5. ln.pc = "attach" /\ ln.proc = Len(run) + 1 /\ ln.task = lane[l].task
        <4> DEFINE next == Len(run) + 1
        <4> HIDE DEF next
        <4>1. ln = [lane[l] EXCEPT !.pc = "attach", !.proc = next]
          BY <3>4 DEF next
        <4>2. ln.pc = "attach" /\ ln.proc = next /\ ln.task = lane[l].task
          BY <1>0, <4>1 DEF LaneType
        <4> QED
          BY <4>2 DEF next
      <3>6. LaneStaffed(ln)'
        BY <3>2, <3>3, <3>5 DEF LaneStaffed
      <3>7. RunsStay
        BY <1>0, <3>3 DEF RunsStay
      <3>8. ASSUME NEW p \in 1..Len(run') PROVE RunStaffed(p)'
        <4>1. p = Len(run) + 1 \/ p \in 1..Len(run)
          BY <1>0, <3>3
        <4> QED
          BY <1>1, <3>2, <3>3, <4>1 DEF RunStaffed, Staffed
      <3> QED
        BY <3>4, <3>6, <3>7, <3>8
    <2>2. CASE GiveTurn(l)
      <3>1. PICK p : p = lane[l].proc
        OBVIOUS
      <3>2. p \in 1..Len(run) /\ lane[l].pc = "turning"
        BY <1>0, <2>2, <3>1 DEF GiveTurn, At, Good, OnRun
      <3>3. /\ Len(run') = Len(run) /\ run'[p].task = run[p].task
            /\ \A q \in 1..Len(run) : q # p => run'[q] = run[q]
        <4> DEFINE given == [run[p] EXCEPT !.turns = lane[l].turns, !.given = run[p].given + 1]
        <4>1. run' = [run EXCEPT ![p] = given]
          BY <2>2, <3>1 DEF GiveTurn
        <4>2. given.task = run[p].task
          <5>1. run[p] \in RunType
            BY <3>2 DEF TypeOK
          <5> QED
            BY <5>1 DEF RunType
        <4> HIDE DEF given
        <4> QED
          BY <3>2, <4>1, <4>2 DEF TypeOK
      <3>4. RunsStay
        BY <1>0, <3>2, <3>3 DEF RunsStay
      <3>5. PICK ln : ln = Resumed(lane[l]) /\ Goto(l, ln)
        BY <2>2 DEF GiveTurn
      <3>6. LaneStaffed(ln)'
        <4>1. ln.pc \in {"idle", "dispatch", "listing"}
          BY <1>0, <3>5, ResumedAhead
        <4> QED
          BY <4>1 DEF LaneStaffed, OnRun
      <3>7. RunStaffed(p)'
        <4>1. run[p].task = lane[l].task
          BY <1>0, <3>1, <3>2 DEF LaneStaffed, OnRun
        <4>2. run[p].task \notin raced => row[run[p].task].process # 0
          BY <1>0, <3>2, <4>1 DEF LaneStaffed
        <4> QED
          BY <1>1, <3>3, <4>2 DEF RunStaffed
      <3>8. \A q \in 1..Len(run') : RunStaffed(q)'
        BY <1>1, <3>3, <3>7 DEF RunStaffed, Staffed
      <3> QED
        BY <3>4, <3>5, <3>6, <3>8
    <2> QED
      BY <2>1, <2>2
  <1>3. StampsStay
    BY <1>1 DEF StampsStay
  <1>4. \A k \in Lanes : LaneStaffed(lane[k])'
    BY <1>2, <1>3, OthersStaffed
  <1>5. \A t \in Task : RowStaffed(t)'
    BY <1>0, <1>1, <1>2 DEF Staffed, RowStaffed, RunsStay
  <1> QED
    BY <1>2, <1>4, <1>5 DEF Staffed

-----------------------------------------------------------------------------
(* The steps of TaskLedger.                                                *)

\* What the ledger sees of a task.
Seen(t) == IF t \in raced THEN "overwritten" ELSE row[t].status
Manned(t) == t \notin raced /\ row[t].process # 0

\* A step that changes what the ledger sees of one task at most.
LEMMA LedgerSees ==
    ASSUME NEW t \in Task, \A u \in Task : u # t => Seen(u)' = Seen(u) /\ Manned(u)' = Manned(u)
    PROVE  /\ [u \in Task |-> Seen(u)]' = [[u \in Task |-> Seen(u)] EXCEPT ![t] = Seen(t)']
           /\ [u \in Task |-> Manned(u)]' = [[u \in Task |-> Manned(u)] EXCEPT ![t] = Manned(t)']
  OBVIOUS

\* What the ledger sees of a write that keeps the stamp.
LEMMA LedgerBecomes ==
    ASSUME NEW t \in Task, NEW s, Seen(t)' = s, Manned(t)' = Manned(t),
           \A u \in Task : u # t => Seen(u)' = Seen(u) /\ Manned(u)' = Manned(u)
    PROVE  Ledger!Becomes(t, s)
  <1>1. [u \in Task |-> Seen(u)]' = [[u \in Task |-> Seen(u)] EXCEPT ![t] = s]
    BY LedgerSees
  <1>2. [u \in Task |-> Manned(u)]' = [u \in Task |-> Manned(u)]
    <2>1. \A u \in Task : Manned(u)' = Manned(u)
      OBVIOUS
    <2> HIDE DEF Manned
    <2> QED
      BY <2>1
  <1> QED
    BY <1>1, <1>2 DEF Ledger!Becomes, Seen, Manned

\* A step that changes nothing the ledger sees.
LEMMA LedgerKeeps ==
    ASSUME NEW t \in Task, Seen(t)' = Seen(t), Manned(t)' = Manned(t),
           \A u \in Task : u # t => Seen(u)' = Seen(u) /\ Manned(u)' = Manned(u)
    PROVE  UNCHANGED Ledger!vars
  <1>1. \A u \in Task : Seen(u)' = Seen(u) /\ Manned(u)' = Manned(u)
    OBVIOUS
  <1>2. [u \in Task |-> Seen(u)]' = [u \in Task |-> Seen(u)]
    <2> HIDE DEF Seen
    <2> QED
      BY <1>1
  <1>3. [u \in Task |-> Manned(u)]' = [u \in Task |-> Manned(u)]
    <2> HIDE DEF Manned
    <2> QED
      BY <1>1
  <1> QED
    BY <1>2, <1>3 DEF Ledger!vars, Seen, Manned

\* What the ledger sees is a function of the rows and of which were overwritten.
LEMMA LedgerStays == row' = row /\ raced' = raced => UNCHANGED Ledger!vars
  BY DEF Ledger!vars

LEMMA CreateKeepsLedger ==
    ASSUME TypeOK, RunsExist, Staffed, NEW l \in Lanes, NEW t \in Task, Create(l, t)
    PROVE  Staffed' /\ (Ledger!Next \/ UNCHANGED Ledger!vars)
  <1>1. PICK ln : Goto(l, ln) /\ ln.pc = "announcing"
    <2>1. [Idle EXCEPT !.pc = "announcing", !.task = t].pc = "announcing"
      BY DEF Idle
    <2> QED
      BY <2>1 DEF Create
  <1>2. /\ row[t].status = "none" /\ row'[t] = [status |-> "submitted", process |-> 0]
        /\ \A u \in Task : u # t => row'[u] = row[u]
        /\ run' = run /\ raced' = raced
    BY DEF Create, TypeOK, history
  <1>3. row[t].process = 0
    BY <1>2 DEF Staffed, RowStaffed
  <1>4. \A u \in Task : row'[u].process = row[u].process
    BY <1>2, <1>3
  <1>5. RunsStay /\ StampsStay /\ LaneStaffed(ln)'
    BY <1>1, <1>2, <1>4 DEF RunsStay, StampsStay, LaneStaffed, OnRun
  <1>6. \A k \in Lanes : LaneStaffed(lane[k])'
    BY <1>1, <1>5, OthersStaffed
  <1>7. \A u \in Task : RowStaffed(u)'
    BY <1>2, <1>4 DEF Staffed, RowStaffed
  <1>8. \A p \in 1..Len(run') : RunStaffed(p)'
    BY <1>2, <1>4, NumbersOfRuns DEF Staffed, RunStaffed
  <1>9. \A u \in Task : u # t => Seen(u)' = Seen(u) /\ Manned(u)' = Manned(u)
    BY <1>2 DEF Seen, Manned
  <1>10. CASE t \notin raced
    <2>1. Seen(t)' = "submitted" /\ Manned(t)' = Manned(t)
      BY <1>2, <1>3, <1>10 DEF Seen, Manned
    <2>2. Ledger!Becomes(t, "submitted")
      BY <1>9, <2>1, LedgerBecomes
    <2>3. Ledger!Create(t)
      BY <1>2, <1>10, <2>2 DEF Ledger!Create
    <2> QED
      BY <1>6, <1>7, <1>8, <2>3 DEF Staffed, Ledger!Next
  <1>11. CASE t \in raced
    <2>1. Seen(t)' = Seen(t) /\ Manned(t)' = Manned(t)
      BY <1>2, <1>11 DEF Seen, Manned
    <2>2. UNCHANGED Ledger!vars
      BY <1>9, <2>1, LedgerKeeps
    <2> QED
      BY <1>6, <1>7, <1>8, <2>2 DEF Staffed
  <1> QED
    BY <1>10, <1>11

\* A row is saved: it names a run of its own or none, and unless the save is overtaken it
\* keeps its stamp and is at work, asks or is done only with one.
LEMMA SaveStaffed ==
    ASSUME TypeOK, RunsExist, Staffed, NEW l \in Lanes, NEW r \in RowType, SaveRow(l, r),
           run' = run, NEW ln, Goto(l, ln), LaneStaffed(ln)',
           NEW t \in Task, t = lane[l].task,
           r.status # "none", r.process # 0 => run[r.process].task = t,
           t \notin raced' =>
             /\ row[t].process # 0 => r.process # 0
             /\ r.status \in {"working", "input_required", "done"} => r.process # 0
    PROVE  Staffed'
  <1>1. row'[t] = r /\ \A u \in Task : u # t => row'[u] = row[u]
    BY SaveRowType
  <1>2. raced \subseteq raced'
    BY DEF SaveRow
  <1>3. RunsStay /\ StampsStay
    BY <1>1, <1>2 DEF RunsStay, StampsStay
  <1>4. \A k \in Lanes : LaneStaffed(lane[k])'
    BY <1>3, OthersStaffed
  <1>5. RowStaffed(t)'
    BY <1>1 DEF RowStaffed
  <1>6. ASSUME NEW u \in Task, u # t PROVE RowStaffed(u)'
    BY <1>1, <1>2, <1>6 DEF Staffed, RowStaffed
  <1>7. \A u \in Task : RowStaffed(u)'
    BY <1>5, <1>6
  <1>8. ASSUME NEW p \in 1..Len(run) PROVE RunStaffed(p)'
    <2>1. run[p].task \in Task /\ RunStaffed(p)
      BY NumbersOfRuns DEF Staffed
    <2> QED
      BY <1>1, <1>2, <2>1 DEF RunStaffed
  <1> QED
    BY <1>4, <1>7, <1>8 DEF Staffed

\* Whatever is written over an unread version, the ledger gives the task up.
LEMMA OverwriteInLedger ==
    ASSUME TypeOK, Staffed, NEW l \in Lanes, NEW r \in RowType, SaveRow(l, r),
           NEW t \in Task, t = lane[l].task, row[t].status # "none", t \in raced'
    PROVE  Ledger!Next
  <1>1. /\ \A u \in Task : u # t => row'[u] = row[u] /\ (u \in raced' <=> u \in raced)
    <2>1. raced' = raced \/ raced' = raced \cup {t}
      BY DEF SaveRow
    <2> QED
      BY <2>1, SaveRowType
  <1>2. \A u \in Task : u # t => Seen(u)' = Seen(u) /\ Manned(u)' = Manned(u)
    BY <1>1 DEF Seen, Manned
  <1>3. Seen(t)' = "overwritten" /\ Manned(t)' = FALSE
    BY DEF Seen, Manned
  <1>4. /\ [u \in Task |-> Seen(u)]' = [[u \in Task |-> Seen(u)] EXCEPT ![t] = "overwritten"]
        /\ [u \in Task |-> Manned(u)]' = [[u \in Task |-> Manned(u)] EXCEPT ![t] = FALSE]
    BY <1>2, <1>3, LedgerSees
  <1>5. [u \in Task |-> Seen(u)][t] # "none"
    BY DEF Seen
  <1>6. Ledger!Overwrite(t)
    BY <1>4, <1>5 DEF Ledger!Overwrite, Seen, Manned
  <1> QED
    BY <1>6 DEF Ledger!Next

\* A save that is not overtaken writes over the version its coroutine read.
LEMMA NotOvertaken ==
    ASSUME TypeOK, NEW l \in Lanes, NEW r, SaveRow(l, r), lane[l].task \notin raced'
    PROVE  /\ lane[l].copy = row[lane[l].task] /\ raced' = raced
           /\ lane[l].task \notin raced
  BY DEF SaveRow, Overtaken, TypeOK

\* An event is recorded on the row as it is: the status moves along the ledger's graph,
\* the stamp stays.
LEMMA RecordInLedger ==
    ASSUME TypeOK, Staffed, WritesInv, NEW l \in Lanes, NEW t \in Task, t = lane[l].task,
           SaveRecord(l), t \notin raced'
    PROVE  Ledger!Next \/ UNCHANGED Ledger!vars
  <1>0. PICK event, old : event = lane[l].event /\ old = row[t]
    OBVIOUS
  <1>1. /\ lane[l] \in LaneType /\ old \in RowType /\ lane[l].pc = "saving"
        /\ LaneStaffed(lane[l]) /\ RowStaffed(t) /\ SaveRow(l, Recorded(lane[l]))
    BY <1>0 DEF SaveRecord, At, TypeOK, Staffed
  <1>2. lane[l].copy = old /\ raced' = raced /\ t \notin raced
    BY <1>0, <1>1, NotOvertaken
  <1>3. Accepts(old.status, event, lane[l].author)
    BY <1>0, <1>1, <1>2 DEF WritesInv, Checked
  <1>4. /\ row'[t].process = old.process
        /\ row'[t].status = StatusAfter(old.status, event)
        /\ \A u \in Task : u # t => row'[u] = row[u]
    BY <1>0, <1>1, <1>2, RecordedType, SaveRowType
  <1>5. old.status \in {"submitted", "working", "input_required"}
    BY <1>1, <1>3 DEF Accepts, RowType, Status
  <1>6. event \in OfTheRun \/ old.status \in {"working", "input_required"} => old.process # 0
    BY <1>0, <1>1, <1>2 DEF LaneStaffed, RowStaffed
  <1>7. \/ row'[t].status = old.status
        \/ row'[t].status = "working" /\ old.process # 0
        \/ row'[t].status = "input_required" /\ old.status = "working" /\ old.process # 0
        \/ row'[t].status = "done" /\ old.process # 0
        \/ row'[t].status \in {"failed", "canceled"}
    BY <1>3, <1>4, <1>6 DEF StatusAfter, Accepts, OfTheRun
  <1>8. PICK s : s = row'[t].status
    OBVIOUS
  <1>9. /\ \A u \in Task : u # t => Seen(u)' = Seen(u) /\ Manned(u)' = Manned(u)
        /\ Seen(t)' = s /\ Manned(t)' = Manned(t)
    BY <1>0, <1>2, <1>4, <1>8 DEF Seen, Manned
  <1>10. Seen(t) = old.status /\ (old.process # 0 => Manned(t))
    BY <1>0, <1>2 DEF Seen, Manned
  <1>11. CASE s = old.status
    BY <1>9, <1>10, <1>11, LedgerKeeps
  <1>12. CASE s # old.status
    <2>1. Ledger!Becomes(t, s)
      BY <1>9, LedgerBecomes
    <2>2. [u \in Task |-> Seen(u)][t] = old.status
      BY <1>10
    <2>3. Ledger!IsOpen(t)
      BY <1>5, <2>2 DEF Ledger!IsOpen, Seen
    <2>4. old.process # 0 => [u \in Task |-> Manned(u)][t] = TRUE
      BY <1>10 DEF Manned
    <2>5. Ledger!Work(t) \/ Ledger!Ask(t) \/ Ledger!Finish(t) \/ Ledger!End(t)
      BY <1>7, <1>8, <1>12, <2>1, <2>2, <2>3, <2>4
         DEF Ledger!Work, Ledger!Ask, Ledger!Finish, Ledger!End, Seen, Manned
    <2> QED
      BY <2>5 DEF Ledger!Next
  <1> QED
    BY <1>11, <1>12

LEMMA SaveKeepsLedger ==
    ASSUME TypeOK, RunsExist, WritesInv, Staffed, NEW l \in Lanes, SaveRecord(l)
    PROVE  Staffed' /\ (Ledger!Next \/ UNCHANGED Ledger!vars)
  <1>0. PICK t, r : t = lane[l].task /\ r = Recorded(lane[l])
    OBVIOUS
  <1>1. /\ lane[l] \in LaneType /\ t \in Task /\ lane[l].pc = "saving"
        /\ LaneStaffed(lane[l]) /\ RowStaffed(t) /\ SaveRow(l, r) /\ run' = run
    BY <1>0 DEF SaveRecord, At, TypeOK, LaneType, Staffed
  <1>2. /\ r \in RowType /\ r.process = lane[l].copy.process
        /\ r.status = StatusAfter(lane[l].copy.status, lane[l].event)
    BY <1>0, <1>1, RecordedType
  <1>3. Accepts(lane[l].copy.status, lane[l].event, lane[l].author)
    BY <1>1 DEF WritesInv, Checked
  <1>4. r.status # "none"
    BY <1>2, <1>3 DEF StatusAfter, Accepts
  <1>5. row[t].status # "none" /\ (r.process # 0 => run[r.process].task = t)
    BY <1>0, <1>1, <1>2 DEF LaneStaffed
  <1>6. ASSUME t \notin raced'
        PROVE  /\ row[t].process # 0 => r.process # 0
               /\ r.status \in {"working", "input_required", "done"} => r.process # 0
    <2>1. lane[l].copy = row[t] /\ t \notin raced
      BY <1>0, <1>1, <1>6, NotOvertaken
    <2>2. lane[l].event \in OfTheRun => row[t].process # 0
      BY <1>0, <1>1, <2>1 DEF LaneStaffed
    <2> QED
      BY <1>1, <1>2, <1>3, <2>1, <2>2 DEF RowStaffed, StatusAfter, Accepts, OfTheRun
  <1>7. PICK ln : Goto(l, ln) /\ ln.pc = "announcing"
    <2>1. [lane[l] EXCEPT !.pc = "announcing", !.copy = NoRow].pc = "announcing"
      BY <1>1 DEF LaneType
    <2> QED
      BY <2>1 DEF SaveRecord
  <1>8. LaneStaffed(ln)'
    BY <1>7 DEF LaneStaffed, OnRun
  <1>9. Staffed'
    BY <1>0, <1>1, <1>2, <1>4, <1>5, <1>6, <1>7, <1>8, SaveStaffed
  <1>10. CASE t \in raced'
    BY <1>0, <1>1, <1>2, <1>5, <1>9, <1>10, OverwriteInLedger
  <1>11. CASE t \notin raced'
    BY <1>0, <1>1, <1>9, <1>11, RecordInLedger
  <1> QED
    BY <1>10, <1>11

\* The stamping of a run changes nothing but the stamp.
LEMMA AttachKeepsLedger ==
    ASSUME TypeOK, RunsExist, WritesInv, Staffed, NEW l \in Lanes, AttachSaves(l)
    PROVE  Staffed' /\ (Ledger!Next \/ UNCHANGED Ledger!vars)
  <1>0. PICK t, r : t = lane[l].task /\ r = Stamped(lane[l])
    OBVIOUS
  <1>1. /\ lane[l] \in LaneType /\ t \in Task /\ lane[l].pc = "attaching"
        /\ LaneStaffed(lane[l]) /\ RowStaffed(t) /\ Good(lane[l])
        /\ SaveRow(l, r) /\ run' = run
    BY <1>0 DEF AttachSaves, At, TypeOK, LaneType, Staffed, RunsExist
  <1>2. /\ r \in RowType /\ r.process = lane[l].proc /\ r.status = lane[l].copy.status
        /\ r.process # 0 /\ r.status # "none"
    BY <1>0, <1>1, StampedType DEF WritesInv, Checked, Good, OnRun
  <1>3. row[t].status # "none" /\ run[r.process].task = t
    BY <1>0, <1>1, <1>2 DEF LaneStaffed, OnRun
  <1>4. PICK ln : ln = Turn(lane[l], 0) /\ Goto(l, ln)
    BY DEF AttachSaves
  <1>5. ln.pc \in {"turning", "failing"} /\ ln.task = t /\ ln.proc = lane[l].proc
    BY <1>0, <1>1, <1>4, TurnStaffed
  <1>6. row'[t] = r /\ \A u \in Task : u # t => row'[u] = row[u]
    BY <1>0, <1>1, <1>2, SaveRowType
  <1>7. LaneStaffed(ln)'
    BY <1>1, <1>2, <1>3, <1>5, <1>6 DEF LaneStaffed, OnRun
  <1>8. Staffed'
    BY <1>0, <1>1, <1>2, <1>3, <1>4, <1>7, SaveStaffed
  <1>9. CASE t \in raced'
    BY <1>0, <1>1, <1>2, <1>3, <1>8, <1>9, OverwriteInLedger
  <1>10. CASE t \notin raced'
    <2>1. lane[l].copy = row[t] /\ raced' = raced /\ t \notin raced
      BY <1>0, <1>1, <1>10, NotOvertaken
    <2>2. /\ Seen(t)' = Seen(t) /\ Manned(t)' = TRUE
          /\ \A u \in Task : u # t => Seen(u)' = Seen(u) /\ Manned(u)' = Manned(u)
      BY <1>2, <1>6, <2>1 DEF Seen, Manned
    <2>3. /\ [u \in Task |-> Seen(u)]' = [[u \in Task |-> Seen(u)] EXCEPT ![t] = Seen(t)]
          /\ [u \in Task |-> Manned(u)]' = [[u \in Task |-> Manned(u)] EXCEPT ![t] = TRUE]
      BY <2>2, LedgerSees
    <2>4. [u \in Task |-> Seen(u)]' = [u \in Task |-> Seen(u)]
      <3>1. \A u \in Task : Seen(u)' = Seen(u)
        BY <2>2
      <3> HIDE DEF Seen
      <3> QED
        BY <3>1
    <2>5. [u \in Task |-> Seen(u)][t] \notin {"none", "overwritten"}
      BY <1>1, <1>3, <2>1 DEF Seen, TypeOK, RowType, Status, Terminal
    <2>6. Ledger!Attach(t)
      BY <2>3, <2>4, <2>5 DEF Ledger!Attach, Seen, Manned
    <2> QED
      BY <1>1, <1>8, <2>6 DEF Ledger!Next
  <1> QED
    BY <1>9, <1>10

-----------------------------------------------------------------------------
(* The ledger, implemented.                                                *)

LedgerInv == Typed /\ Staffed

LEMMA InitLedger == Init => LedgerInv /\ Ledger!Init
  <1>1. Init => Ledger!Init
    <2> SUFFICES ASSUME Init PROVE Ledger!Init
      OBVIOUS
    <2>1. \A t \in Task : Seen(t) = "none" /\ Manned(t) = FALSE
      BY DEF Init, NoRow, Seen, Manned
    <2>2. [t \in Task |-> Seen(t)] = [t \in Task |-> "none"]
      BY <2>1
    <2>3. [t \in Task |-> Manned(t)] = [t \in Task |-> FALSE]
      BY <2>1
    <2> QED
      BY <2>2, <2>3 DEF Ledger!Init, Seen, Manned
  <1> QED
    BY <1>1, InitTyped, InitStaffed DEF LedgerInv

LEMMA NextLedger ==
    ASSUME LedgerInv, [Next]_vars
    PROVE  LedgerInv' /\ [Ledger!Next]_(Ledger!vars)
  <1>0. TypeOK /\ RunsExist /\ WritesInv /\ Staffed /\ Typed'
    BY NextTyped DEF LedgerInv, Typed
  <1>1. ASSUME NEW l \in Lanes, NEW t \in Task, Create(l, t)
        PROVE  Staffed' /\ [Ledger!Next]_(Ledger!vars)
    BY <1>0, <1>1, CreateKeepsLedger
  <1>2. ASSUME NEW l \in Lanes, SaveRecord(l) \/ AttachSaves(l)
        PROVE  Staffed' /\ [Ledger!Next]_(Ledger!vars)
    BY <1>0, <1>2, SaveKeepsLedger, AttachKeepsLedger
  <1>3. ASSUME NEW l \in Lanes, NEW t \in Task, NEW author \in Role, NEW event \in Event,
               Request(l, t, author, event)
        PROVE  Staffed' /\ [Ledger!Next]_(Ledger!vars)
    <2>1. row' = row /\ raced' = raced
      BY <1>3 DEF Request, history
    <2> QED
      BY <1>0, <1>3, <2>1, LedgerStays, RequestStaffed
  <1>4. ASSUME NEW l \in Lanes, SpawnRun(l) \/ GiveTurn(l)
        PROVE  Staffed' /\ [Ledger!Next]_(Ledger!vars)
    <2>1. row' = row /\ raced' = raced
      BY <1>4 DEF SpawnRun, GiveTurn, history
    <2> QED
      BY <1>0, <1>4, <2>1, LedgerStays, RunStepStaffed
  <1>5. ASSUME NEW l \in Lanes,
               \/ Announce(l) \/ HandleNews(l) \/ Deliver(l) \/ BudgetHolds(l)
               \/ BudgetCrossed(l) \/ Fail(l) \/ FailRefused(l) \/ ListWaiting(l)
               \/ DispatchWaits(l) \/ DispatchGoes(l) \/ NobodyOfThatName(l)
               \/ AttachReads(l) \/ ReadRun(l) \/ Raise(l)
        PROVE  Staffed' /\ [Ledger!Next]_(Ledger!vars)
    <2>1. row' = row /\ raced' = raced
      BY <1>5 DEF Announce, HandleNews, Deliver, BudgetHolds, BudgetCrossed, Fail, FailRefused,
             ListWaiting, DispatchWaits, DispatchGoes, NobodyOfThatName, AttachReads, ReadRun,
             Raise, history
    <2> QED
      BY <1>0, <1>5, <2>1, LedgerStays, QuietStaffed
  <1>6. ASSUME UNCHANGED vars
        PROVE  Staffed' /\ [Ledger!Next]_(Ledger!vars)
    <2>1. row' = row /\ run' = run /\ lane' = lane /\ raced' = raced
      BY <1>6 DEF vars, history
    <2>2. Staffed'
      BY <1>0, <2>1 DEF Staffed, RowStaffed, RunStaffed, LaneStaffed
    <2> QED
      BY <2>1, <2>2, LedgerStays
  <1>7. Staffed' /\ [Ledger!Next]_(Ledger!vars)
    <2>1. CASE \E l \in Lanes, t \in Task : Create(l, t)
      BY <1>1, <2>1
    <2>2. CASE \E l \in Lanes, t \in Task, author \in Role, event \in Event :
                 Request(l, t, author, event)
      BY <1>3, <2>2
    <2>3. ASSUME NEW l \in Lanes, HandleNews(l) \/ LaneStep(l) \/ Raise(l)
          PROVE  Staffed' /\ [Ledger!Next]_(Ledger!vars)
      BY <1>2, <1>4, <1>5, <2>3 DEF LaneStep
    <2> QED
      BY <1>6, <2>1, <2>2, <2>3 DEF Next, AtRest
  <1> QED
    BY <1>0, <1>7 DEF LedgerInv

\* However the coroutines interleave and whatever breaks off: until its row is saved over a
\* version the writer had not read, a task is at work, asks or is done only with a run of its
\* own stamped on it, the stamp is never lost, and its status moves along the ledger's graph
\* (record, attach_run, give_turn).
THEOREM DispatchImplementsLedger == Spec => ImplementsLedger
  <1>1. LedgerInv /\ [Next]_vars => LedgerInv'
    BY NextLedger
  <1>2. Spec => []LedgerInv
    BY <1>1, InitLedger, PTL DEF Spec
  <1>3. LedgerInv /\ [Next]_vars => [Ledger!Next]_(Ledger!vars)
    BY NextLedger
  <1> QED
    BY <1>2, <1>3, InitLedger, PTL DEF Spec, ImplementsLedger, Ledger!Spec
=============================================================================
