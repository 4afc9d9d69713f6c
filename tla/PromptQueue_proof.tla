-------------------------- MODULE PromptQueue_proof --------------------------
(***************************************************************************)
(* For any prompts, any number of objects and any failures: the turns of a *)
(* process never overlap, a queued prompt is always in one place and is    *)
(* delivered at most once (the queue implements PromptDelivery), and an    *)
(* idle process leaves no prompt on an enabled queue but those that were   *)
(* left to whoever comes next.                                             *)
(***************************************************************************)
EXTENDS PromptQueue, TLAPS

-----------------------------------------------------------------------------
(* Types.                                                                  *)

LEMMA Somewhere == Anywhere \in Objects
  BY PromptQueueAssumption DEF Anywhere

LEMMA InitTypeOK == Init => TypeOK
  <1>1. Init => left \in BOOLEAN
    BY DEF Init
  <1>2. Init => turn \in [Prompt -> [phase : Phase, on : Objects]]
    BY Somewhere DEF Init, Phase
  <1> QED
    BY <1>1, <1>2, PromptQueueAssumption, Somewhere DEF Init, TypeOK, Status, Prompt

\* Scheduling drains on objects of the process.
LEMMA ScheduleType ==
    ASSUME TypeOK, NEW some \in SUBSET Objects, Schedule(some)
    PROVE  due' \subseteq Objects /\ left' \in BOOLEAN
  <1>1. due' \subseteq Objects
    BY DEF Schedule, TypeOK
  <1>2. left' \in BOOLEAN
    BY DEF Schedule
  <1> QED
    BY <1>1, <1>2

\* What is put back is a queued prompt, or noted as lost.
LEMMA RequeueType ==
    ASSUME TypeOK, NEW p \in Queued, NEW o \in Objects, NEW kept \in BOOLEAN,
           Requeue(p, o, kept)
    PROVE  /\ queue' \in Seq(Queued) /\ lost' \subseteq Queued
           /\ due' \subseteq Objects /\ left' \in BOOLEAN
  <1>1. queue' \in Seq(Queued) /\ lost' \subseteq Queued
    BY DEF Requeue, TypeOK
  <1>2. Chained(o) \in SUBSET Objects
    BY DEF Chained
  <1>3. Schedule(Chained(o))
    BY DEF Requeue
  <1> QED
    BY <1>1, <1>2, <1>3, ScheduleType

LEMMA RequestTypeOK ==
    ASSUME TypeOK, NEW o \in Objects,
           (\E p \in Queued : Enqueue(o, p)) \/ DrainQueue(o) \/ Enable(o) \/ Announced(o)
    PROVE  TypeOK'
  <1>1. CASE \E p \in Queued : Enqueue(o, p)
    <2>1. left' \in BOOLEAN
      BY <1>1 DEF Enqueue
    <2> QED
      BY <1>1, <2>1 DEF Enqueue, Load, TypeOK, Status
  <1>2. CASE DrainQueue(o)
    <2>1. due' \subseteq Objects /\ left' \in BOOLEAN
      BY <1>2, ScheduleType DEF DrainQueue
    <2>2. edits' \in 0..MaxEdits
      BY <1>2, PromptQueueAssumption DEF DrainQueue, TypeOK
    <2> QED
      BY <1>2, <2>1, <2>2 DEF DrainQueue, Load, TypeOK, Status
  <1>3. CASE Enable(o)
    BY <1>3 DEF Enable, Load, TypeOK, Status
  <1>4. CASE Announced(o)
    <2>1. due' \subseteq Objects /\ left' \in BOOLEAN
      BY <1>4, ScheduleType DEF Announced
    <2> QED
      BY <1>4, <2>1 DEF Announced, TypeOK, Status
  <1> QED
    BY <1>1, <1>2, <1>3, <1>4

LEMMA StageTypeOK ==
    ASSUME TypeOK, NEW p \in Queued, Stage(p)
    PROVE  TypeOK'
  BY DEF Stage, TypeOK, Status

LEMMA AskTypeOK ==
    ASSUME TypeOK, NEW o \in Objects, NEW p \in Direct, Ask(o, p)
    PROVE  TypeOK'
  BY DEF Ask, Load, TypeOK, Status, Phase, Prompt

LEMMA EditTypeOK ==
    ASSUME TypeOK, (\E i \in Nat : Dequeue(i)) \/ ClearQueue \/ Disable
    PROVE  TypeOK'
  <1>1. ASSUME NEW i \in Nat, Dequeue(i)
        PROVE  TypeOK'
    <2>1. edits' \in 0..MaxEdits
      BY <1>1, PromptQueueAssumption DEF Dequeue, TypeOK
    <2>2. queue[i] \in Queued /\ queue' \in Seq(Queued)
      BY <1>1 DEF Dequeue, Without, TypeOK
    <2> QED
      BY <1>1, <2>1, <2>2 DEF Dequeue, TypeOK, Status
  <1>2. CASE ClearQueue
    BY <1>2, PromptQueueAssumption DEF ClearQueue, TypeOK, Status
  <1>3. CASE Disable
    <2>1. edits' \in 0..MaxEdits
      BY <1>3, PromptQueueAssumption DEF Disable, TypeOK
    <2>2. enabled' \in BOOLEAN
      BY <1>3 DEF Disable
    <2> QED
      BY <1>3, <2>1, <2>2 DEF Disable, TypeOK, Status
  <1> QED
    BY <1>1, <1>2, <1>3

LEMMA DrainTypeOK ==
    ASSUME TypeOK, NEW o \in Objects, Drain(o)
    PROVE  TypeOK'
  <1>1. ASSUME NEW awaiting \in BOOLEAN, NEW elsewhere \in Abroad,
               DrainBails(o, awaiting, elsewhere)
        PROVE  TypeOK'
    <2>1. left' \in BOOLEAN
      BY <1>1 DEF DrainBails
    <2> QED
      BY <1>1, <2>1 DEF DrainBails, TypeOK, Status
  <1>2. ASSUME NEW awaiting \in BOOLEAN, NEW elsewhere \in Abroad,
               DrainPops(o, awaiting, elsewhere)
        PROVE  TypeOK'
    <2>1. queue' \in Seq(Queued) /\ Head(queue) \in Queued
      BY <1>2 DEF DrainPops, Rest, TypeOK
    <2>2. turn' \in [Prompt -> [phase : Phase, on : Objects]]
      BY <1>2, <2>1 DEF DrainPops, TypeOK, Prompt, Phase
    <2> QED
      BY <1>2, <2>1, <2>2 DEF DrainPops, TypeOK, Status
  <1> QED
    BY <1>1, <1>2 DEF Drain

\* A prompt that was not delivered.
LEMMA UndeliveredType ==
    ASSUME TypeOK, NEW p \in Prompt, NEW kept \in BOOLEAN, Undelivered(p, kept)
    PROVE  /\ queue' \in Seq(Queued) /\ lost' \subseteq Queued
           /\ due' \subseteq Objects /\ left' \in BOOLEAN
           /\ faults' \in 0..MaxFaults
           /\ turn' \in [Prompt -> [phase : Phase, on : Objects]]
  <1>1. turn[p].on \in Objects
    BY DEF TypeOK
  <1>2. faults' \in 0..MaxFaults
    BY PromptQueueAssumption DEF Undelivered, TypeOK
  <1>3. CASE p \in Queued
    <2>1. Requeue(p, turn[p].on, kept) /\ Move(p, "none")
      BY <1>3 DEF Undelivered
    <2>2. turn' \in [Prompt -> [phase : Phase, on : Objects]]
      BY <2>1 DEF Move, TypeOK, Phase
    <2> QED
      BY <1>1, <1>2, <1>3, <2>1, <2>2, RequeueType
  <1>4. CASE p \notin Queued
    <2>1. UNCHANGED <<queue, due, lost>> /\ left' = TRUE /\ Move(p, "done")
      BY <1>4 DEF Undelivered
    <2> QED
      BY <1>2, <2>1 DEF Move, TypeOK, Phase
  <1> QED
    BY <1>3, <1>4

LEMMA TurnTypeOK ==
    ASSUME TypeOK, NEW p \in Prompt,
           Fails(p) \/ SpawnFails(p) \/ WorkEnds(p) \/ TurnStep(p)
    PROVE  TypeOK'
  <1>0. turn[p].on \in Objects
    BY DEF TypeOK
  <1>1. ASSUME NEW kept \in BOOLEAN,
               SaveFails(p, kept) \/ SetupFails(p, kept) \/ LaunchFails(p, kept)
        PROVE  TypeOK'
    <2>1. Undelivered(p, kept)
      BY <1>1 DEF SaveFails, SetupFails, LaunchFails
    <2> QED
      BY <1>1, <2>1, UndeliveredType DEF SaveFails, SetupFails, LaunchFails, TypeOK, Status
  <1>2. CASE SpawnFails(p)
    <2>1. faults' \in 0..MaxFaults
      BY <1>2, PromptQueueAssumption DEF SpawnFails, TypeOK
    <2>2. object' \in [Objects -> [status : Status, flying : BOOLEAN]]
      BY <1>2, <1>0 DEF SpawnFails, TypeOK, Status
    <2> QED
      BY <1>2, <2>1, <2>2, <1>0 DEF SpawnFails, Move, TypeOK, Status, Phase
  <1>3. CASE MarkRunning(p)
    <2>1. object' \in [Objects -> [status : Status, flying : BOOLEAN]]
      BY <1>3, <1>0 DEF MarkRunning, TypeOK, Status
    <2>2. row' \in Status
      BY <1>3 DEF MarkRunning, TypeOK, Status
    <2> QED
      BY <1>3, <2>1, <2>2, <1>0 DEF MarkRunning, Move, TypeOK, Status, Phase
  <1>4. CASE Register(p)
    <2>1. object' \in [Objects -> [status : Status, flying : BOOLEAN]]
      BY <1>4, <1>0 DEF Register, TypeOK, Status
    <2> QED
      BY <1>4, <2>1, <1>0 DEF Register, Move, TypeOK, Status, Phase
  <1>5. CASE Launch(p)
    <2>1. due' \subseteq Objects /\ left' \in BOOLEAN
      BY <1>5, <1>0, ScheduleType DEF Launch
    <2> QED
      BY <1>5, <2>1, <1>0 DEF Launch, Move, TypeOK, Status, Phase
  <1>6. CASE WorkEnds(p)
    BY <1>6, <1>0 DEF WorkEnds, Move, TypeOK, Status, Phase
  <1>7. CASE EndTurn(p)
    <2>1. object' \in [Objects -> [status : Status, flying : BOOLEAN]]
      BY <1>7, <1>0 DEF EndTurn, TypeOK, Status
    <2>2. turn' \in [Prompt -> [phase : Phase, on : Objects]]
      BY <1>7 DEF EndTurn, Move, TypeOK, Phase
    <2> QED
      BY <1>7, <2>1, <2>2 DEF EndTurn, TypeOK, Status
  <1>8. CASE CompleteDrain(p)
    <2>1. due' \subseteq Objects /\ left' \in BOOLEAN
      BY <1>8, <1>0, ScheduleType DEF CompleteDrain, AfterTurn
    <2> QED
      BY <1>8, <2>1, <1>0 DEF CompleteDrain, Move, TypeOK, Status, Phase
  <1> QED
    BY <1>1, <1>2, <1>3, <1>4, <1>5, <1>6, <1>7, <1>8 DEF Fails, TurnStep

LEMMA DeliversTypeOK ==
    ASSUME TypeOK, NEW p \in Queued, Delivers(p)
    PROVE  TypeOK'
  <1>0. turn[p].on \in Objects /\ p \in Prompt
    BY DEF TypeOK, Prompt
  <1>1. CASE HandOver(p)
    BY <1>1, <1>0 DEF HandOver, Move, TypeOK, Status, Phase
  <1>2. CASE Admit(p)
    BY <1>2, <1>0 DEF Admit, Move, TypeOK, Status, Phase
  <1>3. ASSUME NEW kept \in BOOLEAN, Refuse(p, kept)
        PROVE  TypeOK'
    <2>1. Requeue(p, turn[p].on, kept)
      BY <1>3 DEF Refuse
    <2>2. faults' \in 0..MaxFaults
      BY <1>3, PromptQueueAssumption DEF Refuse, TypeOK
    <2>3. turn' \in [Prompt -> [phase : Phase, on : Objects]]
      BY <1>3 DEF Refuse, Move, TypeOK, Phase
    <2> QED
      BY <1>3, <1>0, <2>1, <2>2, <2>3, RequeueType DEF Refuse, TypeOK, Status
  <1> QED
    BY <1>1, <1>2, <1>3 DEF Delivers

-----------------------------------------------------------------------------
(* The slot.                                                               *)

\* The admission is held by the one turn in setup, the worker by the one past it, and
\* the two never at once.
SlotInv ==
    /\ \A p \in Prompt : In(p, {"setup", "marked"}) <=> admission = p
    /\ \A p \in Prompt : In(p, {"starting", "working", "failing"}) <=> worker = p
    /\ admission = NoPrompt \/ worker = NoPrompt

LEMMA InitSlotInv == Init => SlotInv
  BY PromptQueueAssumption DEF Init, SlotInv, In

\* What a step does to the phases, when it moves one prompt.
LEMMA MoveMoves ==
    ASSUME TypeOK, NEW p \in Prompt, NEW phase, Move(p, phase)
    PROVE  /\ turn'[p].phase = phase /\ turn'[p].on = turn[p].on
           /\ \A q \in Prompt : q # p => turn'[q] = turn[q]
  BY DEF Move, TypeOK

\* Taking the slot: it is free, so nobody else is in setup or at work.
LEMMA TakeSlotInv ==
    ASSUME TypeOK, SlotInv, NEW p \in Prompt, Free, admission' = p, worker' = worker,
           turn'[p].phase = "setup", \A q \in Prompt : q # p => turn'[q] = turn[q]
    PROVE  SlotInv'
  <1>1. admission = NoPrompt /\ worker = NoPrompt
    BY DEF Free
  <1> QED
    BY <1>1, PromptQueueAssumption DEF SlotInv, In

LEMMA AskSlotInv ==
    ASSUME TypeOK, SlotInv, NEW o \in Objects, NEW p \in Direct, Ask(o, p)
    PROVE  SlotInv'
  <1>1. p \in Prompt
    BY DEF Prompt
  <1>2. turn'[p].phase = "setup" /\ \A q \in Prompt : q # p => turn'[q] = turn[q]
    BY <1>1 DEF Ask, TypeOK
  <1> QED
    BY <1>1, <1>2, TakeSlotInv DEF Ask

\* A prompt that holds nothing moves to where it holds nothing.
LEMMA OutsideSlotInv ==
    ASSUME TypeOK, SlotInv, NEW p \in Prompt, UNCHANGED <<admission, worker>>,
           turn[p].phase \in {"none", "popped", "handed"},
           turn'[p].phase \in {"none", "popped", "handed"},
           \A q \in Prompt : q # p => turn'[q] = turn[q]
    PROVE  SlotInv'
  BY DEF SlotInv, In

LEMMA DrainSlotInv ==
    ASSUME TypeOK, SlotInv, OnePlace, NEW o \in Objects, Drain(o)
    PROVE  SlotInv'
  <1>1. ASSUME NEW awaiting \in BOOLEAN, NEW elsewhere \in Abroad,
               DrainBails(o, awaiting, elsewhere)
        PROVE  SlotInv'
    BY <1>1 DEF DrainBails, SlotInv, In
  <1>2. ASSUME NEW awaiting \in BOOLEAN, NEW elsewhere \in Abroad,
               DrainPops(o, awaiting, elsewhere)
        PROVE  SlotInv'
    <2> DEFINE p == Head(queue)
    <2>1. p \in Queued /\ p \in Prompt /\ 1 \in DOMAIN queue /\ queue[1] = p
      BY <1>2 DEF DrainPops, TypeOK, Prompt
    <2>2. turn[p].phase = "none"
      BY <2>1 DEF OnePlace, InQueue, In
    <2>3. turn'[p].phase = "popped" /\ \A q \in Prompt : q # p => turn'[q] = turn[q]
      BY <1>2, <2>1 DEF DrainPops, TypeOK
    <2>4. UNCHANGED <<admission, worker>>
      BY <1>2 DEF DrainPops
    <2> HIDE DEF p
    <2> QED
      BY <2>1, <2>2, <2>3, <2>4, OutsideSlotInv
  <1> QED
    BY <1>1, <1>2 DEF Drain

LEMMA DeliversSlotInv ==
    ASSUME TypeOK, SlotInv, NEW p \in Queued, Delivers(p)
    PROVE  SlotInv'
  <1>0. p \in Prompt
    BY DEF Prompt
  <1>1. CASE HandOver(p)
    <2>1. turn[p].phase = "popped" /\ Move(p, "handed") /\ UNCHANGED <<admission, worker>>
      BY <1>1 DEF HandOver, In
    <2> QED
      BY <1>0, <2>1, MoveMoves, OutsideSlotInv
  <1>2. CASE Admit(p)
    <2>1. Free /\ Move(p, "setup") /\ admission' = p /\ worker' = worker
      BY <1>2 DEF Admit
    <2> QED
      BY <1>0, <2>1, MoveMoves, TakeSlotInv
  <1>3. ASSUME NEW kept \in BOOLEAN, Refuse(p, kept)
        PROVE  SlotInv'
    <2>1. turn[p].phase = "handed" /\ Move(p, "none") /\ UNCHANGED <<admission, worker>>
      BY <1>3 DEF Refuse, In
    <2> QED
      BY <1>0, <2>1, MoveMoves, OutsideSlotInv
  <1> QED
    BY <1>1, <1>2, <1>3 DEF Delivers

\* Where an undelivered prompt goes.
LEMMA UndeliveredMoves ==
    ASSUME TypeOK, NEW p \in Prompt, NEW kept \in BOOLEAN, Undelivered(p, kept)
    PROVE  /\ turn'[p].phase = (IF p \in Queued THEN "none" ELSE "done")
           /\ turn'[p].on = turn[p].on
           /\ \A q \in Prompt : q # p => turn'[q] = turn[q]
  <1>1. Move(p, IF p \in Queued THEN "none" ELSE "done")
    BY DEF Undelivered
  <1> QED
    BY <1>1, MoveMoves

\* A turn moves on: what it holds of the slot follows its phase.
LEMMA TurnSlotInv ==
    ASSUME TypeOK, SlotInv, NEW p \in Prompt,
           Fails(p) \/ SpawnFails(p) \/ WorkEnds(p) \/ TurnStep(p)
    PROVE  SlotInv'
  <1>1. ASSUME NEW kept \in BOOLEAN, SetupFails(p, kept)
        PROVE  SlotInv'
    <2>1. /\ turn[p].phase \in {"setup", "marked"} /\ Undelivered(p, kept)
          /\ admission' = (IF admission = p THEN NoPrompt ELSE admission)
          /\ worker' = worker
      BY <1>1 DEF SetupFails, In
    <2>2. turn'[p].phase \in {"none", "done"} /\ \A q \in Prompt : q # p => turn'[q] = turn[q]
      BY <2>1, UndeliveredMoves
    <2> QED
      BY <2>1, <2>2, PromptQueueAssumption DEF SlotInv, In
  <1>2. ASSUME NEW kept \in BOOLEAN, LaunchFails(p, kept)
        PROVE  SlotInv'
    <2>1. /\ turn[p].phase = "starting" /\ Undelivered(p, kept) /\ admission' = admission
          /\ worker' = (IF worker = p THEN NoPrompt ELSE worker)
      BY <1>2 DEF LaunchFails, In
    <2>2. turn'[p].phase \in {"none", "done"} /\ \A q \in Prompt : q # p => turn'[q] = turn[q]
      BY <2>1, UndeliveredMoves
    <2>3. worker = p /\ worker' = NoPrompt
      BY <2>1 DEF SlotInv, In
    <2> QED
      BY <2>1, <2>2, <2>3, PromptQueueAssumption DEF SlotInv, In
  <1>3. CASE Register(p)
    <2>1. turn[p].phase = "marked" /\ Move(p, "starting")
      BY <1>3 DEF Register, In
    <2>2. turn'[p].phase = "starting" /\ \A q \in Prompt : q # p => turn'[q] = turn[q]
      BY <2>1, MoveMoves
    <2>3. admission = p /\ admission' = NoPrompt /\ worker = NoPrompt /\ worker' = p
      BY <1>3, <2>1 DEF Register, SlotInv, In
    <2> QED
      BY <2>2, <2>3, PromptQueueAssumption DEF SlotInv, In
  <1>4. CASE WorkEnds(p)
    <2>1. Move(p, "teardown") /\ In(p, {"working", "failing"})
      BY <1>4 DEF WorkEnds
    <2>2. turn'[p].phase = "teardown" /\ \A q \in Prompt : q # p => turn'[q] = turn[q]
      BY <2>1, MoveMoves
    <2>3. worker = p /\ worker' = NoPrompt /\ admission' = admission
      BY <1>4, <2>1 DEF WorkEnds, SlotInv, In
    <2> QED
      BY <2>2, <2>3, PromptQueueAssumption DEF SlotInv, In
  <1>5. CASE SpawnFails(p) \/ MarkRunning(p) \/ Launch(p) \/ EndTurn(p) \/ CompleteDrain(p)
    <2>1. PICK phase \in Phase :
            /\ Move(p, phase) /\ UNCHANGED <<admission, worker>>
            /\ \/ turn[p].phase = "working" /\ phase = "failing"
               \/ turn[p].phase = "setup" /\ phase = "marked"
               \/ turn[p].phase = "starting" /\ phase = "working"
               \/ turn[p].phase = "teardown" /\ phase = "ending"
               \/ turn[p].phase = "ending" /\ phase = "done"
      BY <1>5 DEF SpawnFails, MarkRunning, Launch, EndTurn, CompleteDrain, In, Phase
    <2>2. turn'[p].phase = phase /\ \A q \in Prompt : q # p => turn'[q] = turn[q]
      BY <2>1, MoveMoves
    <2> QED
      BY <2>1, <2>2 DEF SlotInv, In
  <1>6. ASSUME NEW kept \in BOOLEAN, SaveFails(p, kept)
        PROVE  SlotInv'
    <2>1. /\ turn[p].phase = "handed" /\ Undelivered(p, kept) /\ p \in Queued
          /\ UNCHANGED <<admission, worker>>
      BY <1>6 DEF SaveFails, In
    <2> QED
      BY <2>1, UndeliveredMoves, OutsideSlotInv
  <1> QED
    BY <1>1, <1>2, <1>3, <1>4, <1>5, <1>6 DEF Fails, TurnStep

\* Everything else leaves the slot and the turns alone.
LEMMA OtherSlotInv ==
    ASSUME SlotInv, UNCHANGED <<turn, admission, worker>>
    PROVE  SlotInv'
  BY DEF SlotInv, In

-----------------------------------------------------------------------------
(* The places of a prompt.                                                 *)

\* The entries of a queue are distinct.
Distinct(s) == \A i, j \in DOMAIN s : s[i] = s[j] => i = j
Entries(s) == {s[i] : i \in DOMAIN s}

LEMMA AppendEntries ==
    ASSUME NEW s \in Seq(Queued), NEW p \in Queued, Distinct(s), p \notin Entries(s)
    PROVE  Distinct(Append(s, p)) /\ Entries(Append(s, p)) = Entries(s) \cup {p}
  <1>1. /\ DOMAIN s = 1..Len(s) /\ Len(s) \in Nat
        /\ DOMAIN Append(s, p) = 1..(Len(s) + 1)
        /\ Append(s, p)[Len(s) + 1] = p
        /\ \A i \in 1..Len(s) : Append(s, p)[i] = s[i]
    OBVIOUS
  <1>2. Distinct(Append(s, p))
    BY <1>1 DEF Distinct, Entries
  <1>3. Entries(Append(s, p)) = Entries(s) \cup {p}
    BY <1>1 DEF Entries
  <1> QED
    BY <1>2, <1>3

LEMMA TailEntries ==
    ASSUME NEW s \in Seq(Queued), Distinct(s), s # <<>>
    PROVE  /\ Distinct(Tail(s)) /\ Head(s) \in Entries(s)
           /\ Entries(Tail(s)) = Entries(s) \ {Head(s)}
  <1>1. /\ DOMAIN s = 1..Len(s) /\ Len(s) \in Nat /\ Len(s) # 0
        /\ DOMAIN Tail(s) = 1..(Len(s) - 1) /\ Head(s) = s[1]
        /\ \A i \in 1..(Len(s) - 1) : Tail(s)[i] = s[i + 1]
    OBVIOUS
  <1>2. Distinct(Tail(s))
    BY <1>1 DEF Distinct
  <1>3. Entries(Tail(s)) \subseteq Entries(s) \ {Head(s)}
    BY <1>1 DEF Entries, Distinct
  <1>4. ASSUME NEW i \in 1..Len(s), s[i] # s[1]
        PROVE  s[i] \in Entries(Tail(s))
    <2>1. i - 1 \in 1..(Len(s) - 1) /\ Tail(s)[i - 1] = s[i]
      BY <1>1, <1>4
    <2> QED
      BY <1>1, <2>1 DEF Entries
  <1>5. Head(s) \in Entries(s)
    BY <1>1 DEF Entries
  <1> QED
    BY <1>1, <1>2, <1>3, <1>4, <1>5 DEF Entries

LEMMA WithoutEntries ==
    ASSUME queue \in Seq(Queued), Distinct(queue), NEW i \in DOMAIN queue
    PROVE  /\ Without(i) \in Seq(Queued) /\ Distinct(Without(i))
           /\ Entries(Without(i)) = Entries(queue) \ {queue[i]}
  <1> DEFINE n == Len(queue)
             at(j) == IF j < i THEN j ELSE j + 1
  <1>1. n \in Nat /\ DOMAIN queue = 1..n /\ i \in 1..n /\ \A j \in 1..n : queue[j] \in Queued
    OBVIOUS
  <1>2. Without(i) = [j \in 1..(n - 1) |-> queue[at(j)]]
    BY DEF Without
  <1> HIDE DEF n
  <1>3. /\ \A j \in 1..(n - 1) : at(j) \in 1..n /\ at(j) # i
        /\ \A j, k \in 1..(n - 1) : at(j) = at(k) => j = k
    BY <1>1
  <1>4. n - 1 \in Nat
    BY <1>1
  <1>5. ASSUME NEW k \in 1..n, k # i
        PROVE  \E j \in 1..(n - 1) : at(j) = k
    <2>1. CASE k < i
      <3>1. k \in 1..(n - 1) /\ at(k) = k
        BY <1>1, <1>5, <2>1
      <3> QED
        BY <3>1
    <2>2. CASE k > i
      <3>1. k - 1 \in 1..(n - 1) /\ at(k - 1) = k
        BY <1>1, <1>5, <2>2
      <3> QED
        BY <3>1
    <2> QED
      BY <1>1, <1>5, <2>1, <2>2
  <1> HIDE DEF at
  <1>6. Without(i) \in Seq(Queued)
    BY <1>1, <1>2, <1>3, <1>4
  <1>7. DOMAIN Without(i) = 1..(n - 1) /\ \A j \in 1..(n - 1) : Without(i)[j] = queue[at(j)]
    BY <1>2
  <1>8. Distinct(Without(i))
    BY <1>1, <1>3, <1>7 DEF Distinct
  <1>9. Entries(Without(i)) \subseteq Entries(queue) \ {queue[i]}
    BY <1>1, <1>3, <1>7 DEF Distinct, Entries
  <1>10. Entries(queue) \ {queue[i]} \subseteq Entries(Without(i))
    BY <1>1, <1>5, <1>7 DEF Entries
  <1> QED
    BY <1>6, <1>8, <1>9, <1>10

\* OnePlace and Accepted, said with the set of entries.
Places ==
    /\ Distinct(queue)
    /\ \A p \in Queued :
         /\ p \in Entries(queue) => turn[p].phase = "none" /\ p \notin gone \cup lost
         /\ p \in gone \cup lost => turn[p].phase = "none"

Kept == \A p \in Queued : Accepted(p) => Accepted(p)'

LEMMA PlacesIsOnePlace == Places <=> OnePlace
  BY DEF Places, OnePlace, Distinct, Entries, InQueue, In

LEMMA AcceptedByEntries ==
    ASSUME NEW p \in Queued
    PROVE  Accepted(p) <=> p \in Entries(queue) \/ turn[p].phase # "none" \/ p \in gone \cup lost
  BY DEF Accepted, Entries, InQueue, In

\* ... and after a step.
LEMMA AcceptedNext ==
    ASSUME NEW p \in Queued,
           p \in Entries(queue)' \/ turn'[p].phase # "none" \/ p \in gone' \cup lost'
    PROVE  Accepted(p)'
  BY DEF Accepted, Entries, InQueue, In

LEMMA InitPlaces == Init => Places
  BY PromptQueueAssumption DEF Init, Places, Distinct, Entries, Prompt

\* What moves no prompt.
LEMMA OtherPlaces ==
    ASSUME Places, UNCHANGED <<queue, turn, gone, lost>>
    PROVE  Places' /\ Kept
  BY DEF Places, Kept, Accepted, InQueue, In

\* A prompt that nobody knows goes to the tail of the queue.
LEMMA NewPlaces ==
    ASSUME TypeOK, Places, NEW p \in Queued, ~Accepted(p), queue' = Append(queue, p),
           UNCHANGED <<turn, gone, lost>>
    PROVE  Places' /\ Kept
  <1>1. p \notin Entries(queue) /\ turn[p].phase = "none" /\ p \notin gone \cup lost
    BY AcceptedByEntries
  <1>2. Distinct(queue)' /\ Entries(queue)' = Entries(queue) \cup {p}
    BY <1>1, AppendEntries DEF TypeOK, Places
  <1>3. Places'
    BY <1>1, <1>2 DEF Places
  <1>4. Kept
    BY <1>2, AcceptedByEntries, AcceptedNext DEF Kept
  <1> QED
    BY <1>3, <1>4

\* An edit takes some entries out and notes them as removed.
LEMMA EditTakesOut ==
    ASSUME TypeOK, Places, (\E i \in Nat : Dequeue(i)) \/ ClearQueue
    PROVE  \E out \in SUBSET Queued :
             /\ out \subseteq Entries(queue) /\ gone' = gone \cup out
             /\ Distinct(queue)' /\ Entries(queue)' = Entries(queue) \ out
             /\ UNCHANGED <<turn, lost>>
  <1>1. ASSUME NEW i \in Nat, Dequeue(i)
        PROVE  /\ {queue[i]} \in SUBSET Queued /\ queue[i] \in Entries(queue)
               /\ gone' = gone \cup {queue[i]} /\ Distinct(queue)'
               /\ Entries(queue)' = Entries(queue) \ {queue[i]} /\ UNCHANGED <<turn, lost>>
    <2>1. i \in DOMAIN queue /\ queue' = Without(i)
      BY <1>1 DEF Dequeue
    <2>2. queue[i] \in Queued /\ queue[i] \in Entries(queue)
      BY <2>1 DEF TypeOK, Entries
    <2>3. Distinct(queue)' /\ Entries(queue)' = Entries(queue) \ {queue[i]}
      BY <2>1, WithoutEntries DEF TypeOK, Places
    <2> QED
      BY <1>1, <2>2, <2>3 DEF Dequeue
  <1>2. CASE ClearQueue
    <2>1. {p \in Queued : InQueue(p)} = Entries(queue)
      BY DEF TypeOK, InQueue, Entries
    <2>2. Distinct(queue)' /\ Entries(queue)' = {}
      BY <1>2 DEF ClearQueue, Distinct, Entries
    <2> QED
      BY <1>2, <2>1, <2>2 DEF ClearQueue
  <1> QED
    BY <1>1, <1>2

LEMMA EditPlaces ==
    ASSUME TypeOK, Places, (\E i \in Nat : Dequeue(i)) \/ ClearQueue
    PROVE  Places' /\ Kept
  <1>1. PICK out \in SUBSET Queued :
            /\ out \subseteq Entries(queue) /\ gone' = gone \cup out
            /\ Distinct(queue)' /\ Entries(queue)' = Entries(queue) \ out
            /\ UNCHANGED <<turn, lost>>
    BY EditTakesOut
  <1>2. Places'
    BY <1>1 DEF Places
  <1>3. Kept
    BY <1>1, AcceptedByEntries, AcceptedNext DEF Kept
  <1> QED
    BY <1>2, <1>3

LEMMA PopPlaces ==
    ASSUME TypeOK, Places, NEW o \in Objects, NEW awaiting \in BOOLEAN,
           NEW elsewhere \in Abroad, DrainPops(o, awaiting, elsewhere)
    PROVE  Places' /\ Kept
  <1> DEFINE p == Head(queue)
  <1>1. queue # <<>> /\ queue' = Tail(queue) /\ UNCHANGED <<gone, lost>>
    BY DEF DrainPops, Rest
  <1>2. /\ Distinct(queue)' /\ p \in Entries(queue) /\ p \in Queued
        /\ Entries(queue)' = Entries(queue) \ {p}
    BY <1>1, TailEntries DEF TypeOK, Places
  <1>3. turn'[p].phase = "popped" /\ \A q \in Prompt : q # p => turn'[q] = turn[q]
    BY <1>2 DEF DrainPops, TypeOK, Prompt
  <1> HIDE DEF p
  <1>4. Places'
    BY <1>1, <1>2, <1>3 DEF Places, Prompt
  <1>5. Kept
    <2>1. ASSUME NEW q \in Queued, Accepted(q)
          PROVE  q \in Entries(queue)' \/ turn'[q].phase # "none" \/ q \in gone' \cup lost'
      BY <1>1, <1>2, <1>3, <2>1, AcceptedByEntries DEF Prompt
    <2> QED
      BY <2>1, AcceptedNext DEF Kept
  <1> QED
    BY <1>4, <1>5

\* A prompt goes back to the tail of the queue, or is noted as lost.
LEMMA RequeuePlaces ==
    ASSUME TypeOK, Places, NEW p \in Queued, NEW o \in Objects, NEW kept \in BOOLEAN,
           Requeue(p, o, kept), turn[p].phase # "none",
           turn'[p].phase = "none", \A q \in Prompt : q # p => turn'[q] = turn[q],
           gone' = gone
    PROVE  Places' /\ Kept
  <1>1. p \notin Entries(queue) /\ p \notin gone \cup lost
    BY DEF Places
  <1>2. CASE kept
    <2>1. queue' = Append(queue, p) /\ lost' = lost
      BY <1>2 DEF Requeue
    <2>2. Distinct(queue)' /\ Entries(queue)' = Entries(queue) \cup {p}
      BY <1>1, <2>1, AppendEntries DEF TypeOK, Places
    <2>3. Places'
      BY <1>1, <2>1, <2>2 DEF Places, Prompt
    <2>4. Kept
      <3>1. ASSUME NEW q \in Queued, Accepted(q)
            PROVE  q \in Entries(queue)' \/ turn'[q].phase # "none" \/ q \in gone' \cup lost'
        BY <2>1, <2>2, <3>1, AcceptedByEntries DEF Prompt
      <3> QED
        BY <3>1, AcceptedNext DEF Kept
    <2> QED
      BY <2>3, <2>4
  <1>3. CASE ~kept
    <2>1. queue' = queue /\ lost' = lost \cup {p}
      BY <1>3 DEF Requeue
    <2>2. Distinct(queue)' /\ Entries(queue)' = Entries(queue)
      BY <2>1 DEF Distinct, Entries, Places
    <2>3. Places'
      BY <1>1, <2>1, <2>2 DEF Places, Prompt
    <2>4. Kept
      <3>1. ASSUME NEW q \in Queued, Accepted(q)
            PROVE  q \in Entries(queue)' \/ turn'[q].phase # "none" \/ q \in gone' \cup lost'
        BY <2>1, <2>2, <3>1, AcceptedByEntries DEF Prompt
      <3> QED
        BY <3>1, AcceptedNext DEF Kept
    <2> QED
      BY <2>3, <2>4
  <1> QED
    BY <1>2, <1>3

\* A turn under way, or a direct prompt's, moves on and stays under way.
LEMMA MovePlaces ==
    ASSUME TypeOK, Places, NEW p \in Prompt,
           p \notin Queued \/ (turn[p].phase # "none" /\ turn'[p].phase # "none"),
           \A q \in Prompt : q # p => turn'[q] = turn[q],
           UNCHANGED <<queue, gone, lost>>
    PROVE  Places' /\ Kept
  <1>1. Places'
    BY DEF Places, Prompt
  <1>2. Kept
    BY DEF Kept, Accepted, InQueue, In, Prompt
  <1> QED
    BY <1>1, <1>2

LEMMA DeliversPlaces ==
    ASSUME TypeOK, Places, NEW p \in Queued, Delivers(p)
    PROVE  Places' /\ Kept
  <1>0. p \in Prompt /\ turn[p].on \in Objects
    BY DEF Prompt, TypeOK
  <1>1. CASE HandOver(p)
    <2>1. turn[p].phase = "popped" /\ Move(p, "handed") /\ UNCHANGED <<queue, gone, lost>>
      BY <1>1 DEF HandOver, In
    <2> QED
      BY <1>0, <2>1, MoveMoves, MovePlaces
  <1>2. CASE Admit(p)
    <2>1. turn[p].phase = "handed" /\ Move(p, "setup") /\ UNCHANGED <<queue, gone, lost>>
      BY <1>2 DEF Admit, In
    <2> QED
      BY <1>0, <2>1, MoveMoves, MovePlaces
  <1>3. ASSUME NEW kept \in BOOLEAN, Refuse(p, kept)
        PROVE  Places' /\ Kept
    <2>1. /\ turn[p].phase = "handed" /\ Move(p, "none") /\ gone' = gone
          /\ Requeue(p, turn[p].on, kept)
      BY <1>3 DEF Refuse, In
    <2> QED
      BY <1>0, <2>1, MoveMoves, RequeuePlaces
  <1> QED
    BY <1>1, <1>2, <1>3 DEF Delivers

LEMMA FailsPlaces ==
    ASSUME TypeOK, Places, NEW p \in Prompt, Fails(p)
    PROVE  Places' /\ Kept
  <1>1. PICK kept \in BOOLEAN :
            Undelivered(p, kept) /\ turn[p].phase # "none" /\ gone' = gone
    BY DEF Fails, SaveFails, SetupFails, LaunchFails, In
  <1>2. /\ turn'[p].phase = (IF p \in Queued THEN "none" ELSE "done")
        /\ \A q \in Prompt : q # p => turn'[q] = turn[q]
    BY <1>1, UndeliveredMoves
  <1>3. CASE p \in Queued
    <2>1. Requeue(p, turn[p].on, kept) /\ turn[p].on \in Objects
      BY <1>1, <1>3 DEF Undelivered, TypeOK
    <2> QED
      BY <1>1, <1>2, <1>3, <2>1, RequeuePlaces
  <1>4. CASE p \notin Queued
    <2>1. UNCHANGED <<queue, lost>>
      BY <1>1, <1>4 DEF Undelivered
    <2> QED
      BY <1>1, <1>2, <1>4, <2>1, MovePlaces
  <1> QED
    BY <1>3, <1>4

LEMMA TurnPlaces ==
    ASSUME TypeOK, Places, NEW p \in Prompt, SpawnFails(p) \/ WorkEnds(p) \/ TurnStep(p)
    PROVE  Places' /\ Kept
  <1>1. PICK phase \in Phase \ {"none"} :
            Move(p, phase) /\ turn[p].phase # "none" /\ UNCHANGED <<queue, gone, lost>>
    BY DEF SpawnFails, TurnStep, MarkRunning, Register, Launch, WorkEnds,
           EndTurn, CompleteDrain, Phase, In
  <1> QED
    BY <1>1, MoveMoves, MovePlaces

LEMMA AskPlaces ==
    ASSUME TypeOK, Places, NEW o \in Objects, NEW p \in Direct, Ask(o, p)
    PROVE  Places' /\ Kept
  <1>1. p \in Prompt /\ p \notin Queued
    BY PromptQueueAssumption DEF Prompt
  <1>2. \A q \in Prompt : q # p => turn'[q] = turn[q]
    BY <1>1 DEF Ask, TypeOK
  <1> QED
    BY <1>1, <1>2, MovePlaces DEF Ask

-----------------------------------------------------------------------------
(* Together.                                                               *)

IInv == TypeOK /\ SlotInv /\ Places

LEMMA InitIInv == Init => IInv
  BY InitTypeOK, InitSlotInv, InitPlaces DEF IInv

\* Every step keeps the invariant, and an accepted prompt accepted.
LEMMA NextIInv == IInv /\ [Next]_vars => IInv' /\ Kept
  <1> SUFFICES ASSUME TypeOK, SlotInv, Places, [Next]_vars
               PROVE  TypeOK' /\ SlotInv' /\ Places' /\ Kept
    BY DEF IInv
  <1>1. ASSUME NEW o \in Objects, NEW p \in Queued, Enqueue(o, p)
        PROVE  TypeOK' /\ SlotInv' /\ Places' /\ Kept
    <2>1. /\ ~Accepted(p) /\ queue' = Append(queue, p)
          /\ UNCHANGED <<turn, admission, worker, gone, lost>>
      BY <1>1 DEF Enqueue
    <2> QED
      BY <1>1, <2>1, RequestTypeOK, OtherSlotInv, NewPlaces
  <1>2. ASSUME NEW o \in Objects, NEW p \in Direct, Ask(o, p)
        PROVE  TypeOK' /\ SlotInv' /\ Places' /\ Kept
    BY <1>2, AskTypeOK, AskSlotInv, AskPlaces
  <1>3. ASSUME NEW o \in Objects, DrainQueue(o) \/ Enable(o) \/ Announced(o)
        PROVE  TypeOK' /\ SlotInv' /\ Places' /\ Kept
    <2>1. UNCHANGED <<queue, turn, gone, lost, admission, worker>>
      BY <1>3 DEF DrainQueue, Enable, Announced
    <2> QED
      BY <1>3, <2>1, RequestTypeOK, OtherSlotInv, OtherPlaces
  <1>4. ASSUME NEW o \in Objects, Drain(o)
        PROVE  TypeOK' /\ SlotInv' /\ Places' /\ Kept
    <2>1. TypeOK' /\ SlotInv'
      BY <1>4, DrainTypeOK, DrainSlotInv, PlacesIsOnePlace
    <2>2. ASSUME NEW awaiting \in BOOLEAN, NEW elsewhere \in Abroad,
                 DrainBails(o, awaiting, elsewhere)
          PROVE  Places' /\ Kept
      <3>1. UNCHANGED <<queue, turn, gone, lost>>
        BY <2>2 DEF DrainBails
      <3> QED
        BY <3>1, OtherPlaces
    <2> QED
      BY <1>4, <2>1, <2>2, PopPlaces DEF Drain
  <1>5. ASSUME NEW i \in 1..Cardinality(Queued), Dequeue(i)
        PROVE  TypeOK' /\ SlotInv' /\ Places' /\ Kept
    <2>1. i \in Nat
      <3>1. i \in DOMAIN queue
        BY <1>5 DEF Dequeue
      <3> QED
        BY <3>1 DEF TypeOK
    <2>2. UNCHANGED <<turn, admission, worker>>
      BY <1>5 DEF Dequeue
    <2> QED
      BY <1>5, <2>1, <2>2, EditTypeOK, OtherSlotInv, EditPlaces
  <1>6. CASE ClearQueue
    <2>1. UNCHANGED <<turn, admission, worker>>
      BY <1>6 DEF ClearQueue
    <2> QED
      BY <1>6, <2>1, EditTypeOK, OtherSlotInv, EditPlaces
  <1>7. CASE Disable
    <2>1. UNCHANGED <<queue, turn, gone, lost, admission, worker>>
      BY <1>7 DEF Disable
    <2> QED
      BY <1>7, <2>1, EditTypeOK, OtherSlotInv, OtherPlaces
  <1>8. ASSUME NEW p \in Queued, Stage(p)
        PROVE  TypeOK' /\ SlotInv' /\ Places' /\ Kept
    <2>1. /\ ~Accepted(p) /\ queue' = Append(queue, p)
          /\ UNCHANGED <<turn, admission, worker, gone, lost>>
      BY <1>8 DEF Stage
    <2> QED
      BY <1>8, <2>1, StageTypeOK, OtherSlotInv, NewPlaces
  <1>9. ASSUME NEW p \in Queued, Delivers(p)
        PROVE  TypeOK' /\ SlotInv' /\ Places' /\ Kept
    BY <1>9, DeliversTypeOK, DeliversSlotInv, DeliversPlaces
  <1>10. ASSUME NEW p \in Prompt, Fails(p) \/ SpawnFails(p) \/ WorkEnds(p) \/ TurnStep(p)
         PROVE  TypeOK' /\ SlotInv' /\ Places' /\ Kept
    BY <1>10, TurnTypeOK, TurnSlotInv, FailsPlaces, TurnPlaces
  <1>11. CASE UNCHANGED vars
    <2>1. TypeOK'
      BY <1>11 DEF vars, TypeOK, Status
    <2>2. UNCHANGED <<queue, turn, gone, lost, admission, worker>>
      BY <1>11 DEF vars
    <2> QED
      BY <2>1, <2>2, OtherSlotInv, OtherPlaces
  <1> QED
    BY <1>1, <1>2, <1>3, <1>4, <1>5, <1>6, <1>7, <1>8, <1>9, <1>10, <1>11
       DEF Next, AtRest

LEMMA SpecIInv == Spec => []IInv
  BY InitIInv, NextIInv, PTL DEF Spec

\* The variables keep their types.
THEOREM TypeCorrect == Spec => []TypeOK
  <1>1. IInv => TypeOK
    BY DEF IInv
  <1> QED
    BY <1>1, SpecIInv, PTL

\* The turns of a process never overlap: try_admit_prompt and register_prompt_worker hand
\* over one slot, whatever fails on the way.
THEOREM TurnsExclude == Spec => []OneTurn
  <1>1. IInv => OneTurn
    BY PromptQueueAssumption DEF IInv, SlotInv, OneTurn, HoldsSlot, In
  <1> QED
    BY <1>1, SpecIInv, PTL

\* A queued prompt is in one place: the queue, a drain's hand, a turn, removed or lost.
THEOREM InOnePlace == Spec => []OnePlace
  <1>1. IInv => OnePlace
    BY PlacesIsOnePlace DEF IInv
  <1> QED
    BY <1>1, SpecIInv, PTL

\* ... and never in none: no refusal, failed setup or launch, and no edit drops an
\* accepted prompt; only a queue file that cannot be written does.
THEOREM PromptsAreKept == Spec => NoneDropped
  <1>1. IInv /\ [Next]_vars => [\A p \in Queued : Accepted(p) => Accepted(p)']_vars
    BY NextIInv DEF Kept
  <1> QED
    BY <1>1, SpecIInv, PTL DEF Spec, NoneDropped

-----------------------------------------------------------------------------
(* What empties the queue.                                                 *)

\* A turn under way, or a drain that is scheduled, is somebody to come.
LEMMA UnderIsNotQuiet == ASSUME NEW p \in Prompt, Under(p) PROVE ~Quiet
  BY DEF Quiet

\* A drain finds nothing to do on a queue that waits only if somebody is at work, or it
\* leaves the queue to whoever comes next.
LEMMA BailStrandsNothing ==
    ASSUME TypeOK, SlotInv, NEW o \in Objects, NEW awaiting \in BOOLEAN,
           NEW elsewhere \in Abroad, DrainBails(o, awaiting, elsewhere)
    PROVE  NothingStranded'
  <1> SUFFICES ASSUME Quiet', enabled', queue' # <<>>
               PROVE  left'
    BY DEF NothingStranded
  <1>1. enabled /\ queue # <<>> /\ ~Ready(o, awaiting, elsewhere)
    BY DEF DrainBails
  <1>2. ASSUME NEW p \in Prompt
        PROVE  turn[p].phase \in {"none", "done"}
    <2>1. turn' = turn
      BY DEF DrainBails
    <2> QED
      BY <2>1 DEF Quiet, Under, In
  <1>3. Free
    <2>1. admission \notin Prompt /\ worker \notin Prompt
      BY <1>2 DEF SlotInv, In
    <2> QED
      BY <2>1 DEF TypeOK, Free
  <1>4. ~TaskActive
    BY <1>2 DEF TaskActive, In, TypeOK
  <1>5. elsewhere \/ object[o].flying
    BY <1>1, <1>3, <1>4 DEF Ready, Busy
  <1>6. elsewhere \/ FlagLeftUp(o)
    BY <1>2, <1>5 DEF FlagLeftUp, Flies, In
  <1> QED
    BY <1>1, <1>6 DEF DrainBails

LEMMA DrainStrandsNothing ==
    ASSUME TypeOK, SlotInv, NEW o \in Objects, Drain(o)
    PROVE  NothingStranded'
  <1>1. ASSUME NEW awaiting \in BOOLEAN, NEW elsewhere \in Abroad,
               DrainPops(o, awaiting, elsewhere)
        PROVE  ~Quiet'
    <2> DEFINE p == Head(queue)
    <2>1. p \in Prompt
      BY <1>1 DEF DrainPops, TypeOK, Prompt
    <2>2. turn'[p].phase = "popped"
      BY <1>1, <2>1 DEF DrainPops, TypeOK
    <2> HIDE DEF p
    <2> QED
      BY <2>1, <2>2 DEF Quiet, Under, In
  <1> QED
    BY <1>1, BailStrandsNothing DEF Drain, NothingStranded

\* What is put back is followed by a drain.
LEMMA RequeueStrandsNothing ==
    ASSUME NEW p \in Queued, NEW o \in Objects, NEW kept \in BOOLEAN, Requeue(p, o, kept)
    PROVE  NothingStranded'
  <1>1. queue' # <<>> => o \in due'
    BY DEF Requeue, Chained, Schedule
  <1> QED
    BY <1>1 DEF NothingStranded, Quiet

LEMMA DeliversStrandsNothing ==
    ASSUME TypeOK, NEW p \in Queued, Delivers(p)
    PROVE  NothingStranded'
  <1>0. p \in Prompt /\ turn[p].on \in Objects
    BY DEF Prompt, TypeOK
  <1>1. CASE HandOver(p) \/ Admit(p)
    <2>1. Move(p, "handed") \/ Move(p, "setup")
      BY <1>1 DEF HandOver, Admit
    <2>2. turn'[p].phase \in {"handed", "setup"}
      BY <1>0, <2>1, MoveMoves
    <2> QED
      BY <1>0, <2>2 DEF NothingStranded, Quiet, Under, In
  <1>2. ASSUME NEW kept \in BOOLEAN, Refuse(p, kept)
        PROVE  NothingStranded'
    <2>1. Requeue(p, turn[p].on, kept)
      BY <1>2 DEF Refuse
    <2> QED
      BY <1>0, <2>1, RequeueStrandsNothing
  <1> QED
    BY <1>1, <1>2 DEF Delivers

LEMMA FailsStrandsNothing ==
    ASSUME TypeOK, NEW p \in Prompt, Fails(p)
    PROVE  NothingStranded'
  <1>1. PICK kept \in BOOLEAN : Undelivered(p, kept)
    BY DEF Fails, SaveFails, SetupFails, LaunchFails
  <1>2. CASE p \in Queued
    <2>1. Requeue(p, turn[p].on, kept) /\ turn[p].on \in Objects
      BY <1>1, <1>2 DEF Undelivered, TypeOK
    <2> QED
      BY <1>2, <2>1, RequeueStrandsNothing
  <1>3. CASE p \notin Queued
    <2>1. left'
      BY <1>1, <1>3 DEF Undelivered
    <2> QED
      BY <2>1 DEF NothingStranded
  <1> QED
    BY <1>2, <1>3

LEMMA TurnStrandsNothing ==
    ASSUME TypeOK, NEW p \in Prompt, SpawnFails(p) \/ WorkEnds(p) \/ TurnStep(p)
    PROVE  NothingStranded'
  <1>1. CASE CompleteDrain(p)
    <2>1. turn[p].on \in due'
      BY <1>1 DEF CompleteDrain, AfterTurn, Schedule
    <2> QED
      BY <2>1 DEF NothingStranded, Quiet
  <1>2. CASE SpawnFails(p) \/ WorkEnds(p) \/ MarkRunning(p) \/ Register(p) \/ Launch(p)
               \/ EndTurn(p)
    <2>1. PICK phase \in Phase \ {"none", "done"} : Move(p, phase)
      BY <1>2 DEF SpawnFails, WorkEnds, MarkRunning, Register, Launch, EndTurn, Phase
    <2>2. turn'[p].phase \notin {"none", "done"}
      BY <2>1, MoveMoves
    <2> QED
      BY <2>2 DEF NothingStranded, Quiet, Under, In
  <1> QED
    BY <1>1, <1>2 DEF TurnStep

\* A request is followed by its drain.
LEMMA RequestStrandsNothing ==
    ASSUME TypeOK, NEW o \in Objects,
           (\E p \in Queued : Enqueue(o, p)) \/ DrainQueue(o) \/ Enable(o) \/ Announced(o)
    PROVE  NothingStranded'
  <1>1. CASE (\E p \in Queued : Enqueue(o, p)) \/ Enable(o)
    <2>1. request' = [request EXCEPT ![o] = TRUE]
      BY <1>1 DEF Enqueue, Enable
    <2>2. request'[o]
      BY <2>1 DEF TypeOK
    <2> QED
      BY <2>2 DEF NothingStranded, Quiet
  <1>2. CASE DrainQueue(o) \/ Announced(o)
    <2>1. o \in due'
      BY <1>2 DEF DrainQueue, Announced, Schedule
    <2> QED
      BY <2>1 DEF NothingStranded, Quiet
  <1> QED
    BY <1>1, <1>2

LEMMA EditStrandsNothing ==
    ASSUME TypeOK, NothingStranded, (\E i \in DOMAIN queue : Dequeue(i)) \/ ClearQueue \/ Disable
    PROVE  NothingStranded'
  <1>1. ASSUME NEW i \in DOMAIN queue, Dequeue(i)
        PROVE  NothingStranded'
    <2>1. queue # <<>>
      OBVIOUS
    <2>2. UNCHANGED <<due, request, turn, enabled, left>>
      BY <1>1 DEF Dequeue
    <2>3. Quiet' => Quiet
      BY <2>2 DEF Quiet, Under, In
    <2> QED
      BY <2>1, <2>2, <2>3 DEF NothingStranded
  <1>2. CASE ClearQueue
    BY <1>2 DEF ClearQueue, NothingStranded
  <1>3. CASE Disable
    BY <1>3 DEF Disable, NothingStranded
  <1> QED
    BY <1>1, <1>2, <1>3

LEMMA StepStrandsNothing == IInv /\ NothingStranded /\ [Next]_vars => NothingStranded'
  <1> SUFFICES ASSUME TypeOK, SlotInv, NothingStranded, [Next]_vars
               PROVE  NothingStranded'
    BY DEF IInv
  <1>1. ASSUME NEW o \in Objects, NEW p \in Direct, Ask(o, p)
        PROVE  NothingStranded'
    <2>1. p \in Prompt
      BY DEF Prompt
    <2>2. turn'[p].phase = "setup"
      BY <1>1, <2>1 DEF Ask, TypeOK
    <2> QED
      BY <2>1, <2>2 DEF NothingStranded, Quiet, Under, In
  <1>2. ASSUME NEW p \in Queued, Stage(p)
        PROVE  NothingStranded'
    <2>1. left'
      BY <1>2 DEF Stage
    <2> QED
      BY <2>1 DEF NothingStranded
  <1>3. ASSUME NEW i \in 1..Cardinality(Queued), Dequeue(i)
        PROVE  NothingStranded'
    <2>1. i \in DOMAIN queue
      BY <1>3 DEF Dequeue
    <2> QED
      BY <1>3, <2>1, EditStrandsNothing
  <1>4. CASE UNCHANGED vars
    <2>1. UNCHANGED <<due, request, turn, enabled, left, queue>>
      BY <1>4 DEF vars
    <2> QED
      BY <2>1 DEF NothingStranded, Quiet, Under, In
  <1> QED
    BY <1>1, <1>2, <1>3, <1>4, RequestStrandsNothing, DrainStrandsNothing,
       DeliversStrandsNothing, FailsStrandsNothing, TurnStrandsNothing, EditStrandsNothing
       DEF Next, AtRest

\* Whatever objects, failures and edits: at rest, what waits on an enabled queue was left
\* there by one of the paths that schedule no drain (input, a direct prompt that failed,
\* a drain that met another OS process's turn or a flag that was left up), and no drain
\* has been scheduled since.
THEOREM NobodyStrandsTheQueue == Spec => []NothingStranded
  <1>1. Init => NothingStranded
    BY DEF Init, NothingStranded
  <1> QED
    BY <1>1, StepStrandsNothing, SpecIInv, PTL DEF Spec

-----------------------------------------------------------------------------
(* The steps of PromptDelivery.                                            *)

AllStates == [p \in Prompt |-> StateOf(p)]

\* A step that moves no prompt between its places.
Stays == \A q \in Prompt : StateOf(q)' = StateOf(q)

\* ... and one that moves a single prompt.
Moves(p, s) == StateOf(p)' = s /\ \A q \in Prompt : q # p => StateOf(q)' = StateOf(q)

LEMMA StaysIsStutter == ASSUME Stays PROVE UNCHANGED AllStates
  BY DEF Stays, AllStates

LEMMA MovesIsBecomes ==
    ASSUME NEW p \in Prompt, NEW s, Moves(p, s)
    PROVE  Delivery!Becomes(p, s)
  BY DEF Moves, Delivery!Becomes

\* Where a prompt is, said with the set of entries.
LEMMA StateByEntries ==
    ASSUME NEW p \in Prompt
    PROVE  /\ turn[p].phase \in {"popped", "handed"} => StateOf(p) = "waiting"
           /\ turn[p].phase \in {"setup", "marked", "starting"} => StateOf(p) = "setup"
           /\ turn[p].phase \in {"working", "failing"} => StateOf(p) = "running"
           /\ turn[p].phase \in {"teardown", "ending", "done"} => StateOf(p) = "over"
           /\ turn[p].phase = "none" /\ p \in gone => StateOf(p) = "removed"
           /\ turn[p].phase = "none" /\ p \in lost \ gone => StateOf(p) = "lost"
           /\ turn[p].phase = "none" /\ p \notin gone \cup lost =>
                StateOf(p) = IF p \in Entries(queue) THEN "waiting" ELSE "new"
  BY DEF StateOf, In, InQueue, Entries

LEMMA StateByEntriesNext ==
    ASSUME NEW p \in Prompt
    PROVE  /\ turn'[p].phase \in {"popped", "handed"} => StateOf(p)' = "waiting"
           /\ turn'[p].phase \in {"setup", "marked", "starting"} => StateOf(p)' = "setup"
           /\ turn'[p].phase \in {"working", "failing"} => StateOf(p)' = "running"
           /\ turn'[p].phase \in {"teardown", "ending", "done"} => StateOf(p)' = "over"
           /\ turn'[p].phase = "none" /\ p \in gone' => StateOf(p)' = "removed"
           /\ turn'[p].phase = "none" /\ p \in lost' \ gone' => StateOf(p)' = "lost"
           /\ turn'[p].phase = "none" /\ p \notin gone' \cup lost' =>
                StateOf(p)' = IF p \in Entries(queue)' THEN "waiting" ELSE "new"
  BY DEF StateOf, In, InQueue, Entries

\* A prompt that nothing is done to stays where it is.
LEMMA SamePlace ==
    ASSUME NEW q \in Prompt, turn'[q] = turn[q],
           q \in Entries(queue)' <=> q \in Entries(queue),
           q \in gone' <=> q \in gone, q \in lost' <=> q \in lost
    PROVE  StateOf(q)' = StateOf(q)
  BY DEF StateOf, In, InQueue, Entries

\* A free slot is the slot of nobody's setup and nobody's work.
LEMMA FreeIsAlone ==
    ASSUME TypeOK, SlotInv, Free
    PROVE  Delivery!Alone
  <1>1. ASSUME NEW p \in Prompt
        PROVE  StateOf(p) \notin {"setup", "running"}
    <2>1. admission # p /\ worker # p
      BY PromptQueueAssumption DEF Free
    <2>2. turn[p].phase \in {"none", "popped", "handed", "teardown", "ending", "done"}
      BY <2>1 DEF TypeOK, Phase, SlotInv, In
    <2>3. CASE turn[p].phase = "none"
      <3>1. StateOf(p) \in {"removed", "lost", "waiting", "new"}
        BY <2>3, StateByEntries
      <3> QED
        BY <3>1
    <2> QED
      BY <2>2, <2>3, StateByEntries
  <1> QED
    BY <1>1 DEF Delivery!Alone, Delivery!Prompt, Prompt

\* A prompt sent without the queue is on none of its ways.
LEMMA DirectIsNew ==
    ASSUME TypeOK, NEW p \in Direct, turn[p].phase = "none"
    PROVE  StateOf(p) = "new"
  <1>1. p \notin gone \cup lost /\ p \notin Entries(queue) /\ p \in Prompt
    BY PromptQueueAssumption DEF TypeOK, Entries, Prompt
  <1> QED
    BY <1>1, StateByEntries

LEMMA NewDelivers ==
    ASSUME TypeOK, Places, NEW p \in Queued, ~Accepted(p), queue' = Append(queue, p),
           UNCHANGED <<turn, gone, lost>>
    PROVE  Delivery!Accept(p)
  <1>1. p \notin Entries(queue) /\ turn[p].phase = "none" /\ p \notin gone \cup lost /\ p \in Prompt
    BY AcceptedByEntries DEF Prompt
  <1>2. Entries(queue)' = Entries(queue) \cup {p}
    BY <1>1, AppendEntries DEF TypeOK, Places
  <1>3. StateOf(p) = "new"
    BY <1>1, StateByEntries
  <1>4. StateOf(p)' = "waiting"
    BY <1>1, <1>2, StateByEntriesNext
  <1>5. \A q \in Prompt : q # p => StateOf(q)' = StateOf(q)
    BY <1>2, SamePlace
  <1> QED
    BY <1>1, <1>3, <1>4, <1>5, MovesIsBecomes DEF Delivery!Accept, Moves

LEMMA EditDelivers ==
    ASSUME TypeOK, Places, (\E i \in Nat : Dequeue(i)) \/ ClearQueue
    PROVE  \E some \in SUBSET Queued : Delivery!Remove(some)
  <1>1. PICK out \in SUBSET Queued :
            /\ out \subseteq Entries(queue) /\ gone' = gone \cup out
            /\ Entries(queue)' = Entries(queue) \ out /\ UNCHANGED <<turn, lost>>
    BY EditTakesOut
  <1>2. ASSUME NEW q \in out PROVE StateOf(q) = "waiting" /\ StateOf(q)' = "removed"
    <2>1. q \in Prompt /\ q \in Queued /\ q \in Entries(queue)
      BY <1>1 DEF Prompt
    <2>2. turn[q].phase = "none" /\ q \notin gone \cup lost
      BY <2>1 DEF Places
    <2>3. StateOf(q) = "waiting"
      BY <2>1, <2>2, StateByEntries
    <2>4. StateOf(q)' = "removed"
      BY <1>1, <2>1, <2>2, StateByEntriesNext
    <2> QED
      BY <2>3, <2>4
  <1>3. ASSUME NEW q \in Prompt, q \notin out PROVE StateOf(q)' = StateOf(q)
    BY <1>1, <1>3, SamePlace
  <1>4. Delivery!Remove(out)
    BY <1>1, <1>2, <1>3 DEF Delivery!Remove, Delivery!Prompt, Prompt
  <1> QED
    BY <1>4

\* A drain that takes the head moves nothing: it waits on.
LEMMA DrainStays ==
    ASSUME TypeOK, Places, NEW o \in Objects, Drain(o)
    PROVE  Stays
  <1>1. ASSUME NEW awaiting \in BOOLEAN, NEW elsewhere \in Abroad,
               DrainBails(o, awaiting, elsewhere)
        PROVE  Stays
    BY <1>1 DEF DrainBails, Stays, StateOf, In, InQueue
  <1>2. ASSUME NEW awaiting \in BOOLEAN, NEW elsewhere \in Abroad,
               DrainPops(o, awaiting, elsewhere)
        PROVE  Stays
    <2>0. PICK p : p = Head(queue)
      OBVIOUS
    <2>1. queue # <<>> /\ queue' = Tail(queue) /\ UNCHANGED <<gone, lost>>
      BY <1>2 DEF DrainPops, Rest
    <2>2. p \in Queued /\ p \in Prompt /\ p \in Entries(queue)
            /\ Entries(queue)' = Entries(queue) \ {p}
      BY <2>0, <2>1, TailEntries DEF TypeOK, Places, Prompt
    <2>3. turn'[p].phase = "popped" /\ \A q \in Prompt : q # p => turn'[q] = turn[q]
      BY <1>2, <2>0, <2>2 DEF DrainPops, TypeOK
    <2>4. turn[p].phase = "none" /\ p \notin gone \cup lost
      BY <2>2 DEF Places
    <2>5. StateOf(p) = "waiting" /\ StateOf(p)' = "waiting"
      BY <2>2, <2>3, <2>4, StateByEntries, StateByEntriesNext
    <2>6. \A q \in Prompt : q # p => StateOf(q)' = StateOf(q)
      BY <2>1, <2>2, <2>3, SamePlace
    <2> QED
      BY <2>5, <2>6 DEF Stays
  <1> QED
    BY <1>1, <1>2 DEF Drain

\* What is put back waits, and what could not be is lost.
LEMMA RequeueMoves ==
    ASSUME TypeOK, Places, NEW p \in Queued, NEW o \in Objects, NEW kept \in BOOLEAN,
           Requeue(p, o, kept), turn[p].phase # "none", turn'[p].phase = "none",
           \A q \in Prompt : q # p => turn'[q] = turn[q], gone' = gone
    PROVE  Moves(p, "waiting") \/ Moves(p, "lost")
  <1>1. p \in Prompt /\ p \notin Entries(queue) /\ p \notin gone \cup lost
    BY DEF Places, Prompt
  <1>2. CASE kept
    <2>1. queue' = Append(queue, p) /\ lost' = lost
      BY <1>2 DEF Requeue
    <2>2. Entries(queue)' = Entries(queue) \cup {p}
      BY <1>1, <2>1, AppendEntries DEF TypeOK, Places
    <2>3. StateOf(p)' = "waiting"
      BY <1>1, <2>1, <2>2, StateByEntriesNext
    <2>4. \A q \in Prompt : q # p => StateOf(q)' = StateOf(q)
      BY <2>1, <2>2, SamePlace
    <2> QED
      BY <2>3, <2>4 DEF Moves
  <1>3. CASE ~kept
    <2>1. queue' = queue /\ lost' = lost \cup {p}
      BY <1>3 DEF Requeue
    <2>2. Entries(queue)' = Entries(queue)
      BY <2>1 DEF Entries
    <2>3. StateOf(p)' = "lost"
      BY <1>1, <2>1, StateByEntriesNext
    <2>4. \A q \in Prompt : q # p => StateOf(q)' = StateOf(q)
      BY <2>1, <2>2, SamePlace
    <2> QED
      BY <2>3, <2>4 DEF Moves
  <1> QED
    BY <1>2, <1>3

\* A prompt that waits and waits on does not move.
LEMMA WaitsOn ==
    ASSUME NEW p \in Prompt, StateOf(p) = "waiting", Moves(p, "waiting")
    PROVE  Stays
  BY DEF Moves, Stays

LEMMA DeliversDelivers ==
    ASSUME TypeOK, SlotInv, Places, NEW p \in Queued, Delivers(p)
    PROVE  Delivery!Setup(p) \/ Delivery!Lose(p) \/ Stays
  <1>0. p \in Prompt /\ turn[p].on \in Objects
    BY DEF Prompt, TypeOK
  <1>1. StateOf(p) = "waiting"
    BY <1>0, StateByEntries DEF Delivers, HandOver, Admit, Refuse, In
  <1>2. ASSUME NEW phase, Move(p, phase), UNCHANGED <<queue, gone, lost>>
        PROVE  \A q \in Prompt : q # p => StateOf(q)' = StateOf(q)
    BY <1>0, <1>2, MoveMoves, SamePlace DEF Entries
  <1>3. CASE HandOver(p)
    <2>1. Move(p, "handed") /\ UNCHANGED <<queue, gone, lost>>
      BY <1>3 DEF HandOver
    <2>2. StateOf(p)' = "waiting"
      BY <1>0, <2>1, MoveMoves, StateByEntriesNext
    <2> QED
      BY <1>0, <1>1, <1>2, <2>1, <2>2, WaitsOn DEF Moves
  <1>4. CASE Admit(p)
    <2>1. Free /\ Move(p, "setup") /\ UNCHANGED <<queue, gone, lost>>
      BY <1>4 DEF Admit
    <2>2. StateOf(p)' = "setup"
      BY <1>0, <2>1, MoveMoves, StateByEntriesNext
    <2>3. Moves(p, "setup")
      BY <1>2, <2>1, <2>2 DEF Moves
    <2> QED
      BY <1>0, <1>1, <2>1, <2>3, FreeIsAlone, MovesIsBecomes DEF Delivery!Setup
  <1>5. ASSUME NEW kept \in BOOLEAN, Refuse(p, kept)
        PROVE  Delivery!Lose(p) \/ Stays
    <2>1. /\ turn[p].phase # "none" /\ Move(p, "none") /\ gone' = gone
          /\ Requeue(p, turn[p].on, kept)
      BY <1>5 DEF Refuse, In
    <2>2. Moves(p, "waiting") \/ Moves(p, "lost")
      BY <1>0, <2>1, MoveMoves, RequeueMoves
    <2> QED
      BY <1>0, <1>1, <2>2, WaitsOn, MovesIsBecomes DEF Delivery!Lose
  <1> QED
    BY <1>3, <1>4, <1>5 DEF Delivers

LEMMA AskDelivers ==
    ASSUME TypeOK, SlotInv, NEW o \in Objects, NEW p \in Direct, Ask(o, p)
    PROVE  Delivery!Setup(p)
  <1>1. p \in Prompt /\ p \notin Queued
    BY PromptQueueAssumption DEF Prompt
  <1>2. StateOf(p) = "new"
    BY DirectIsNew DEF Ask, In
  <1>3. /\ turn'[p].phase = "setup" /\ \A q \in Prompt : q # p => turn'[q] = turn[q]
        /\ Entries(queue)' = Entries(queue) /\ UNCHANGED <<gone, lost>>
    BY <1>1 DEF Ask, TypeOK, Entries
  <1>4. Moves(p, "setup")
    BY <1>1, <1>3, StateByEntriesNext, SamePlace DEF Moves
  <1>5. Free
    BY DEF Ask
  <1> QED
    BY <1>1, <1>2, <1>4, <1>5, FreeIsAlone, MovesIsBecomes DEF Delivery!Setup

LEMMA FailsDelivers ==
    ASSUME TypeOK, Places, NEW p \in Prompt, Fails(p)
    PROVE  Delivery!SetupFails(p) \/ Delivery!Lose(p) \/ Stays
  <1>1. PICK kept \in BOOLEAN :
            /\ Undelivered(p, kept) /\ gone' = gone
            /\ \/ turn[p].phase \in {"setup", "marked", "starting"}
               \/ turn[p].phase = "handed" /\ p \in Queued
    BY DEF Fails, SaveFails, SetupFails, LaunchFails, In
  <1>2. /\ turn'[p].phase = (IF p \in Queued THEN "none" ELSE "done")
        /\ \A q \in Prompt : q # p => turn'[q] = turn[q]
    BY <1>1, UndeliveredMoves
  <1>3. StateOf(p) \in {"waiting", "setup"}
    BY <1>1, StateByEntries
  <1>4. CASE p \in Queued
    <2>1. Requeue(p, turn[p].on, kept) /\ turn[p].on \in Objects
      BY <1>1, <1>4 DEF Undelivered, TypeOK
    <2>2. Moves(p, "waiting") \/ Moves(p, "lost")
      BY <1>1, <1>2, <1>4, <2>1, RequeueMoves
    <2> QED
      BY <1>3, <1>4, <2>2, WaitsOn, MovesIsBecomes DEF Delivery!SetupFails, Delivery!Lose
  <1>5. CASE p \notin Queued
    <2>1. StateOf(p) = "setup"
      BY <1>1, <1>5, StateByEntries
    <2>2. UNCHANGED <<queue, lost>>
      BY <1>1, <1>5 DEF Undelivered
    <2>3. Moves(p, "over")
      BY <1>1, <1>2, <1>5, <2>2, StateByEntriesNext, SamePlace DEF Moves, Entries
    <2> QED
      BY <1>5, <2>1, <2>3, MovesIsBecomes DEF Delivery!SetupFails
  <1> QED
    BY <1>4, <1>5

\* A turn runs once its task exists, and is over when its worker is through.
LEMMA TurnDelivers ==
    ASSUME TypeOK, NEW p \in Prompt, SpawnFails(p) \/ WorkEnds(p) \/ TurnStep(p)
    PROVE  Delivery!Run(p) \/ Delivery!End(p) \/ Stays
  <1>1. PICK phase \in Phase :
            /\ Move(p, phase) /\ UNCHANGED <<queue, gone, lost>>
            /\ \/ turn[p].phase = "starting" /\ phase = "working"
               \/ turn[p].phase \in {"working", "failing"} /\ phase = "teardown"
               \/ turn[p].phase = "working" /\ phase = "failing"
               \/ turn[p].phase = "setup" /\ phase = "marked"
               \/ turn[p].phase = "marked" /\ phase = "starting"
               \/ turn[p].phase = "teardown" /\ phase = "ending"
               \/ turn[p].phase = "ending" /\ phase = "done"
    BY DEF SpawnFails, TurnStep, MarkRunning, Register, Launch, WorkEnds,
           EndTurn, CompleteDrain, Phase, In
  <1>2. turn'[p].phase = phase /\ \A q \in Prompt : q # p => turn'[q] = turn[q]
    BY <1>1, MoveMoves
  <1>3. \A q \in Prompt : q # p => StateOf(q)' = StateOf(q)
    BY <1>1, <1>2, SamePlace DEF Entries
  <1>4. CASE turn[p].phase = "starting" /\ phase = "working"
    <2>1. StateOf(p) = "setup" /\ StateOf(p)' = "running"
      BY <1>2, <1>4, StateByEntries, StateByEntriesNext
    <2> QED
      BY <1>3, <2>1, MovesIsBecomes DEF Delivery!Run, Moves
  <1>5. CASE turn[p].phase \in {"working", "failing"} /\ phase = "teardown"
    <2>1. StateOf(p) = "running" /\ StateOf(p)' = "over"
      BY <1>2, <1>5, StateByEntries, StateByEntriesNext
    <2> QED
      BY <1>3, <2>1, MovesIsBecomes DEF Delivery!End, Moves
  <1>6. CASE \/ turn[p].phase = "working" /\ phase = "failing"
             \/ turn[p].phase = "setup" /\ phase = "marked"
             \/ turn[p].phase = "marked" /\ phase = "starting"
             \/ turn[p].phase = "teardown" /\ phase = "ending"
             \/ turn[p].phase = "ending" /\ phase = "done"
    <2>1. StateOf(p)' = StateOf(p)
      BY <1>2, <1>6, StateByEntries, StateByEntriesNext
    <2> QED
      BY <1>3, <2>1 DEF Stays
  <1> QED
    BY <1>1, <1>4, <1>5, <1>6

LEMMA InitDelivers == Init => Delivery!Init
  <1> SUFFICES ASSUME Init PROVE Delivery!Init
    OBVIOUS
  <1>1. ASSUME NEW p \in Prompt PROVE StateOf(p) = "new"
    <2>1. turn[p].phase = "none" /\ p \notin gone \cup lost /\ p \notin Entries(queue)
      BY DEF Init, Entries
    <2> QED
      BY <2>1, StateByEntries
  <1> QED
    BY <1>1 DEF Delivery!Init, Delivery!Prompt, Prompt

LEMMA StepDelivers == IInv /\ [Next]_vars => [Delivery!Next]_AllStates
  <1> SUFFICES ASSUME TypeOK, SlotInv, Places, [Next]_vars
               PROVE  Delivery!Next \/ Stays
    BY StaysIsStutter DEF IInv
  <1>0. Prompt = Delivery!Prompt /\ Queued \subseteq Prompt /\ Direct \subseteq Prompt
    BY DEF Prompt, Delivery!Prompt
  <1>1. ASSUME NEW o \in Objects, NEW p \in Queued, Enqueue(o, p) PROVE Delivery!Next
    <2>1. Delivery!Accept(p)
      BY <1>1, NewDelivers DEF Enqueue
    <2> QED
      BY <1>0, <2>1 DEF Delivery!Next
  <1>2. ASSUME NEW p \in Queued, Stage(p) PROVE Delivery!Next
    <2>1. Delivery!Accept(p)
      BY <1>2, NewDelivers DEF Stage
    <2> QED
      BY <1>0, <2>1 DEF Delivery!Next
  <1>3. ASSUME NEW o \in Objects, NEW p \in Direct, Ask(o, p) PROVE Delivery!Next
    <2>1. Delivery!Setup(p)
      BY <1>3, AskDelivers
    <2> QED
      BY <1>0, <2>1 DEF Delivery!Next
  <1>4. ASSUME NEW o \in Objects, DrainQueue(o) \/ Enable(o) \/ Announced(o) PROVE Stays
    BY <1>4 DEF DrainQueue, Enable, Announced, Stays, StateOf, In, InQueue
  <1>5. ASSUME (\E i \in 1..Cardinality(Queued) : Dequeue(i)) \/ ClearQueue
        PROVE  Delivery!Next
    <2>1. ASSUME NEW i \in 1..Cardinality(Queued), Dequeue(i) PROVE i \in Nat
      <3>1. i \in DOMAIN queue
        BY <2>1 DEF Dequeue
      <3> QED
        BY <3>1 DEF TypeOK
    <2>2. (\E i \in Nat : Dequeue(i)) \/ ClearQueue
      BY <1>5, <2>1
    <2> QED
      BY <2>2, EditDelivers DEF Delivery!Next
  <1>6. CASE Disable \/ UNCHANGED vars
    BY <1>6 DEF Disable, vars, Stays, StateOf, In, InQueue
  <1>7. ASSUME NEW p \in Queued, Delivers(p) PROVE Delivery!Next \/ Stays
    <2>1. Delivery!Setup(p) \/ Delivery!Lose(p) \/ Stays
      BY <1>7, DeliversDelivers
    <2> QED
      BY <1>0, <2>1 DEF Delivery!Next
  <1>8. ASSUME NEW p \in Prompt, Fails(p) PROVE Delivery!Next \/ Stays
    <2>1. Delivery!SetupFails(p) \/ Delivery!Lose(p) \/ Stays
      BY <1>8, FailsDelivers
    <2> QED
      BY <1>0, <2>1 DEF Delivery!Next
  <1>9. ASSUME NEW p \in Prompt, SpawnFails(p) \/ WorkEnds(p) \/ TurnStep(p)
        PROVE  Delivery!Next \/ Stays
    BY <1>0, <1>9, TurnDelivers DEF Delivery!Next
  <1> QED
    BY <1>1, <1>2, <1>3, <1>4, <1>5, <1>6, <1>7, <1>8, <1>9, DrainStays DEF Next, AtRest

\* Whatever objects, drains and failures: a prompt has the process to itself from its
\* setup to the end of its work, is never delivered again once its work has started, and
\* never starts after its removal.
THEOREM QueueImplementsDelivery == Spec => ImplementsDelivery
  <1>1. IInv /\ [Next]_vars => [Delivery!Next]_AllStates
    BY StepDelivers
  <1> QED
    BY <1>1, InitDelivers, SpecIInv, PTL
       DEF Spec, ImplementsDelivery, Delivery!Spec, AllStates
=============================================================================
