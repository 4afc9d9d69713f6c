--------------------------- MODULE IngestSync_proof ---------------------------
(***************************************************************************)
(* For any records, lanes, changes and failures: the position a source's   *)
(* row holds never covers a record that is not on this machine, as long as *)
(* reflection reaches the origin of every file; the poll slot has exactly  *)
(* one owner while it is taken, and what was asked for meanwhile is read.  *)
(***************************************************************************)
EXTENDS IngestSync, TLAPS, FiniteSetTheorems

-----------------------------------------------------------------------------
(* Types.                                                                  *)

LEMMA IdleType == Idle \in LaneType /\ NewPosition \in Position /\ Nothing \in Versions
  BY IngestSyncAssumption
     DEF Idle, NewPosition, Nothing, LaneType, Position, Versions, Time, Pc, Health

\* The two ways in which a failure is classified.
Failures == {"transient_error", "config_error"}

LEMMA InitTypeOK == Init => TypeOK
  <1>1. 0 \in Time /\ 0 \in 0..MaxFaults
    BY IngestSyncAssumption DEF Time
  <1> QED
    BY <1>1, IdleType DEF Init, TypeOK

LEMMA OutsideTypeOK ==
    ASSUME TypeOK, NEW k \in Keys, Change(k) \/ Remove(k)
    PROVE  TypeOK'
  <1>1. clock' \in Time /\ up' \in Versions
    BY IngestSyncAssumption DEF Change, Remove, TypeOK, Time, Versions
  <1> QED
    BY <1>1 DEF Change, Remove, TypeOK

\* A lane that moves.
LEMMA GotoType ==
    ASSUME TypeOK, NEW l \in Lanes, NEW ln \in LaneType, Goto(l, ln)
    PROVE  lane' \in [Lanes -> LaneType]
  BY DEF Goto, TypeOK

LEMMA ReachedType ==
    ASSUME TypeOK, NEW ln \in LaneType
    PROVE  Reached(ln) \in Position /\ \A h \in Health : Kept(ln, h) \in Position
  <1>1. Reached(ln) \in Position
    BY IdleType, IngestSyncAssumption DEF Reached, LaneType, Position, Time, Health
  <1>2. \A h \in Health : Kept(ln, h) \in Position
    BY DEF Kept, LaneType, Position
  <1> QED
    BY <1>1, <1>2

LEMMA StartTypeOK ==
    ASSUME TypeOK, NEW l \in Lanes,
           \/ (\E beat \in BOOLEAN : Load(l, beat)) \/ SyncNow(l) \/ Unlatch(l)
           \/ Claim(l) \/ ClaimRefused(l) \/ PollNow(l)
    PROVE  TypeOK'
  <1>0. lane[l] \in LaneType /\ lane[l].at \in Position /\ Idle \in LaneType /\ pos \in Position
    BY IdleType DEF TypeOK, LaneType
  <1>1. CASE (\E beat \in BOOLEAN : Load(l, beat)) \/ SyncNow(l) \/ Unlatch(l)
    <2>1. \A pc \in Pc : [Idle EXCEPT !.pc = pc, !.at = pos] \in LaneType
      BY <1>0 DEF LaneType
    <2>2. \E pc \in Pc : Goto(l, [Idle EXCEPT !.pc = pc, !.at = pos])
      BY <1>1 DEF Load, SyncNow, Unlatch, Pc
    <2>3. lane' \in [Lanes -> LaneType]
      BY <2>1, <2>2, GotoType
    <2> QED
      BY <1>1, <2>3 DEF Load, SyncNow, Unlatch, TypeOK
  <1>2. CASE Claim(l)
    <2>1. [lane[l] EXCEPT !.pc = "claimed", !.polls = TRUE] \in LaneType
      BY <1>0 DEF LaneType, Pc
    <2>2. lane' \in [Lanes -> LaneType]
      BY <1>2, <2>1, GotoType DEF Claim
    <2> QED
      BY <1>2, <2>2 DEF Claim, TypeOK
  <1>3. CASE ClaimRefused(l) \/ PollNow(l)
    <2>1. lane' \in [Lanes -> LaneType]
      BY <1>0, <1>3, GotoType DEF ClaimRefused, PollNow
    <2>2. pos' \in Position
      <3>1. \A h \in Health : [lane[l].at EXCEPT !.health = h] \in Position
        BY <1>0 DEF Position
      <3> QED
        BY <1>0, <1>3, <3>1 DEF ClaimRefused, PollNow, Health
    <2> QED
      BY <1>3, <2>1, <2>2 DEF ClaimRefused, PollNow, TypeOK
  <1> QED
    BY <1>1, <1>2, <1>3

LEMMA LockTypeOK ==
    ASSUME TypeOK, NEW l \in Lanes, PreSchedule(l) \/ PreScheduleFails(l) \/ Acquire(l)
    PROVE  TypeOK'
  <1>0. lane[l] \in LaneType /\ lane[l].at \in Position
    BY DEF TypeOK, LaneType
  <1>1. \A pc \in Pc : [lane[l] EXCEPT !.pc = pc] \in LaneType
    BY <1>0 DEF LaneType
  <1>2. lane' \in [Lanes -> LaneType]
    BY <1>1, GotoType DEF PreSchedule, PreScheduleFails, Acquire, Pc
  <1>3. faults' \in 0..MaxFaults
    BY IngestSyncAssumption DEF PreSchedule, PreScheduleFails, Acquire, TypeOK
  <1> QED
    BY <1>0, <1>2, <1>3 DEF PreSchedule, PreScheduleFails, Acquire, TypeOK

LEMMA PassTypeOK ==
    ASSUME TypeOK, NEW l \in Lanes,
           \/ Traverse(l) \/ (\E k \in Keys, reached \in BOOLEAN : Place(l, k, reached))
           \/ DropGone(l)
    PROVE  TypeOK'
  <1>0. lane[l] \in LaneType /\ \A k \in Keys : lane[l].snap[k] \in Time
    BY DEF TypeOK, LaneType, Versions
  <1>1. CASE Traverse(l)
    <2>1. Found(up, lane[l].at) \subseteq Keys
      BY IngestSyncAssumption DEF Found, TypeOK
    <2>2. [lane[l] EXCEPT !.pc = "placing", !.snap = up, !.upto = clock,
                          !.todo = Found(up, lane[l].at)] \in LaneType
      BY <1>0, <2>1 DEF TypeOK, LaneType, Pc
    <2>3. lane' \in [Lanes -> LaneType]
      BY <1>1, <2>2, GotoType DEF Traverse
    <2> QED
      BY <1>1, <2>3 DEF Traverse, TypeOK
  <1>2. ASSUME NEW k \in Keys, NEW reached \in BOOLEAN, Place(l, k, reached)
        PROVE  TypeOK'
    <2>1. [lane[l] EXCEPT !.todo = lane[l].todo \ {k}] \in LaneType
      BY <1>0 DEF LaneType
    <2>2. lane' \in [Lanes -> LaneType]
      BY <1>2, <2>1, GotoType DEF Place
    <2>3. stored' \in Versions
      BY <1>0, <1>2 DEF Place, TypeOK, Versions
    <2> QED
      BY <1>2, <2>2, <2>3 DEF Place, TypeOK
  <1>3. CASE DropGone(l)
    <2>1. [lane[l] EXCEPT !.pc = "ending"] \in LaneType
      BY <1>0 DEF LaneType, Pc
    <2>2. lane' \in [Lanes -> LaneType]
      BY <1>3, <2>1, GotoType DEF DropGone
    <2>3. stored' \in Versions
      BY <1>3, IngestSyncAssumption DEF DropGone, TypeOK, Versions, Time
    <2> QED
      BY <1>3, <2>2, <2>3 DEF DropGone, TypeOK
  <1> QED
    BY <1>1, <1>2, <1>3

LEMMA EndTypeOK ==
    ASSUME TypeOK, NEW l \in Lanes, SavePosition(l) \/ (\E h \in Failures : PassFails(l, h)) \/ Release(l)
           \/ CycleRaises(l)
    PROVE  TypeOK'
  <1>0. lane[l] \in LaneType /\ 0 \in Time
    BY IngestSyncAssumption DEF TypeOK, Time
  <1>1. CASE SavePosition(l)
    <2>1. Reached(lane[l]) \in Position
      BY <1>0, ReachedType
    <2>2. [lane[l] EXCEPT !.pc = "after", !.at = Reached(lane[l]),
                          !.snap = Nothing, !.upto = 0] \in LaneType
      BY <1>0, <2>1, IdleType DEF LaneType, Pc
    <2>3. lane' \in [Lanes -> LaneType]
      BY <1>1, <2>2, GotoType DEF SavePosition
    <2>4. owed' \in Time
      BY <1>0, <1>1 DEF SavePosition, TypeOK
    <2> QED
      BY <1>1, <2>1, <2>3, <2>4 DEF SavePosition, TypeOK
  <1>2. ASSUME NEW h \in Failures, PassFails(l, h) PROVE TypeOK'
    <2>1. Kept(lane[l], h) \in Position
      BY <1>0, ReachedType DEF Failures, Health
    <2>2. [lane[l] EXCEPT !.pc = "after", !.at = Kept(lane[l], h),
                          !.snap = Nothing, !.upto = 0, !.todo = {}] \in LaneType
      BY <1>0, <2>1, IdleType DEF LaneType, Pc
    <2>3. lane' \in [Lanes -> LaneType]
      BY <1>2, <2>2, GotoType DEF PassFails
    <2>4. faults' \in 0..MaxFaults
      <3>1. faults < MaxFaults /\ faults' = faults + 1
        BY <1>2 DEF PassFails
      <3>2. faults \in 0..MaxFaults
        BY DEF TypeOK
      <3> QED
        BY <3>1, <3>2, IngestSyncAssumption
    <2>5. owed' \in Time
      BY <1>0, <1>2 DEF PassFails, TypeOK
    <2> QED
      BY <1>2, <2>1, <2>3, <2>4, <2>5 DEF PassFails, TypeOK
  <1>3. CASE Release(l)
    <2>1. [lane[l] EXCEPT !.pc = "lock"] \in LaneType
      BY <1>0 DEF LaneType, Pc
    <2>2. lane' \in [Lanes -> LaneType]
      BY <1>3, <2>1, IdleType, GotoType DEF Release
    <2>3. inflight' \in BOOLEAN /\ again' \in BOOLEAN
      BY <1>0, <1>3 DEF Release, StillInflight, TypeOK, LaneType
    <2> QED
      BY <1>3, <2>2, <2>3 DEF Release, TypeOK
  <1>4. CASE CycleRaises(l)
    <2>1. faults' \in 0..MaxFaults
      BY <1>4, IngestSyncAssumption DEF CycleRaises, TypeOK
    <2>4. owed' \in Time
      BY <1>0, <1>4 DEF CycleRaises, TypeOK
    <2>2. lane' \in [Lanes -> LaneType]
      BY <1>4, IdleType, GotoType DEF CycleRaises
    <2>3. inflight' \in BOOLEAN /\ again' \in BOOLEAN
      BY <1>0, <1>4 DEF CycleRaises, StillInflight, TypeOK, LaneType
    <2> QED
      BY <1>4, <2>1, <2>2, <2>3, <2>4 DEF CycleRaises, TypeOK
  <1> QED
    BY <1>1, <1>2, <1>3, <1>4

LEMMA CrashTypeOK ==
    ASSUME TypeOK, FollowUp \/ Crash
    PROVE  TypeOK'
  <1>1. CASE FollowUp
    BY <1>1 DEF FollowUp, TypeOK
  <1>2. CASE Crash
    <2>1. faults' \in 0..MaxFaults /\ owed' \in Time
      BY <1>2, IngestSyncAssumption DEF Crash, TypeOK, Time
    <2>2. lane' \in [Lanes -> LaneType]
      BY <1>2, IdleType DEF Crash
    <2> QED
      BY <1>2, <2>1, <2>2 DEF Crash, TypeOK
  <1> QED
    BY <1>1, <1>2

-----------------------------------------------------------------------------
(* Positions, and the pass that reads.                                     *)

Held == {"cycle", "placing", "ending", "after"}
Reading(ln) == ln.pc \in {"placing", "ending"}

\* A position that lies no later than t.
Past(p, t) == p.cursor <= t /\ \A k \in Keys : p.manifest[k] <= t

\* A position that covers nothing that is not stored.
Safe(p) == \A k \in Keys : Covers(p, k) => stored[k] = up[k]

\* What a reading pass has in its hands: the outside system as it was at upto, since when
\* a record either stayed, went, or changed later than that; and what it no longer has to
\* place is stored.
Sound(ln) ==
    /\ ln.upto <= clock
    /\ \A k \in Keys : /\ ln.snap[k] <= ln.upto
                       /\ up[k] = ln.snap[k] \/ up[k] = 0 \/ up[k] > ln.upto
                       /\ k \notin ln.todo => ln.snap[k] = 0 \/ stored[k] = ln.snap[k]

\* Every position in the system is safe and past; no position is later than what the one
\* reading pass has read.
GapInv ==
    /\ \A k \in Keys : up[k] <= clock
    /\ Safe(pos) /\ Past(pos, clock)
    /\ \A l \in Lanes : Safe(lane[l].at) /\ Past(lane[l].at, clock)
    /\ \A l \in Lanes : lane[l].pc \in Held => cycle = l
    /\ \A l \in Lanes : Reading(lane[l]) =>
         /\ Sound(lane[l]) /\ Past(pos, lane[l].upto)
         /\ \A j \in Lanes : Past(lane[j].at, lane[l].upto)
         /\ lane[l].pc = "ending" => lane[l].todo = {}

LEMMA NewPositionFits ==
    ASSUME NEW t \in Nat, \A k \in Keys : up[k] \in Nat
    PROVE  Past(NewPosition, t) /\ Safe(NewPosition)
  BY DEF Past, Safe, NewPosition, Nothing, Covers

LEMMA TimesAreNat ==
    ASSUME TypeOK
    PROVE  /\ clock \in Nat
           /\ \A k \in Keys : up[k] \in Nat /\ stored[k] \in Nat
           /\ pos.cursor \in Nat /\ \A k \in Keys : pos.manifest[k] \in Nat
           /\ \A l \in Lanes : /\ lane[l].at.cursor \in Nat /\ lane[l].upto \in Nat
                               /\ \A k \in Keys : lane[l].at.manifest[k] \in Nat
                                                  /\ lane[l].snap[k] \in Nat
  <1>1. \A t \in Time : t \in Nat
    BY IngestSyncAssumption DEF Time
  <1>2. clock \in Time /\ \A k \in Keys : up[k] \in Time /\ stored[k] \in Time
    BY DEF TypeOK, Versions
  <1>3. pos.cursor \in Time /\ \A k \in Keys : pos.manifest[k] \in Time
    BY DEF TypeOK, Position, Versions
  <1>4. ASSUME NEW l \in Lanes
        PROVE  /\ lane[l].at.cursor \in Time /\ lane[l].upto \in Time
               /\ \A k \in Keys : lane[l].at.manifest[k] \in Time /\ lane[l].snap[k] \in Time
    <2>1. lane[l] \in LaneType
      BY DEF TypeOK
    <2>2. lane[l].at \in Position /\ lane[l].upto \in Time /\ lane[l].snap \in Versions
      BY <2>1 DEF LaneType
    <2> QED
      BY <2>2 DEF Position, Versions
  <1> QED
    BY <1>1, <1>2, <1>3, <1>4

LEMMA InitGapInv == Init => GapInv
  <1> SUFFICES ASSUME Init PROVE GapInv
    OBVIOUS
  <1>1. \A k \in Keys : up[k] = 0
    BY DEF Init, Nothing
  <1>2. clock = 0 /\ pos = NewPosition
    BY DEF Init
  <1>3. Past(NewPosition, 0) /\ Safe(NewPosition)
    BY <1>1, NewPositionFits
  <1>4. \A l \in Lanes : lane[l].at = NewPosition /\ lane[l].pc = "idle"
    BY DEF Init, Idle
  <1> QED
    BY <1>1, <1>2, <1>3, <1>4 DEF GapInv, Reading, Held

\* The outside system takes a version later than every position, or gives one up.
LEMMA OutsideGapInv ==
    ASSUME TypeOK, GapInv, NEW c \in Keys, Change(c) \/ Remove(c)
    PROVE  GapInv'
  <1>1. /\ clock' = clock + 1 /\ up'[c] \in {0, clock + 1}
        /\ \A k \in Keys : k # c => up'[k] = up[k]
        /\ UNCHANGED <<kind, stored, pos, lane, cycle>>
    BY DEF Change, Remove, TypeOK, Versions
  <1>0. clock \in Nat /\ \A k \in Keys : up[k] \in Nat
    BY TimesAreNat
  <1>2. ASSUME NEW p, Safe(p), Past(p, clock), p.cursor \in Nat,
               \A k \in Keys : p.manifest[k] \in Nat
        PROVE  Safe(p)' /\ Past(p, clock')
    <2>1. Past(p, clock')
      BY <1>0, <1>1, <1>2 DEF Past
    <2>2. ASSUME NEW k \in Keys, Covers(p, k)'
          PROVE  stored'[k] = up'[k]
      <3>1. CASE k = c
        <4>1. p.cursor <= clock /\ p.manifest[k] <= clock
          BY <1>2 DEF Past
        <4>2. up'[k] = 0 \/ up'[k] = clock + 1
          BY <1>1, <3>1
        <4>3. up'[k] # 0 /\ (up'[k] <= p.cursor \/ up'[k] = p.manifest[k])
          BY <2>2 DEF Covers
        <4> QED
          BY <1>0, <1>2, <4>1, <4>2, <4>3
      <3>2. CASE k # c
        BY <1>1, <1>2, <2>2, <3>2 DEF Covers, Safe
      <3> QED
        BY <3>1, <3>2
    <2> QED
      BY <2>1, <2>2 DEF Safe
  <1>3. Safe(pos)' /\ Past(pos, clock)'
    BY <1>1, <1>2, TimesAreNat DEF GapInv, Safe, Covers
  <1>4. ASSUME NEW l \in Lanes
        PROVE  Safe(lane[l].at)' /\ Past(lane[l].at, clock)'
    BY <1>1, <1>2, TimesAreNat DEF GapInv, Safe, Covers
  <1>5. ASSUME NEW l \in Lanes, Reading(lane[l])
        PROVE  Sound(lane[l])'
    <2>1. Sound(lane[l])
      BY <1>5 DEF GapInv
    <2>2. lane[l].upto \in Nat
      BY TimesAreNat
    <2>3. lane[l].upto <= clock'
      BY <1>0, <1>1, <2>1, <2>2 DEF Sound
    <2>4. ASSUME NEW k \in Keys
          PROVE  up'[k] = lane[l].snap[k] \/ up'[k] = 0 \/ up'[k] > lane[l].upto
      <3>1. CASE k = c
        BY <1>0, <1>1, <2>1, <2>2, <3>1 DEF Sound
      <3>2. CASE k # c
        BY <1>1, <2>1, <3>2 DEF Sound
      <3> QED
        BY <3>1, <3>2
    <2> QED
      BY <1>1, <2>1, <2>3, <2>4 DEF Sound
  <1>6. \A k \in Keys : up'[k] <= clock'
    <2>1. ASSUME NEW k \in Keys
          PROVE  up'[k] <= clock'
      <3>1. CASE k = c
        BY <1>0, <1>1, <3>1
      <3>2. CASE k # c
        BY <1>0, <1>1, <3>2 DEF GapInv
      <3> QED
        BY <3>1, <3>2
    <2> QED
      BY <2>1
  <1>7. ASSUME NEW l \in Lanes, Reading(lane[l])'
        PROVE  /\ Sound(lane[l])' /\ Past(pos, lane[l].upto)'
               /\ \A j \in Lanes : Past(lane[j].at, lane[l].upto)'
               /\ (lane[l].pc = "ending" => lane[l].todo = {})'
    <2>1. Reading(lane[l])
      BY <1>1, <1>7 DEF Reading
    <2> QED
      BY <1>1, <1>5, <2>1 DEF GapInv, Past
  <1> QED
    BY <1>1, <1>3, <1>4, <1>6, <1>7 DEF GapInv

\* A position a lane or the row may take while lane l moves.
Fits(p, l) ==
    /\ Safe(p) /\ Past(p, clock)
    /\ \A j \in Lanes : j # l /\ Reading(lane[j]) => Past(p, lane[j].upto)

\* A lane moves and nothing is stored.
LEMMA MoveGapInv ==
    ASSUME TypeOK, GapInv, UNCHANGED <<kind, clock, up, stored>>,
           NEW l \in Lanes, NEW ln, Goto(l, ln),
           Fits(ln.at, l), NEW p, pos' = p, Fits(p, l),
           ln.pc \in Held => cycle' = l,
           \A j \in Lanes : j # l /\ lane[j].pc \in Held => cycle' = j,
           Reading(ln) => /\ Sound(ln) /\ Past(p, ln.upto) /\ Past(ln.at, ln.upto)
                          /\ \A j \in Lanes : j # l => Past(lane[j].at, ln.upto)
                          /\ ln.pc = "ending" => ln.todo = {}
    PROVE  GapInv'
  <1>1. lane'[l] = ln /\ \A j \in Lanes : j # l => lane'[j] = lane[j]
    BY DEF Goto, TypeOK
  <1>2. \A q : (Safe(q) <=> Safe(q)') /\ (Past(q, clock) <=> Past(q, clock)')
    BY DEF Safe, Covers, Past
  <1>3. \A k \in Keys : up'[k] <= clock'
    BY DEF GapInv
  <1>4. Safe(pos)' /\ Past(pos, clock)'
    BY <1>2 DEF Fits, Safe, Covers, Past
  <1>5. ASSUME NEW j \in Lanes
        PROVE  Safe(lane[j].at)' /\ Past(lane[j].at, clock)'
    <2>1. PICK q : q = lane'[j].at
      OBVIOUS
    <2>2. Safe(q) /\ Past(q, clock)
      BY <1>1, <2>1 DEF GapInv, Fits
    <2> QED
      BY <2>1, <2>2 DEF Safe, Covers, Past
  <1>6. \A j \in Lanes : (lane[j].pc \in Held => cycle = j)'
    BY <1>1
  <1>7. ASSUME NEW j \in Lanes, Reading(lane[j])'
        PROVE  /\ Sound(lane[j])' /\ Past(pos, lane[j].upto)'
               /\ \A i \in Lanes : Past(lane[i].at, lane[j].upto)'
               /\ (lane[j].pc = "ending" => lane[j].todo = {})'
    <2>1. CASE j = l
      <3>1. Reading(ln)
        BY <1>1, <1>7, <2>1 DEF Reading
      <3>2. Sound(lane[j])'
        BY <1>1, <2>1, <3>1 DEF Sound
      <3>3. Past(pos, lane[j].upto)'
        BY <1>1, <2>1, <3>1 DEF Past
      <3>4. \A i \in Lanes : Past(lane[i].at, lane[j].upto)'
        BY <1>1, <2>1, <3>1 DEF Past
      <3> QED
        BY <1>1, <2>1, <3>1, <3>2, <3>3, <3>4
    <2>2. CASE j # l
      <3>1. Reading(lane[j]) /\ lane'[j] = lane[j]
        BY <1>1, <1>7, <2>2 DEF Reading
      <3>2. Sound(lane[j])'
        BY <3>1 DEF GapInv, Sound
      <3>3. Past(pos, lane[j].upto)'
        BY <2>2, <3>1 DEF Fits, Past
      <3>4. ASSUME NEW i \in Lanes
            PROVE  Past(lane[i].at, lane[j].upto)'
        <4>1. CASE i = l
          BY <1>1, <2>2, <3>1, <4>1 DEF Fits, Past
        <4>2. CASE i # l
          BY <1>1, <3>1, <4>2 DEF GapInv, Past
        <4> QED
          BY <4>1, <4>2
      <3> QED
        BY <3>1, <3>2, <3>3, <3>4 DEF GapInv
    <2> QED
      BY <2>1, <2>2
  <1> QED
    BY <1>3, <1>4, <1>5, <1>6, <1>7 DEF GapInv

\* The positions at hand fit, and the lock keeps everyone else out of a cycle.
LEMMA PositionsFit ==
    ASSUME GapInv, NEW l \in Lanes
    PROVE  Fits(pos, l) /\ Fits(lane[l].at, l)
  BY DEF GapInv, Fits

LEMMA HolderIsAlone ==
    ASSUME GapInv, NEW l \in Lanes, lane[l].pc \in Held
    PROVE  cycle = l /\ \A j \in Lanes : j # l => lane[j].pc \notin Held /\ ~Reading(lane[j])
  BY DEF GapInv, Held, Reading

LEMMA StartGapInv ==
    ASSUME TypeOK, GapInv, NEW l \in Lanes,
           (\E beat \in BOOLEAN : Load(l, beat)) \/ SyncNow(l) \/ Unlatch(l) \/ Claim(l)
    PROVE  GapInv'
  <1>0. lane[l] \in LaneType
    BY DEF TypeOK
  <1>1. UNCHANGED <<kind, clock, up, stored, pos, cycle>>
    BY DEF Load, SyncNow, Unlatch, Claim
  <1>2. PICK ln : /\ Goto(l, ln) /\ (ln.at = pos \/ ln.at = lane[l].at)
                  /\ ln.pc \in {"loaded", "unlatching", "claimed", "lock"}
    <2>1. \A pc \in Pc : /\ [Idle EXCEPT !.pc = pc, !.at = pos].at = pos
                         /\ [Idle EXCEPT !.pc = pc, !.at = pos].pc = pc
      BY DEF Idle
    <2>2. /\ [lane[l] EXCEPT !.pc = "claimed", !.polls = TRUE].at = lane[l].at
          /\ [lane[l] EXCEPT !.pc = "claimed", !.polls = TRUE].pc = "claimed"
      BY <1>0 DEF LaneType
    <2>3. CASE (\E beat \in BOOLEAN : Load(l, beat)) \/ SyncNow(l) \/ Unlatch(l)
      <3>1. PICK pc \in {"loaded", "unlatching", "lock"} : Goto(l, [Idle EXCEPT !.pc = pc, !.at = pos])
        BY <2>3 DEF Load, SyncNow, Unlatch
      <3> DEFINE new == [Idle EXCEPT !.pc = pc, !.at = pos]
      <3>2. new.at = pos /\ new.pc = pc
        BY <2>1 DEF Pc
      <3>3. Goto(l, new) /\ new.pc \in {"loaded", "unlatching", "claimed", "lock"}
        BY <3>1, <3>2
      <3> HIDE DEF new
      <3> QED
        BY <3>2, <3>3
    <2>4. CASE Claim(l)
      BY <2>2, <2>4 DEF Claim
    <2> QED
      BY <2>3, <2>4
  <1>3. ~Reading(ln) /\ ln.pc \notin Held
    BY <1>2 DEF Reading, Held
  <1>4. \A j \in Lanes : j # l /\ lane[j].pc \in Held => cycle' = j
    BY <1>1 DEF GapInv
  <1>5. Fits(ln.at, l)
    BY <1>2, PositionsFit
  <1> QED
    BY <1>1, <1>2, <1>3, <1>4, <1>5, PositionsFit, MoveGapInv

\* A lane that saves its copy, gives up or waits for the lock.
LEMMA LockGapInv ==
    ASSUME TypeOK, GapInv, NEW l \in Lanes,
           ClaimRefused(l) \/ PollNow(l) \/ PreSchedule(l) \/ PreScheduleFails(l) \/ Acquire(l)
    PROVE  GapInv'
  <1>0. lane[l] \in LaneType
    BY DEF TypeOK
  <1>1. UNCHANGED <<kind, clock, up, stored>>
    BY DEF ClaimRefused, PollNow, PreSchedule, PreScheduleFails, Acquire
  <1>2. CASE ClaimRefused(l) \/ PollNow(l)
    <2>1. Goto(l, Idle) /\ cycle' = cycle
      BY <1>2 DEF ClaimRefused, PollNow
    <2>2. ~Reading(Idle) /\ Idle.pc \notin Held /\ Idle.at = NewPosition
      BY DEF Reading, Held, Idle
    <2>3. PICK p : pos' = p /\ Fits(p, l)
      <3>1. \A h \in Health : Fits([lane[l].at EXCEPT !.health = h], l)
        <4>1. lane[l].at \in Position
          BY <1>0 DEF LaneType
        <4>2. \A h \in Health : /\ [lane[l].at EXCEPT !.health = h].cursor = lane[l].at.cursor
                                 /\ [lane[l].at EXCEPT !.health = h].manifest = lane[l].at.manifest
          BY <4>1 DEF Position
        <4> QED
          BY <4>2, PositionsFit DEF Fits, Safe, Covers, Past
      <3> QED
        BY <1>2, <3>1, PositionsFit DEF ClaimRefused, PollNow, Health
    <2>4. Fits(Idle.at, l)
      BY <2>2, NewPositionFits, TimesAreNat DEF Fits
    <2>5. \A j \in Lanes : j # l /\ lane[j].pc \in Held => cycle' = j
      BY <2>1 DEF GapInv
    <2> QED
      BY <1>1, <2>1, <2>2, <2>3, <2>4, <2>5, MoveGapInv
  <1>3. CASE PreSchedule(l) \/ PreScheduleFails(l)
    <2>1. PICK ln : ln = [lane[l] EXCEPT !.pc = "lock"]
      OBVIOUS
    <2>2. Goto(l, ln) /\ ln.at = lane[l].at /\ ln.pc = "lock"
      BY <1>0, <1>3, <2>1 DEF PreSchedule, PreScheduleFails, LaneType
    <2>3. (pos' = lane[l].at \/ pos' = pos) /\ cycle' = cycle
      BY <1>3 DEF PreSchedule, PreScheduleFails
    <2>4. ~Reading(ln) /\ ln.pc \notin Held
      BY <2>2 DEF Reading, Held
    <2>5. \A j \in Lanes : j # l /\ lane[j].pc \in Held => cycle' = j
      BY <2>3 DEF GapInv
    <2>6. PICK p : pos' = p /\ Fits(p, l)
      BY <2>3, PositionsFit
    <2> QED
      BY <1>1, <2>2, <2>4, <2>5, <2>6, PositionsFit, MoveGapInv
  <1>4. CASE Acquire(l)
    <2>1. PICK ln : ln = [lane[l] EXCEPT !.pc = "cycle"]
      OBVIOUS
    <2>2. Goto(l, ln) /\ ln.at = lane[l].at /\ ln.pc = "cycle"
      BY <1>0, <1>4, <2>1 DEF Acquire, LaneType
    <2>3. pos' = pos /\ cycle' = l /\ cycle = NoLane
      BY <1>4 DEF Acquire
    <2>4. ~Reading(ln)
      BY <2>2 DEF Reading
    <2>5. \A j \in Lanes : lane[j].pc \notin Held
      BY <2>3, IngestSyncAssumption DEF GapInv
    <2> QED
      BY <1>1, <2>2, <2>3, <2>4, <2>5, PositionsFit, MoveGapInv
  <1> QED
    BY <1>2, <1>3, <1>4

\* What a pass does not find is covered by the position it starts from, so it is stored.
LEMMA TraverseGapInv ==
    ASSUME TypeOK, GapInv, NEW l \in Lanes, Traverse(l)
    PROVE  GapInv'
  <1>0. lane[l] \in LaneType
    BY DEF TypeOK
  <1>1. PICK ln : ln = [lane[l] EXCEPT !.pc = "placing", !.snap = up, !.upto = clock,
                                       !.todo = Found(up, lane[l].at)]
    OBVIOUS
  <1>2. /\ Goto(l, ln) /\ ln.at = lane[l].at /\ ln.pc = "placing"
        /\ ln.snap = up /\ ln.upto = clock /\ ln.todo = Found(up, lane[l].at)
    BY <1>0, <1>1 DEF Traverse, LaneType
  <1>3. UNCHANGED <<kind, clock, up, stored, pos, cycle>> /\ lane[l].pc \in Held
    BY DEF Traverse, At, Held
  <1>4. cycle = l /\ \A j \in Lanes : j # l => lane[j].pc \notin Held
    BY <1>3, HolderIsAlone
  <1>5. Past(pos, clock) /\ \A j \in Lanes : Past(lane[j].at, clock)
    BY DEF GapInv
  <1>6. ASSUME NEW k \in Keys, k \notin Found(up, lane[l].at), up[k] # 0
        PROVE  stored[k] = up[k]
    <2>1. Safe(lane[l].at)
      BY DEF GapInv
    <2>2. Covers(lane[l].at, k)
      <3>1. kind \in {"log", "listing", "files"}
        BY IngestSyncAssumption DEF TypeOK
      <3>2. lane[l].at.cursor \in Nat /\ up[k] \in Nat
        BY TimesAreNat
      <3> QED
        BY <1>6, <3>1, <3>2 DEF Found, Covers
    <2> QED
      BY <2>1, <2>2 DEF Safe
  <1>7. Sound(ln)
    <2>1. clock \in Nat /\ \A k \in Keys : up[k] <= clock
      BY TimesAreNat DEF GapInv
    <2> QED
      BY <1>2, <1>6, <2>1 DEF Sound
  <1> QED
    BY <1>2, <1>3, <1>4, <1>5, <1>7, PositionsFit, MoveGapInv

\* The position a pass reaches is safe: all it covers was placed, or was covered before.
LEMMA SaveGapInv ==
    ASSUME TypeOK, GapInv, NEW l \in Lanes, SavePosition(l)
    PROVE  GapInv'
  <1>0. lane[l] \in LaneType
    BY DEF TypeOK
  <1>1. PICK ln : ln = [lane[l] EXCEPT !.pc = "after", !.at = Reached(lane[l]),
                                       !.snap = Nothing, !.upto = 0]
    OBVIOUS
  <1>2. Goto(l, ln) /\ ln.at = Reached(lane[l]) /\ ln.pc = "after"
    BY <1>0, <1>1 DEF SavePosition, LaneType
  <1>3. /\ UNCHANGED <<kind, clock, up, stored, cycle>>
        /\ lane[l].pc \in Held /\ lane[l].pc = "ending" /\ Reading(lane[l])
        /\ pos' = pos \/ pos' = Reached(lane[l])
    BY DEF SavePosition, At, Held, Reading
  <1>4. cycle = l /\ \A j \in Lanes : j # l => lane[j].pc \notin Held /\ ~Reading(lane[j])
    BY <1>3, HolderIsAlone
  <1>5. Sound(lane[l]) /\ lane[l].todo = {}
    BY <1>3 DEF GapInv
  <1>6. Safe(Reached(lane[l]))
    <2>1. ASSUME NEW k \in Keys, Covers(Reached(lane[l]), k)
          PROVE  stored[k] = up[k]
      <3>1. up[k] \in Nat /\ lane[l].upto \in Nat /\ lane[l].snap[k] \in Nat
        BY TimesAreNat
      <3>2. up[k] # 0 /\ (up[k] <= lane[l].upto \/ up[k] = lane[l].snap[k])
        BY <2>1 DEF Covers, Reached
      <3>3. up[k] = lane[l].snap[k]
        BY <1>5, <3>1, <3>2 DEF Sound
      <3> QED
        BY <1>5, <3>2, <3>3 DEF Sound
    <2> QED
      BY <2>1 DEF Safe
  <1>7. Past(Reached(lane[l]), clock)
    <2>1. clock \in Nat /\ lane[l].upto \in Nat /\ \A k \in Keys : lane[l].snap[k] \in Nat
      BY TimesAreNat
    <2>2. lane[l].upto <= clock /\ \A k \in Keys : lane[l].snap[k] <= clock
      BY <1>5, <2>1 DEF Sound
    <2> QED
      BY <2>1, <2>2 DEF Past, Reached, Nothing
  <1>8. Fits(Reached(lane[l]), l)
    BY <1>4, <1>6, <1>7 DEF Fits
  <1>9. ~Reading(ln)
    BY <1>2 DEF Reading
  <1>10. PICK p : pos' = p /\ Fits(p, l)
    BY <1>3, <1>8, PositionsFit
  <1> QED
    BY <1>2, <1>3, <1>4, <1>8, <1>9, <1>10, MoveGapInv

LEMMA EndGapInv ==
    ASSUME TypeOK, GapInv, NEW l \in Lanes,
           (\E h \in Failures : PassFails(l, h)) \/ Release(l) \/ CycleRaises(l)
    PROVE  GapInv'
  <1>0. lane[l] \in LaneType /\ lane[l].at \in Position
    BY DEF TypeOK, LaneType
  <1>1. /\ UNCHANGED <<kind, clock, up, stored>> /\ lane[l].pc \in Held
        /\ \A k \in Keys : up[k] \in Nat
        /\ clock \in Nat
    BY TimesAreNat DEF PassFails, Release, CycleRaises, At, Held
  <1>2. cycle = l /\ \A j \in Lanes : j # l => lane[j].pc \notin Held /\ ~Reading(lane[j])
    BY <1>1, HolderIsAlone
  <1>3. ASSUME NEW h \in Failures, PassFails(l, h) PROVE GapInv'
    <2>1. PICK ln : ln = [lane[l] EXCEPT !.pc = "after", !.at = Kept(lane[l], h),
                                         !.snap = Nothing, !.upto = 0, !.todo = {}]
      OBVIOUS
    <2>2. Goto(l, ln) /\ ln.at = Kept(lane[l], h) /\ ln.pc = "after"
      BY <1>0, <1>3, <2>1 DEF PassFails, LaneType
    <2>3. pos' = Kept(lane[l], h) /\ cycle' = cycle
      BY <1>3 DEF PassFails
    <2>4. Kept(lane[l], h).cursor = lane[l].at.cursor /\ Kept(lane[l], h).manifest = lane[l].at.manifest
      BY <1>0 DEF Kept, Position
    <2>5. Fits(Kept(lane[l], h), l)
      BY <2>4, PositionsFit DEF Fits, Safe, Covers, Past
    <2>6. ~Reading(ln)
      BY <2>2 DEF Reading
    <2> QED
      BY <1>1, <1>2, <2>2, <2>3, <2>5, <2>6, MoveGapInv
  <1>4. CASE Release(l) \/ CycleRaises(l)
    <2>1. PICK ln : Goto(l, ln) /\ (ln.at = lane[l].at \/ ln.at = NewPosition)
                      /\ ln.pc \in {"lock", "idle"}
      <3>1. /\ [lane[l] EXCEPT !.pc = "lock"].at = lane[l].at
            /\ [lane[l] EXCEPT !.pc = "lock"].pc = "lock"
            /\ Idle.at = NewPosition /\ Idle.pc = "idle"
        BY <1>0 DEF LaneType, Idle
      <3> QED
        BY <1>4, <3>1 DEF Release, CycleRaises
    <2>2. pos' = pos
      BY <1>4 DEF Release, CycleRaises
    <2>3. Fits(ln.at, l)
      BY <1>1, <1>2, <2>1, PositionsFit, NewPositionFits DEF Fits
    <2>4. ~Reading(ln) /\ ln.pc \notin Held
      BY <2>1 DEF Reading, Held
    <2> QED
      BY <1>1, <1>2, <2>1, <2>2, <2>3, <2>4, PositionsFit, MoveGapInv
  <1> QED
    BY <1>3, <1>4

\* The pass that holds the lock stores what it read: what a position covers is what it
\* read, so storing it again changes nothing, and dropping spares it.
LEMMA StoreGapInv ==
    ASSUME TypeOK, GapInv, UNCHANGED <<kind, clock, up, pos, cycle>>,
           NEW l \in Lanes, lane[l].pc = "placing", NEW ln, Goto(l, ln),
           Reading(ln), ln.at = lane[l].at, ln.upto = lane[l].upto, ln.snap = lane[l].snap,
           ln.pc = "ending" => ln.todo = {},
           \A k \in Keys : \/ stored'[k] = stored[k]
                           \/ stored'[k] = lane[l].snap[k]
                           \/ stored'[k] = 0 /\ lane[l].snap[k] = 0,
           \A k \in Keys : k \notin ln.todo =>
                lane[l].snap[k] = 0 \/ stored'[k] = lane[l].snap[k]
    PROVE  GapInv'
  <1>1. lane'[l] = ln /\ \A j \in Lanes : j # l => lane'[j] = lane[j]
    BY DEF Goto, TypeOK
  <1>2. Reading(lane[l]) /\ lane[l].pc \in Held
    BY DEF Reading, Held
  <1>3. cycle = l /\ \A j \in Lanes : j # l => lane[j].pc \notin Held /\ ~Reading(lane[j])
    BY <1>2, HolderIsAlone
  <1>4. Sound(lane[l])
    BY <1>2 DEF GapInv
  <1>5. ASSUME NEW p, Safe(p), Past(p, lane[l].upto), p.cursor \in Nat,
               \A k \in Keys : p.manifest[k] \in Nat
        PROVE  Safe(p)'
    <2>1. ASSUME NEW k \in Keys, Covers(p, k)
          PROVE  stored'[k] = up[k]
      <3>1. up[k] \in Nat /\ lane[l].upto \in Nat /\ lane[l].snap[k] \in Nat
        BY TimesAreNat
      <3>2. up[k] # 0 /\ (up[k] <= p.cursor \/ up[k] = p.manifest[k])
        BY <2>1 DEF Covers
      <3>3. p.cursor <= lane[l].upto /\ p.manifest[k] <= lane[l].upto
        BY <1>5 DEF Past
      <3>4. up[k] <= lane[l].upto
        BY <1>5, <3>1, <3>2, <3>3
      <3>5. up[k] = lane[l].snap[k]
        BY <1>4, <3>1, <3>2, <3>4 DEF Sound
      <3>6. stored[k] = up[k]
        BY <1>5, <2>1 DEF Safe
      <3> QED
        BY <3>2, <3>5, <3>6
    <2> QED
      BY <2>1 DEF Safe, Covers
  <1>6. Past(pos, lane[l].upto) /\ \A j \in Lanes : Past(lane[j].at, lane[l].upto)
    BY <1>2 DEF GapInv
  <1>7. Safe(pos)' /\ Past(pos, clock)'
    <2>1. Safe(pos) /\ Past(pos, clock)
      BY DEF GapInv
    <2>2. PICK p : p = pos /\ Safe(p)'
      BY <1>5, <1>6, <2>1, TimesAreNat
    <2> QED
      BY <2>1, <2>2 DEF Safe, Covers, Past
  <1>8. ASSUME NEW j \in Lanes
        PROVE  Safe(lane[j].at)' /\ Past(lane[j].at, clock)'
    <2>1. Safe(lane[j].at) /\ Past(lane[j].at, clock) /\ lane'[j].at = lane[j].at
      BY <1>1 DEF GapInv
    <2>2. PICK p : p = lane[j].at /\ Safe(p)'
      BY <1>5, <1>6, <2>1, TimesAreNat
    <2> QED
      BY <2>1, <2>2 DEF Safe, Covers, Past
  <1>9. ASSUME NEW j \in Lanes
        PROVE  (lane[j].pc \in Held => cycle = j)'
    BY <1>1, <1>3
  <1>10. ASSUME NEW j \in Lanes, Reading(lane[j])'
         PROVE  /\ Sound(lane[j])' /\ Past(pos, lane[j].upto)'
                /\ \A i \in Lanes : Past(lane[i].at, lane[j].upto)'
                /\ (lane[j].pc = "ending" => lane[j].todo = {})'
    <2>1. j = l
      BY <1>1, <1>3, <1>10 DEF Reading
    <2>2. Sound(lane[j])'
      BY <1>1, <1>4, <2>1 DEF Sound
    <2>3. \A i \in Lanes : lane'[i].at = lane[i].at
      BY <1>1
    <2>4. Past(pos, lane[j].upto)'
      BY <1>1, <1>6, <2>1 DEF Past
    <2>5. \A i \in Lanes : Past(lane[i].at, lane[j].upto)'
      BY <1>1, <1>6, <2>1, <2>3 DEF Past
    <2> QED
      BY <1>1, <2>1, <2>2, <2>4, <2>5
  <1>11. \A k \in Keys : up'[k] <= clock'
    BY DEF GapInv
  <1> QED
    BY <1>7, <1>8, <1>9, <1>10, <1>11 DEF GapInv

LEMMA PlaceGapInv ==
    ASSUME TypeOK, GapInv, ~OriginLost, NEW l \in Lanes,
           (\E k \in Keys, reached \in BOOLEAN : Place(l, k, reached)) \/ DropGone(l)
    PROVE  GapInv'
  <1>0. lane[l] \in LaneType
    BY DEF TypeOK
  <1>1. /\ UNCHANGED <<kind, clock, up, pos, cycle>>
        /\ lane[l].pc = "placing" /\ Reading(lane[l]) /\ Sound(lane[l])
    BY DEF Place, DropGone, At, Reading, GapInv
  <1>2. ASSUME NEW c \in Keys, NEW reached \in BOOLEAN, Place(l, c, reached)
        PROVE  GapInv'
    <2>1. PICK ln : ln = [lane[l] EXCEPT !.todo = lane[l].todo \ {c}]
      OBVIOUS
    <2>2. /\ Goto(l, ln) /\ ln.pc = "placing" /\ ln.todo = lane[l].todo \ {c}
          /\ ln.at = lane[l].at /\ ln.upto = lane[l].upto /\ ln.snap = lane[l].snap
      BY <1>0, <1>1, <1>2, <2>1 DEF Place, LaneType
    <2>3. stored'[c] = lane[l].snap[c] /\ \A k \in Keys : k # c => stored'[k] = stored[k]
      BY <1>2 DEF Place, TypeOK, Versions
    <2>4. \A k \in Keys : k \notin ln.todo => lane[l].snap[k] = 0 \/ stored'[k] = lane[l].snap[k]
      BY <1>1, <2>2, <2>3 DEF Sound
    <2>5. Reading(ln)
      BY <2>2 DEF Reading
    <2>6. \A k \in Keys : stored'[k] = stored[k] \/ stored'[k] = lane[l].snap[k]
      BY <2>3
    <2> QED
      BY <1>1, <2>2, <2>4, <2>5, <2>6, StoreGapInv
  <1>3. CASE DropGone(l)
    <2>1. PICK ln : ln = [lane[l] EXCEPT !.pc = "ending"]
      OBVIOUS
    <2>2. /\ Goto(l, ln) /\ ln.pc = "ending" /\ ln.todo = {} /\ lane[l].todo = {}
          /\ ln.at = lane[l].at /\ ln.upto = lane[l].upto /\ ln.snap = lane[l].snap
      BY <1>0, <1>3, <2>1 DEF DropGone, LaneType
    <2>3. \A k \in Keys : k \in Gone(lane[l]) => lane[l].snap[k] = 0
      <3>1. kind \in {"log", "listing", "files"}
        BY IngestSyncAssumption DEF TypeOK
      <3> QED
        BY <3>1 DEF Gone
    <2>4. \A k \in Keys : stored'[k] = stored[k] \/ (stored'[k] = 0 /\ lane[l].snap[k] = 0)
      <3>1. PICK gone : gone = Gone(lane[l])
        OBVIOUS
      <3>2. stored' = [k \in Keys |-> IF k \in gone THEN 0 ELSE stored[k]]
        BY <1>3, <3>1 DEF DropGone
      <3>3. ASSUME NEW k \in Keys
            PROVE  stored'[k] = stored[k] \/ (stored'[k] = 0 /\ lane[l].snap[k] = 0)
        <4>1. CASE k \in gone
          BY <2>3, <3>1, <3>2, <4>1
        <4>2. CASE k \notin gone
          BY <3>2, <4>2
        <4> QED
          BY <4>1, <4>2
      <3> QED
        BY <3>3
    <2>5. \A k \in Keys : lane[l].snap[k] = 0 \/ stored'[k] = lane[l].snap[k]
      <3>1. \A k \in Keys : lane[l].snap[k] = 0 \/ stored[k] = lane[l].snap[k]
        BY <1>1, <2>2 DEF Sound
      <3> QED
        BY <2>4, <3>1
    <2>6. Reading(ln)
      BY <2>2 DEF Reading
    <2> QED
      BY <1>1, <2>2, <2>4, <2>5, <2>6, StoreGapInv
  <1> QED
    BY <1>2, <1>3

\* A crash forgets the lanes and keeps the row.
LEMMA CrashGapInv ==
    ASSUME TypeOK, GapInv, Crash
    PROVE  GapInv'
  <1>1. \A l \in Lanes : lane'[l].at = NewPosition /\ lane'[l].pc = "idle"
    BY DEF Crash, Idle
  <1>2. UNCHANGED <<kind, clock, up, stored, pos>>
    BY DEF Crash
  <1>3. Safe(pos) /\ Past(pos, clock) /\ Safe(NewPosition) /\ Past(NewPosition, clock)
    BY NewPositionFits, TimesAreNat DEF GapInv
  <1>4. Safe(pos)' /\ Past(pos, clock)'
    BY <1>2, <1>3 DEF Safe, Covers, Past
  <1>5. \A l \in Lanes : Safe(lane[l].at)' /\ Past(lane[l].at, clock)'
    BY <1>1, <1>2, <1>3 DEF Safe, Covers, Past
  <1>6. \A l \in Lanes : ~Reading(lane[l])' /\ lane'[l].pc \notin Held
    BY <1>1 DEF Reading, Held
  <1>7. \A k \in Keys : up'[k] <= clock'
    BY <1>2 DEF GapInv
  <1> QED
    BY <1>4, <1>5, <1>6, <1>7 DEF GapInv

LEMMA OtherGapInv ==
    ASSUME GapInv, UNCHANGED <<kind, clock, up, stored, pos, lane, cycle>>
    PROVE  GapInv'
  BY DEF GapInv, Safe, Covers, Past, Sound, Reading

-----------------------------------------------------------------------------
(* The poll slot, and what it is asked for.                                *)

\* A lane that holds no slot because it has not claimed one.
Early == {"idle", "loaded", "unlatching"}

\* A pass with these data will answer a question of time t, or has.
Answers(ln, t) ==
    /\ Reading(ln) => ln.upto >= t
    /\ ln.pc = "after" => t = 0

\* The slot is taken by one lane, which has claimed it; a poll with no question noted for
\* another pass has read the source since the last question, if it has read it.
SlotInv ==
    /\ inflight <=> \E l \in Lanes : lane[l].polls
    /\ \A l, j \in Lanes : lane[l].polls /\ lane[j].polls => l = j
    /\ again => inflight
    /\ \A l \in Lanes : lane[l].pc \in Early => ~lane[l].polls
    /\ owed <= clock
    /\ \A l \in Lanes : lane[l].polls /\ ~again => Answers(lane[l], owed)

LEMMA InitSlotInv == Init => SlotInv
  BY IngestSyncAssumption DEF Init, SlotInv, Idle

LEMMA Times ==
    ASSUME TypeOK
    PROVE  clock \in Nat /\ owed \in Nat /\ \A l \in Lanes : lane[l].upto \in Nat
  <1>1. \A t \in Time : t \in Nat
    BY IngestSyncAssumption DEF Time
  <1> QED
    BY <1>1 DEF TypeOK, LaneType

\* A lane moves on and keeps its claim on the slot, or its lack of one; what it has read
\* is late enough, and the question stays as it is or is settled.
LEMMA MoveSlotInv ==
    ASSUME TypeOK, SlotInv, NEW l \in Lanes, NEW ln, Goto(l, ln),
           ln.polls = lane[l].polls, ln.pc \in Early => ~ln.polls,
           UNCHANGED <<clock, inflight, again>>,
           owed' = owed \/ owed' = 0,
           ln.polls /\ ~again => Answers(ln, owed')
    PROVE  SlotInv'
  <1>1. lane'[l] = ln /\ \A j \in Lanes : j # l => lane'[j] = lane[j]
    BY DEF Goto, TypeOK
  <1>2. \A j \in Lanes : lane'[j].polls = lane[j].polls
    BY <1>1
  <1>3. ASSUME NEW j \in Lanes, lane'[j].pc \in Early PROVE ~lane'[j].polls
    BY <1>1, <1>3 DEF SlotInv
  <1>4. ASSUME NEW j \in Lanes, lane'[j].polls, ~again PROVE Answers(lane'[j], owed')
    <2>1. CASE j = l
      BY <1>1, <1>4, <2>1
    <2>2. CASE j # l
      <3>1. Answers(lane[j], owed) /\ lane'[j] = lane[j]
        BY <1>1, <1>4, <2>2 DEF SlotInv
      <3>2. lane[j].upto >= 0
        BY Times
      <3> QED
        BY <3>1, <3>2 DEF Answers
    <2> QED
      BY <2>1, <2>2
  <1>5. owed' <= clock'
    BY Times DEF SlotInv
  <1> QED
    BY <1>2, <1>3, <1>4, <1>5 DEF SlotInv

LEMMA StartSlotInv ==
    ASSUME TypeOK, SlotInv, NEW l \in Lanes,
           \/ (\E beat \in BOOLEAN : Load(l, beat)) \/ SyncNow(l) \/ Unlatch(l)
           \/ ClaimRefused(l) \/ PollNow(l)
    PROVE  SlotInv'
  <1>1. lane[l].pc \in Early /\ ~lane[l].polls /\ UNCHANGED <<clock, inflight, again, owed>>
    BY DEF Load, SyncNow, Unlatch, ClaimRefused, PollNow, At, SlotInv, Early
  <1>2. PICK ln : Goto(l, ln) /\ ln.polls = FALSE
    <2>1. \A pc \in Pc : [Idle EXCEPT !.pc = pc, !.at = pos].polls = FALSE
      BY DEF Idle
    <2>2. Idle.polls = FALSE
      BY DEF Idle
    <2> QED
      BY <2>1, <2>2 DEF Load, SyncNow, Unlatch, ClaimRefused, PollNow, Pc
  <1>3. lane[l].polls = FALSE
    BY <1>1 DEF TypeOK, LaneType
  <1> QED
    BY <1>1, <1>2, <1>3, MoveSlotInv

LEMMA ClaimSlotInv ==
    ASSUME TypeOK, SlotInv, NEW l \in Lanes, Claim(l)
    PROVE  SlotInv'
  <1> DEFINE claim == [lane[l] EXCEPT !.pc = "claimed", !.polls = TRUE]
  <1>1. claim.pc = "claimed" /\ claim.polls
    BY DEF TypeOK, LaneType
  <1> HIDE DEF claim
  <1>2. /\ lane'[l] = claim /\ \A j \in Lanes : j # l => lane'[j] = lane[j]
        /\ ~inflight /\ inflight' /\ owed' = clock /\ UNCHANGED <<clock, again>>
    BY DEF Claim, Goto, TypeOK, claim
  <1>3. \A j \in Lanes : j # l => ~lane'[j].polls
    BY <1>2 DEF SlotInv
  <1>4. \A t : Answers(claim, t)
    BY <1>1 DEF Answers, Reading
  <1>5. owed' <= clock'
    BY <1>2, Times
  <1> QED
    BY <1>1, <1>2, <1>3, <1>4, <1>5 DEF SlotInv, Early

\* A step inside a pass moves the lane and leaves the slot to it.
LEMMA PassSlotInv ==
    ASSUME TypeOK, SlotInv, NEW l \in Lanes,
           \/ PreSchedule(l) \/ PreScheduleFails(l) \/ Acquire(l) \/ Traverse(l)
           \/ (\E k \in Keys, reached \in BOOLEAN : Place(l, k, reached))
           \/ DropGone(l) \/ SavePosition(l) \/ (\E h \in Failures : PassFails(l, h))
    PROVE  SlotInv'
  <1>0. lane[l] \in LaneType /\ lane[l].polls \in BOOLEAN
    BY DEF TypeOK, LaneType
  <1>00. owed \in Nat /\ clock \in Nat /\ lane[l].upto \in Nat /\ owed <= clock
    BY Times DEF SlotInv
  <1>1. PICK ln : /\ Goto(l, ln) /\ ln.polls = lane[l].polls /\ ln.pc \notin Early
                  /\ owed' = owed \/ owed' = 0
                  /\ ln.polls /\ ~again => Answers(ln, owed')
    <2>1. CASE PreSchedule(l) \/ PreScheduleFails(l) \/ Acquire(l)
      <3>1. \A pc \in {"lock", "cycle"} :
              /\ [lane[l] EXCEPT !.pc = pc].polls = lane[l].polls
              /\ [lane[l] EXCEPT !.pc = pc].pc = pc
        BY <1>0 DEF LaneType
      <3> QED
        BY <2>1, <3>1 DEF PreSchedule, PreScheduleFails, Acquire, Answers, Reading, Early
    <2>2. CASE Traverse(l)
      <3> DEFINE ln == [lane[l] EXCEPT !.pc = "placing", !.snap = up, !.upto = clock,
                                       !.todo = Found(up, lane[l].at)]
      <3>1. ln.polls = lane[l].polls /\ ln.pc = "placing" /\ ln.upto = clock
        BY <1>0 DEF LaneType
      <3> HIDE DEF ln
      <3>2. Goto(l, ln) /\ owed' = owed
        BY <2>2 DEF Traverse, ln
      <3>3. Answers(ln, owed')
        BY <1>00, <3>1, <3>2 DEF Answers
      <3> QED
        BY <3>1, <3>2, <3>3 DEF Early
    <2>3. ASSUME NEW k \in Keys, NEW reached \in BOOLEAN, Place(l, k, reached)
          PROVE  \E ln : /\ Goto(l, ln) /\ ln.polls = lane[l].polls /\ ln.pc \notin Early
                         /\ owed' = owed
                         /\ ln.polls /\ ~again => Answers(ln, owed')
      <3> DEFINE ln == [lane[l] EXCEPT !.todo = lane[l].todo \ {k}]
      <3>1. /\ ln.polls = lane[l].polls /\ ln.pc = "placing" /\ lane[l].pc = "placing"
            /\ ln.upto = lane[l].upto
        BY <1>0, <2>3 DEF LaneType, Place, At
      <3> HIDE DEF ln
      <3>2. Goto(l, ln) /\ owed' = owed
        BY <2>3 DEF Place, ln
      <3> QED
        BY <3>1, <3>2 DEF SlotInv, Answers, Reading, Early
    <2>4. CASE DropGone(l)
      <3> DEFINE ln == [lane[l] EXCEPT !.pc = "ending"]
      <3>1. /\ ln.polls = lane[l].polls /\ ln.pc = "ending" /\ lane[l].pc = "placing"
            /\ ln.upto = lane[l].upto
        BY <1>0, <2>4 DEF LaneType, DropGone, At
      <3> HIDE DEF ln
      <3>2. Goto(l, ln) /\ owed' = owed
        BY <2>4 DEF DropGone, ln
      <3> QED
        BY <3>1, <3>2 DEF SlotInv, Answers, Reading, Early
    <2>5. CASE SavePosition(l)
      <3> DEFINE ln == [lane[l] EXCEPT !.pc = "after", !.at = Reached(lane[l]),
                                       !.snap = Nothing, !.upto = 0]
      <3>1. ln.polls = lane[l].polls /\ ln.pc = "after"
        BY <1>0 DEF LaneType
      <3> HIDE DEF ln
      <3>2. /\ Goto(l, ln) /\ lane[l].pc = "ending"
            /\ owed' = IF lane[l].upto >= owed THEN 0 ELSE owed
        BY <2>5 DEF SavePosition, ln, At
      <3>3. ASSUME lane[l].polls, ~again PROVE owed' = 0
        BY <3>2, <3>3 DEF SlotInv, Answers, Reading
      <3> QED
        BY <3>1, <3>2, <3>3 DEF Answers, Reading, Early
    <2>6. ASSUME NEW h \in Failures, PassFails(l, h)
          PROVE  \E ln : /\ Goto(l, ln) /\ ln.polls = lane[l].polls /\ ln.pc \notin Early
                         /\ owed' = owed \/ owed' = 0
                         /\ ln.polls /\ ~again => Answers(ln, owed')
      <3> DEFINE ln == [lane[l] EXCEPT !.pc = "after", !.at = Kept(lane[l], h),
                                       !.snap = Nothing, !.upto = 0, !.todo = {}]
      <3>1. ln.polls = lane[l].polls /\ ln.pc = "after"
        BY <1>0 DEF LaneType
      <3> HIDE DEF ln
      <3>2. Goto(l, ln) /\ owed' = IF lane[l].polls /\ ~again THEN 0 ELSE owed
        BY <2>6 DEF PassFails, ln
      <3> QED
        BY <3>1, <3>2 DEF Answers, Reading, Early
    <2> QED
      BY <2>1, <2>2, <2>3, <2>4, <2>5, <2>6
  <1>2. UNCHANGED <<clock, inflight, again>>
    BY DEF PreSchedule, PreScheduleFails, Acquire, Traverse, Place, DropGone, SavePosition, PassFails
  <1> QED
    BY <1>1, <1>2, MoveSlotInv

\* A poll that ends gives the slot back, one that goes on keeps it and answers the
\* question; a lane without the slot leaves it to its owner.
LEMMA ReleaseSlotInv ==
    ASSUME TypeOK, SlotInv, NEW l \in Lanes, Release(l) \/ CycleRaises(l)
    PROVE  SlotInv'
  <1>0. lane[l] \in LaneType /\ lane[l].polls \in BOOLEAN /\ inflight \in BOOLEAN
    BY DEF TypeOK, LaneType
  <1>1. PICK ln : ln = lane'[l]
    OBVIOUS
  <1>2. /\ \A j \in Lanes : j # l => lane'[j] = lane[j]
        /\ clock' = clock /\ again' = (again /\ ~lane[l].polls)
        /\ owed' = owed \/ (owed' = 0 /\ lane[l].polls)
    BY DEF Release, CycleRaises, Goto, TypeOK
  <1>3. CASE Release(l) /\ GoesOn(lane[l])
    <2>1. ln.pc = "lock" /\ ln.polls = lane[l].polls /\ inflight' = inflight /\ owed' = owed
      BY <1>0, <1>1, <1>3 DEF Release, Goto, TypeOK, LaneType
    <2>2. lane[l].polls /\ ~again' /\ inflight
      BY <1>2, <1>3 DEF GoesOn, SlotInv
    <2>3. Answers(ln, owed')
      BY <2>1 DEF Answers, Reading
    <2> QED
      BY <1>1, <1>2, <2>1, <2>2, <2>3 DEF SlotInv, Early
  <1>4. CASE (Release(l) /\ ~GoesOn(lane[l])) \/ CycleRaises(l)
    <2>1. ln = Idle /\ inflight' = (inflight /\ ~lane[l].polls)
      BY <1>0, <1>1, <1>4 DEF Release, CycleRaises, Goto, TypeOK, StillInflight
    <2>2. ln.pc = "idle" /\ ~ln.polls
      BY <2>1 DEF Idle
    <2>3. owed' <= clock'
      BY <1>2, Times DEF SlotInv
    <2>4. CASE lane[l].polls
      BY <1>1, <1>2, <2>1, <2>2, <2>3, <2>4 DEF SlotInv
    <2>5. CASE ~lane[l].polls
      <3>1. \A j \in Lanes : lane'[j].polls <=> lane[j].polls
        BY <1>1, <1>2, <2>2, <2>5
      <3>2. inflight' = inflight /\ again' = again /\ owed' = owed
        BY <1>0, <1>2, <2>1, <2>5 DEF TypeOK
      <3> QED
        BY <1>1, <1>2, <2>2, <2>3, <3>1, <3>2 DEF SlotInv
    <2> QED
      BY <2>4, <2>5
  <1> QED
    BY <1>3, <1>4

LEMMA OtherSlotInv ==
    ASSUME TypeOK, SlotInv,
           \/ (\E k \in Keys : Change(k) \/ Remove(k)) \/ FollowUp \/ Crash \/ UNCHANGED vars
    PROVE  SlotInv'
  <1>1. CASE \E k \in Keys : Change(k) \/ Remove(k)
    <2>1. clock' = clock + 1 /\ UNCHANGED <<lane, inflight, again, owed>>
      BY <1>1 DEF Change, Remove
    <2>2. owed' <= clock'
      BY <2>1, Times DEF SlotInv
    <2> QED
      BY <2>1, <2>2 DEF SlotInv
  <1>2. CASE FollowUp
    BY <1>2, Times DEF FollowUp, SlotInv
  <1>3. CASE Crash
    BY <1>3, Times DEF Crash, SlotInv, Idle
  <1>4. CASE UNCHANGED vars
    BY <1>4 DEF vars, SlotInv
  <1> QED
    BY <1>1, <1>2, <1>3, <1>4

-----------------------------------------------------------------------------
(* Together.                                                               *)

LEMMA NextTypeOK == TypeOK /\ [Next]_vars => TypeOK'
  <1>1. CASE UNCHANGED vars
    BY <1>1 DEF vars, TypeOK
  <1> QED
    BY <1>1, OutsideTypeOK, StartTypeOK, LockTypeOK, PassTypeOK, EndTypeOK, CrashTypeOK
       DEF Next, LaneStep, Failures

LEMMA NextGapInv ==
    ASSUME ~OriginLost, TypeOK, GapInv, [Next]_vars
    PROVE  GapInv'
  <1>1. CASE FollowUp \/ UNCHANGED vars
    BY <1>1, OtherGapInv DEF FollowUp, vars
  <1> QED
    BY <1>1, OutsideGapInv, StartGapInv, LockGapInv, TraverseGapInv, PlaceGapInv, SaveGapInv,
       EndGapInv, CrashGapInv DEF Next, LaneStep, Failures

LEMMA NextSlotInv == TypeOK /\ SlotInv /\ [Next]_vars => SlotInv'
  BY StartSlotInv, ClaimSlotInv, PassSlotInv, ReleaseSlotInv, OtherSlotInv
     DEF Next, LaneStep, Failures

\* The row, the lanes and what is stored keep their types.
THEOREM TypeCorrect == Spec => []TypeOK
  BY InitTypeOK, NextTypeOK, PTL DEF Spec

\* "Records before cursor": what the row's position covers is on this machine, whatever
\* lanes overlap, whichever copy of the row was saved last, wherever a pass failed and
\* whenever the server died; reflection must reach every file it is given.
THEOREM RecordsBeforeCursor ==
    ASSUME ~OriginLost
    PROVE  Spec => []NoGap
  <1>1. TypeOK /\ GapInv /\ [Next]_vars => TypeOK' /\ GapInv'
    BY NextTypeOK, NextGapInv
  <1>2. GapInv => NoGap
    BY DEF GapInv, Safe, NoGap
  <1> QED
    BY <1>1, <1>2, InitTypeOK, InitGapInv, PTL DEF Spec

\* "One source, one poll in flight": the slot is taken iff one lane holds it, and what is
\* noted for a running poll has a poll that will see it, however lanes that never claimed
\* the slot run beside it, fail and crash.
THEOREM SlotIsOwned == Spec => []SlotHasOwner
  <1>1. Spec => [](TypeOK /\ SlotInv)
    BY InitTypeOK, NextTypeOK, InitSlotInv, NextSlotInv, PTL DEF Spec
  <1>2. SlotInv => SlotHasOwner
    <2> SUFFICES ASSUME SlotInv PROVE SlotHasOwner
      OBVIOUS
    <2> DEFINE polls == {l \in Lanes : lane[l].polls}
    <2>1. polls = {} \/ \E l \in Lanes : polls = {l}
      BY DEF SlotInv
    <2>2. Cardinality(polls) \in {0, 1}
      BY <2>1, FS_EmptySet, FS_Singleton
    <2> QED
      BY <2>2 DEF SlotInv, SlotHasOwner
  <1> QED
    BY <1>1, <1>2, PTL

\* "Makes one more pass when its running poll ends": a poll gives its slot up only after
\* a pass that read the source since it was last asked for has ended cleanly, or after it
\* has failed on that question.
THEOREM PullsAreHonoured == Spec => PullIsHonoured
  <1>1. Spec => [](TypeOK /\ SlotInv)
    BY InitTypeOK, NextTypeOK, InitSlotInv, NextSlotInv, PTL DEF Spec
  <1>2. ASSUME TypeOK, SlotInv, [Next]_vars, inflight, ~inflight'
        PROVE  owed' = 0
    <2>1. CASE Crash
      BY <2>1 DEF Crash
    <2>2. CASE \E l \in Lanes : Release(l) \/ CycleRaises(l)
      <3>1. PICK l \in Lanes : Release(l) \/ CycleRaises(l)
        BY <2>2
      <3>2. CASE Release(l)
        <4>1. lane[l].polls /\ ~again
          BY <1>2, <3>2 DEF Release, StillInflight, GoesOn
        <4>2. Answers(lane[l], owed) /\ owed' = owed
          BY <1>2, <3>2, <4>1 DEF SlotInv, Release
        <4> QED
          BY <3>2, <4>2 DEF Answers, Release, At
      <3>3. CASE CycleRaises(l)
        BY <1>2, <3>3 DEF CycleRaises, StillInflight
      <3> QED
        BY <3>1, <3>2, <3>3
    <2>3. CASE ~Crash /\ ~\E l \in Lanes : Release(l) \/ CycleRaises(l)
      <3>1. inflight' = inflight \/ inflight'
        BY <1>2, <2>3 DEF Next, LaneStep, Change, Remove, FollowUp, Load, Claim, ClaimRefused,
           Unlatch, PollNow, SyncNow, PassFails, PreSchedule, PreScheduleFails, Acquire, Traverse,
           Place, DropGone, SavePosition, vars
      <3> QED
        BY <1>2, <3>1
    <2> QED
      BY <2>1, <2>2, <2>3
  <1>3. TypeOK /\ SlotInv /\ [Next]_vars => [inflight /\ ~inflight' => owed' = 0]_vars
    BY <1>2
  <1> QED
    BY <1>1, <1>3, PTL DEF Spec, PullIsHonoured
=============================================================================
