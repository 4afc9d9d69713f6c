----------------------------- MODULE IngestSync -----------------------------
(***************************************************************************)
(* One data source and the passes that mirror it: the sync cycle           *)
(* (ingest/sync.py), the traversal it asks a driver for                    *)
(* (ingest/driver_runtime.py), and the lanes that start cycles             *)
(* (ingest/poller.py, and "Sync now", which calls sync_source directly).   *)
(*                                                                         *)
(* A lane loads the source's row once, before it claims or waits for       *)
(* anything, and carries its copy through every pass it makes.  A source   *)
(* whose health is config_error is parked: the heartbeat leaves it alone   *)
(* until a person acts (health.py).  The outside system is a set of keys   *)
(* with versions: each change takes the next version, so a version is also *)
(* a point in time.                                                        *)
(***************************************************************************)
EXTENDS Integers, FiniteSets

CONSTANTS
    Keys,        \* records or files of the source
    Kinds,       \* the kinds of source the instance covers, see below
    Lanes,       \* coroutines that poll or sync the source
    OriginLost,  \* whether reflection may fail to reach the origin's tree
    NoLane,      \* the cycle lock is free
    MaxChanges,  \* bound: changes of the outside system
    MaxFaults    \* bound: failed passes, failed saves and crashes

\* "log":     a durable cursor; a pass lists what changed after it.
\* "listing": lists_everything; records that are not listed are gone.
\* "files":   reflected files, diffed against the manifest of the last pass.
ASSUME IngestSyncAssumption ==
    /\ Kinds \subseteq {"log", "listing", "files"}
    /\ OriginLost \in BOOLEAN /\ NoLane \notin Lanes
    /\ MaxChanges \in Nat /\ MaxFaults \in Nat

VARIABLES
    kind,     \* the kind of this source
    clock,    \* changes of the outside system so far
    up,       \* up[k]: the version of k outside, 0 when it has no k
    stored,   \* stored[k]: the version of k on this machine, 0 when it has none
    pos,      \* the row's position and health
    lane,     \* lane[l]: a coroutine
    inflight, \* _inflight holds the source
    again,    \* _again holds the source
    cycle,    \* who holds the source's lock of _CYCLES
    faults,   \* failures so far
    owed      \* history: the clock when the poll was last asked to look, if it still owes
              \* an answer, or 0

vars == <<kind, clock, up, stored, pos, lane, inflight, again, cycle, faults, owed>>

Time == 0..MaxChanges
Versions == [Keys -> Time]
Nothing == [k \in Keys |-> 0]

\* cursor, manifest and health of the row.
Health == {"never_synced", "ok", "transient_error", "config_error"}
Position == [cursor : Time, manifest : Versions, health : Health]
Pc == {"idle", "loaded", "unlatching", "claimed", "lock", "cycle", "placing", "ending", "after"}
LaneType == [pc : Pc, at : Position, snap : Versions, upto : Time,
             todo : SUBSET Keys, polls : BOOLEAN]

NewPosition == [cursor |-> 0, manifest |-> Nothing, health |-> "never_synced"]
Idle == [pc |-> "idle", at |-> NewPosition, snap |-> Nothing, upto |-> 0,
         todo |-> {}, polls |-> FALSE]

Init ==
    /\ kind \in Kinds
    /\ clock = 0 /\ up = Nothing /\ stored = Nothing
    /\ pos = NewPosition
    /\ lane = [l \in Lanes |-> Idle]
    /\ inflight = FALSE /\ again = FALSE /\ cycle = NoLane
    /\ faults = 0 /\ owed = 0

At(l, pc) == lane[l].pc = pc
Goto(l, ln) == lane' = [lane EXCEPT ![l] = ln]

-----------------------------------------------------------------------------
(* The outside system.                                                     *)

Change(k) ==
    /\ clock < MaxChanges
    /\ clock' = clock + 1
    /\ up' = [up EXCEPT ![k] = clock + 1]
    /\ UNCHANGED <<kind, stored, pos, lane, inflight, again, cycle, faults, owed>>

\* A log reports no removals.
Remove(k) ==
    /\ clock < MaxChanges /\ kind # "log" /\ up[k] # 0
    /\ clock' = clock + 1
    /\ up' = [up EXCEPT ![k] = 0]
    /\ UNCHANGED <<kind, stored, pos, lane, inflight, again, cycle, faults, owed>>

-----------------------------------------------------------------------------
(* Starting a pass.                                                        *)

Parked(p) == p.health = "config_error"

\* A row is loaded, and something awaited, before the slot is claimed: by the heartbeat
\* and the attention lane when the source may be polled and no poll is in flight, by a
\* caller of poll_source (beat = FALSE) in any state.
Load(l, beat) ==
    /\ At(l, "idle") /\ (beat => ~Parked(pos) /\ ~inflight)
    /\ Goto(l, [Idle EXCEPT !.pc = "loaded", !.at = pos])
    /\ UNCHANGED <<kind, clock, up, stored, pos, inflight, again, cycle, faults, owed>>

Claim(l) ==
    /\ At(l, "loaded") /\ ~inflight
    /\ inflight' = TRUE /\ owed' = clock
    /\ Goto(l, [lane[l] EXCEPT !.pc = "claimed", !.polls = TRUE])
    /\ UNCHANGED <<kind, clock, up, stored, pos, again, cycle, faults>>

ClaimRefused(l) ==
    /\ At(l, "loaded") /\ inflight
    /\ Goto(l, Idle)
    /\ UNCHANGED <<kind, clock, up, stored, pos, inflight, again, cycle, faults, owed>>

\* poll_source(follow_up=True) while a poll is in flight.
FollowUp ==
    /\ inflight
    /\ again' = TRUE /\ owed' = clock
    /\ UNCHANGED <<kind, clock, up, stored, pos, lane, inflight, cycle, faults>>

\* "Sync now", and a reply that is waited for: no slot is claimed.
SyncNow(l) ==
    /\ At(l, "idle")
    /\ Goto(l, [Idle EXCEPT !.pc = "lock", !.at = pos])
    /\ UNCHANGED <<kind, clock, up, stored, pos, inflight, again, cycle, faults, owed>>

\* A person asks for a poll of a parked source: the row is loaded, unlatched and saved.
\* Its health is OK, or NEVER_SYNCED if no pass ever ended.
Unlatch(l) ==
    /\ At(l, "idle") /\ Parked(pos)
    /\ Goto(l, [Idle EXCEPT !.pc = "unlatching", !.at = pos])
    /\ UNCHANGED <<kind, clock, up, stored, pos, inflight, again, cycle, faults, owed>>

PollNow(l) ==
    /\ At(l, "unlatching")
    /\ \E h \in {"never_synced", "ok"} : pos' = [lane[l].at EXCEPT !.health = h]
    /\ Goto(l, Idle)
    /\ UNCHANGED <<kind, clock, up, stored, inflight, again, cycle, faults, owed>>

\* _run_poll stamps the next due time, and saves every runtime field of its copy with it.
PreSchedule(l) ==
    /\ At(l, "claimed")
    /\ pos' = lane[l].at
    /\ Goto(l, [lane[l] EXCEPT !.pc = "lock"])
    /\ UNCHANGED <<kind, clock, up, stored, inflight, again, cycle, faults, owed>>

\* That save may raise; the poll goes on.
PreScheduleFails(l) ==
    /\ At(l, "claimed") /\ faults < MaxFaults
    /\ faults' = faults + 1
    /\ Goto(l, [lane[l] EXCEPT !.pc = "lock"])
    /\ UNCHANGED <<kind, clock, up, stored, pos, inflight, again, cycle, owed>>

Acquire(l) ==
    /\ At(l, "lock") /\ cycle = NoLane
    /\ cycle' = l
    /\ Goto(l, [lane[l] EXCEPT !.pc = "cycle"])
    /\ UNCHANGED <<kind, clock, up, stored, pos, inflight, again, faults, owed>>

-----------------------------------------------------------------------------
(* One cycle.                                                              *)

\* What a traversal from position p brings back when the outside system is as in now.
Found(now, p) ==
    CASE kind = "log" -> {k \in Keys : now[k] > p.cursor}
      [] kind = "listing" -> {k \in Keys : now[k] # 0}
      [] kind = "files" -> {k \in Keys : now[k] # 0 /\ now[k] # p.manifest[k]}

\* The outside system is read as it is, from the position of the lane's copy.
Traverse(l) ==
    /\ At(l, "cycle")
    /\ Goto(l, [lane[l] EXCEPT !.pc = "placing", !.snap = up, !.upto = clock,
                               !.todo = Found(up, lane[l].at)])
    /\ UNCHANGED <<kind, clock, up, stored, pos, inflight, again, cycle, faults, owed>>

\* ingest_items writes one record after the other, reflect_refs one file.  A file whose
\* origin cannot be materialized is skipped, in a report nobody reads.
Place(l, k, reached) ==
    /\ At(l, "placing") /\ k \in lane[l].todo
    /\ ~reached => OriginLost /\ kind = "files"
    /\ stored' = IF reached THEN [stored EXCEPT ![k] = lane[l].snap[k]] ELSE stored
    /\ Goto(l, [lane[l] EXCEPT !.todo = @ \ {k}])
    /\ UNCHANGED <<kind, clock, up, pos, inflight, again, cycle, faults, owed>>

\* Mutant of Gone: nothing is ever taken away.
GoneNever(ln) == {}

\* What the pass proves gone: every stored record it does not list, every file of the
\* manifest it does not list.
Gone(ln) ==
    CASE kind = "log" -> {}
      [] kind = "listing" -> {k \in Keys : ln.snap[k] = 0}
      [] kind = "files" -> {k \in Keys : ln.snap[k] = 0 /\ ln.at.manifest[k] # 0}

DropGone(l) ==
    /\ At(l, "placing") /\ lane[l].todo = {}
    /\ stored' = [k \in Keys |-> IF k \in Gone(lane[l]) THEN 0 ELSE stored[k]]
    /\ Goto(l, [lane[l] EXCEPT !.pc = "ending"])
    /\ UNCHANGED <<kind, clock, up, pos, inflight, again, cycle, faults, owed>>

\* Mutant of Reached: the cursor is one change ahead of what was read.
ReachedAndOne(ln) ==
    [cursor |-> IF kind = "log" THEN ln.upto + 1 ELSE 0,
     manifest |-> IF kind = "files" THEN ln.snap ELSE Nothing,
     health |-> "ok"]

\* The position the pass carries to the next one.
Reached(ln) ==
    [cursor |-> IF kind = "log" THEN ln.upto ELSE 0,
     manifest |-> IF kind = "files" THEN ln.snap ELSE Nothing,
     health |-> "ok"]

\* Nothing arrived, the position did not move and the row reads healthy: no write.
IdlePass(ln) == kind # "listing" /\ Reached(ln) = ln.at

SavePosition(l) ==
    /\ At(l, "ending")
    /\ pos' = IF IdlePass(lane[l]) THEN pos ELSE Reached(lane[l])
    /\ owed' = IF lane[l].upto >= owed THEN 0 ELSE owed
    /\ Goto(l, [lane[l] EXCEPT !.pc = "after", !.at = Reached(lane[l]),
                               !.snap = Nothing, !.upto = 0])
    /\ UNCHANGED <<kind, clock, up, stored, inflight, again, cycle, faults>>

\* Mutant of Kept: a failed pass keeps the position it was about to reach.
KeptAhead(ln, h) == [Reached(ln) EXCEPT !.health = h]

Kept(ln, h) == [ln.at EXCEPT !.health = h]

\* A pass that is refused beforehand, or raises, leaves the position of its copy where it
\* was and records the failure's class.
PassFails(l, h) ==
    /\ lane[l].pc \in {"cycle", "placing"} /\ faults < MaxFaults
    /\ faults' = faults + 1
    /\ owed' = IF lane[l].polls /\ ~again THEN 0 ELSE owed
    /\ pos' = Kept(lane[l], h)
    /\ Goto(l, [lane[l] EXCEPT !.pc = "after", !.at = Kept(lane[l], h),
                               !.snap = Nothing, !.upto = 0, !.todo = {}])
    /\ UNCHANGED <<kind, clock, up, stored, inflight, again, cycle>>

\* Mutants of GoesOn and of StillInflight: what was asked for meanwhile is forgotten;
\* a lane that never claimed the slot gives it back.
GoesOnNever(ln) == FALSE

StillInflightFreed(ln) == FALSE

GoesOn(ln) == ln.polls /\ again

StillInflight(ln) == inflight /\ ~ln.polls

\* The lock is released; a poll that was asked for more makes another pass with the row
\* it holds, any other gives up its slot.
Release(l) ==
    /\ At(l, "after")
    /\ cycle' = NoLane
    /\ IF GoesOn(lane[l])
         THEN /\ Goto(l, [lane[l] EXCEPT !.pc = "lock"])
              /\ UNCHANGED inflight
         ELSE /\ Goto(l, Idle)
              /\ inflight' = StillInflight(lane[l])
    /\ again' = (again /\ ~lane[l].polls)
    /\ UNCHANGED <<kind, clock, up, stored, pos, faults, owed>>

\* The save of a position or of a failure raises, before or after it wrote the row, or
\* what is asked before the traversal does: the exception leaves sync_source, and a poll
\* gives its slot back and drops what it was asked for meanwhile.
CycleRaises(l) ==
    /\ lane[l].pc \in {"cycle", "placing", "ending", "after"} /\ faults < MaxFaults
    /\ faults' = faults + 1
    /\ owed' = IF lane[l].polls THEN 0 ELSE owed
    /\ cycle' = NoLane
    /\ Goto(l, Idle)
    /\ inflight' = StillInflight(lane[l])
    /\ again' = (again /\ ~lane[l].polls)
    /\ UNCHANGED <<kind, clock, up, stored, pos>>

\* The server dies: what is stored stays, everything else is gone.
Crash ==
    /\ faults < MaxFaults
    /\ faults' = faults + 1
    /\ lane' = [l \in Lanes |-> Idle]
    /\ inflight' = FALSE /\ again' = FALSE /\ cycle' = NoLane
    /\ owed' = 0
    /\ UNCHANGED <<kind, clock, up, stored, pos>>

-----------------------------------------------------------------------------
\* What the loop does for a lane under way; a failure is never owed.
LaneStep(l) ==
    \/ Claim(l) \/ ClaimRefused(l) \/ PollNow(l) \/ PreSchedule(l) \/ Acquire(l) \/ Traverse(l)
    \/ (\E k \in Keys, reached \in BOOLEAN : Place(l, k, reached))
    \/ DropGone(l) \/ SavePosition(l) \/ Release(l)

Next ==
    \/ \E k \in Keys : Change(k) \/ Remove(k)
    \/ FollowUp \/ Crash
    \/ \E l \in Lanes :
        \/ (\E beat \in BOOLEAN : Load(l, beat)) \/ SyncNow(l) \/ Unlatch(l) \/ LaneStep(l)
        \/ PreScheduleFails(l) \/ CycleRaises(l)
        \/ \E h \in {"transient_error", "config_error"} : PassFails(l, h)

Spec == Init /\ [][Next]_vars

\* The loop resumes lanes, and the heartbeat selects an active source again and again,
\* unless it is parked: whoever could unlatch it need not.  An asyncio lock serves its
\* waiters in turn: no lane waits for it for ever.
FairSpec ==
    /\ Spec
    /\ \A l \in Lanes : WF_vars(LaneStep(l)) /\ SF_vars(Acquire(l))
    /\ WF_vars(\E l \in Lanes : Load(l, TRUE))

-----------------------------------------------------------------------------
(* Properties.                                                             *)

TypeOK ==
    /\ kind \in Kinds /\ clock \in Time
    /\ up \in Versions /\ stored \in Versions
    /\ pos \in Position
    /\ lane \in [Lanes -> LaneType]
    /\ inflight \in BOOLEAN /\ again \in BOOLEAN
    /\ cycle \in Lanes \cup {NoLane}
    /\ faults \in 0..MaxFaults /\ owed \in Time

\* A position says that the present version of k has been read.
Covers(p, k) ==
    /\ up[k] # 0
    /\ \/ kind = "log" /\ up[k] <= p.cursor
       \/ kind = "files" /\ up[k] = p.manifest[k]

\* "Records before cursor ... a crash costs a partial re-fetch and can never open a gap"
\* (sync.py): what the row's position covers is on this machine, whatever lanes overlap,
\* whichever stale copy of the row was saved last, and wherever a pass failed or died.
NoGap == \A k \in Keys : Covers(pos, k) => stored[k] = up[k]

\* One source, one poll in flight (poller.py): a slot that is taken has a lane that will
\* give it back, so the source cannot be locked out of polling, and a follow-up that is
\* noted has a lane that will see it.
SlotHasOwner ==
    /\ inflight <=> \E l \in Lanes : lane[l].polls
    /\ Cardinality({l \in Lanes : lane[l].polls}) <= 1
    /\ again => inflight

\* "makes one more pass when its running poll ends" (poll_source): however the question
\* fell into the passes that were running, a poll does not give its slot up before a pass
\* that read the source as it was when it was last asked for, or later, has ended cleanly;
\* unless it failed on that question: in a pass that left no question open, or by an
\* exception, which drops the question.  (A restart forgets it, too.)
PullIsHonoured == [][inflight /\ ~inflight' => owed' = 0]_vars

\* A source that stops changing, and fails finitely often, is mirrored: everything it has
\* is here, and for one that lists everything, nothing else is.  Unless a failure has
\* parked it and nobody unlatches it.
Mirrored ==
    \A k \in Keys : (up[k] # 0 \/ kind = "listing") => stored[k] = up[k]
Converges == <>[]Mirrored \/ <>[]Parked(pos)
=============================================================================
