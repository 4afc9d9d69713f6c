---- MODULE SingletonLock_proof ----
(***************************************************************************)
(* A singleton that is settled stays so, whatever starts, crashes or stops *)
(* around it, for any number of processes.                                 *)
(***************************************************************************)
EXTENDS SingletonLock, TLAPS

\* A process holds a lock just from Lock until it stops or dies.
SInv ==
    /\ TypeOK
    /\ \A p \in Procs : held[p] # None <=> pc[p] \in {"locked", "running"}

LEMMA InitSInv == Init => SInv
  BY NoneAssumption DEF Init, SInv, TypeOK

LEMMA LockSInv ==
    ASSUME SInv, NEW p \in Procs, Lock(p)
    PROVE  SInv'
  <1>1. PICK i \in Inodes : /\ file \in {i, None}
                            /\ \A q \in Procs : held[q] # i
                            /\ file' = i /\ held' = [held EXCEPT ![p] = i]
    BY DEF Lock
  <1>2. i # None
    BY NoneAssumption
  <1>3. pc[p] \in {"trying", "retrying"} /\ pc' = [pc EXCEPT ![p] = "locked"]
    BY DEF Lock
  <1>4. UNCHANGED <<sidecar, seen>>
    BY DEF Lock
  <1> QED
    BY <1>1, <1>2, <1>3, <1>4, NoneAssumption DEF SInv, TypeOK

LEMMA StepSInv == SInv /\ [Next]_vars => SInv'
  <1> SUFFICES ASSUME SInv, [Next]_vars
               PROVE  SInv'
    OBVIOUS
  <1>1. ASSUME NEW p \in Procs, Start(p) \/ WritePid(p) \/ ReadPid(p) \/ Probe(p) \/ UnlinkLock(p)
        PROVE  SInv'
    BY <1>1, NoneAssumption DEF Start, WritePid, ReadPid, Probe, UnlinkLock, Goes, SInv, TypeOK
  <1>2. ASSUME NEW p \in Procs, LockFails(p) \/ UnlinkPid(p)
        PROVE  SInv'
    BY <1>2, NoneAssumption DEF LockFails, UnlinkPid, SInv, TypeOK
  <1>3. ASSUME NEW p \in Procs, Release(p) \/ Crash(p)
        PROVE  SInv'
    BY <1>3, NoneAssumption DEF Release, Crash, Alive, Goes, SInv, TypeOK
  <1>4. CASE UNCHANGED vars
    BY <1>4 DEF vars, SInv, TypeOK
  <1> QED
    BY <1>1, <1>2, <1>3, <1>4, LockSInv DEF Next, Ended

\* Each step of another process finds the lock taken or the record of its holder.
LEMMA OthersKeepSecure ==
    ASSUME SInv, NEW h \in Procs, Secure(h), NEW p \in Procs, p # h,
           \/ Start(p) \/ Lock(p) \/ LockFails(p) \/ WritePid(p) \/ ReadPid(p) \/ Probe(p)
           \/ UnlinkLock(p) \/ UnlinkPid(p) \/ Release(p) \/ Crash(p)
    PROVE  Secure(h)'
  <1>1. held[h] # None /\ held[h] = file /\ pc[h] = "running"
    BY DEF SInv, Secure
  <1>2. \/ pc[p] \in {"out", "trying", "reading", "gone"}
        \/ pc[p] = "probing" /\ seen[p] = h
    BY DEF Secure
  <1>3. ~Lock(p)
    BY <1>1 DEF Lock
  <1>4. CASE Start(p)
    BY <1>4 DEF Start, Goes, Secure, SInv, TypeOK
  <1>5. CASE LockFails(p)
    BY <1>5, <1>2 DEF LockFails, Secure, SInv, TypeOK
  <1>6. CASE ReadPid(p)
    BY <1>6 DEF ReadPid, Goes, Secure, SInv, TypeOK
  <1>7. CASE Probe(p)
    <2>1. ~Stale(p)
      BY <1>7, <1>1, <1>2, NoneAssumption DEF Probe, Goes, Stale, Alive
    <2> QED
      BY <1>7, <2>1 DEF Probe, Goes, Secure, SInv, TypeOK
  <1>8. CASE Crash(p)
    BY <1>8 DEF Crash, Alive, Secure, SInv, TypeOK
  <1>9. ~WritePid(p) /\ ~UnlinkLock(p) /\ ~UnlinkPid(p) /\ ~Release(p)
    BY <1>2 DEF WritePid, UnlinkLock, UnlinkPid, Release, Goes
  <1> QED
    BY <1>3, <1>4, <1>5, <1>6, <1>7, <1>8, <1>9

\* Nobody overthrows a secure singleton: for any number of processes, starts and stops
\* that overlap in any way and crashes at any point.
THEOREM SecureStays == Spec => SecureHolderStays
  <1>1. ASSUME SInv, [Next]_vars
        PROVE  [\A h \in Procs : Secure(h) => Secure(h)' \/ pc'[h] # "running"]_vars
    <2> SUFFICES ASSUME NEW h \in Procs, Secure(h), Next, pc'[h] = "running"
                 PROVE  Secure(h)'
      BY <1>1
    <2>1. ASSUME NEW p \in Procs, p # h,
                 \/ Start(p) \/ Lock(p) \/ LockFails(p) \/ WritePid(p) \/ ReadPid(p) \/ Probe(p)
                 \/ UnlinkLock(p) \/ UnlinkPid(p) \/ Release(p) \/ Crash(p)
          PROVE  Secure(h)'
      BY <1>1, <2>1, OthersKeepSecure
    <2>2. ~(Start(h) \/ Lock(h) \/ LockFails(h) \/ WritePid(h) \/ ReadPid(h) \/ Probe(h)
            \/ UnlinkLock(h) \/ UnlinkPid(h))
      BY DEF Secure, Start, Lock, LockFails, WritePid, ReadPid, Probe, UnlinkLock, UnlinkPid, Goes
    <2>3. ~(Release(h) \/ Crash(h))
      BY <1>1 DEF Release, Crash, Goes, SInv, TypeOK
    <2>4. ~Ended
      BY DEF Ended, Secure
    <2> QED
      BY <2>1, <2>2, <2>3, <2>4 DEF Next
  <1> QED
    BY <1>1, InitSInv, StepSInv, PTL DEF Spec, SecureHolderStays
====
