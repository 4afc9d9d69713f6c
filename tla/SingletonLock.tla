---- MODULE SingletonLock ----
(***************************************************************************)
(* flow_sdk/singleton_lock.py: one backend (or monitor) per instance, by a *)
(* kernel lock on a file and a pid sidecar that tells a stale lock from a  *)
(* live one.  A step is one file operation; the processes interleave and   *)
(* may crash between any two.  A lock belongs to the inode that was opened,*)
(* so unlinking the lock file takes nothing from its holder.               *)
(***************************************************************************)
EXTENDS FiniteSets

CONSTANTS
    Procs,  \* processes, by pid; a pid is used once
    Inodes, \* inodes the lock file may have
    None    \* no lock file, no inode, no pid

ASSUME NoneAssumption == None \notin Procs \cup Inodes

VARIABLES
    file,    \* the inode at lock_path
    sidecar, \* the pid recorded at pid_path
    held,    \* process -> the inode it holds locked
    seen,    \* process -> the holder it read in the sidecar
    pc       \* process -> where it is in acquire or release

vars == <<file, sidecar, held, seen, pc>>

TypeOK ==
    /\ file \in Inodes \cup {None}
    /\ sidecar \in Procs \cup {None}
    /\ held \in [Procs -> Inodes \cup {None}]
    /\ seen \in [Procs -> Procs \cup {None}]
    /\ pc \in [Procs -> {"out", "trying", "reading", "probing", "unlinking", "dropping",
                         "retrying", "locked", "running", "releasing", "gone"}]

Init ==
    /\ file = None /\ sidecar = None
    /\ held = [p \in Procs |-> None] /\ seen = [p \in Procs |-> None]
    /\ pc = [p \in Procs |-> "out"]

Goes(p, from, to) == pc[p] = from /\ pc' = [pc EXCEPT ![p] = to]

Alive(p) == pc[p] \notin {"out", "gone"}

Start(p) ==
    /\ Goes(p, "out", "trying")
    /\ UNCHANGED <<file, sidecar, held, seen>>

\* FileLock.acquire opens the lock file, creating it if it is absent, and locks it.
Lock(p) ==
    /\ pc[p] \in {"trying", "retrying"}
    /\ pc' = [pc EXCEPT ![p] = "locked"]
    /\ \E i \in Inodes :
        /\ file \in {i, None}
        /\ \A q \in Procs : held[q] # i
        /\ file' = i
        /\ held' = [held EXCEPT ![p] = i]
    /\ UNCHANGED <<sidecar, seen>>

\* A second failure is final: another process is running.
LockFails(p) ==
    /\ pc[p] \in {"trying", "retrying"}
    /\ file # None /\ \E q \in Procs : held[q] = file
    /\ pc' = [pc EXCEPT ![p] = IF @ = "trying" THEN "reading" ELSE "gone"]
    /\ UNCHANGED <<file, sidecar, held, seen>>

WritePid(p) ==
    /\ Goes(p, "locked", "running")
    /\ sidecar' = p
    /\ UNCHANGED <<file, held, seen>>

ReadPid(p) ==
    /\ Goes(p, "reading", "probing")
    /\ seen' = [seen EXCEPT ![p] = sidecar]
    /\ UNCHANGED <<file, sidecar, held>>

\* Mutant of Stale: the recorded holder is not probed.
StaleUnprobed(p) == seen[p] # p

Stale(p) == seen[p] = None \/ ~Alive(seen[p])

Probe(p) ==
    /\ Goes(p, "probing", IF Stale(p) THEN "unlinking" ELSE "gone")
    /\ UNCHANGED <<file, sidecar, held, seen>>

UnlinkLock(p) ==
    /\ Goes(p, "unlinking", "dropping")
    /\ file' = None
    /\ UNCHANGED <<sidecar, held, seen>>

\* The pid file is unlinked by a challenger, or by release.
UnlinkPid(p) ==
    /\ pc[p] \in {"dropping", "releasing"}
    /\ pc' = [pc EXCEPT ![p] = IF @ = "dropping" THEN "retrying" ELSE "gone"]
    /\ sidecar' = None
    /\ UNCHANGED <<file, held, seen>>

Release(p) ==
    /\ Goes(p, "running", "releasing")
    /\ held' = [held EXCEPT ![p] = None]
    /\ UNCHANGED <<file, sidecar, seen>>

\* The kernel releases the locks of a process that dies; the files stay.
Crash(p) ==
    /\ Alive(p)
    /\ pc' = [pc EXCEPT ![p] = "gone"]
    /\ held' = [held EXCEPT ![p] = None]
    /\ UNCHANGED <<file, sidecar, seen>>

Ended == (\A p \in Procs : pc[p] = "gone") /\ UNCHANGED vars

Next ==
    \/ \E p \in Procs :
        \/ Start(p) \/ Lock(p) \/ LockFails(p) \/ WritePid(p) \/ ReadPid(p) \/ Probe(p)
        \/ UnlinkLock(p) \/ UnlinkPid(p) \/ Release(p) \/ Crash(p)
    \/ Ended

Spec == Init /\ [][Next]_vars

-----------------------------------------------------------------------------

\* One singleton per instance: two processes never both hold the lock, whatever
\* crashed before with its lock file and its pid left behind.
MutualExclusion == \A p, q \in Procs : held[p] # None /\ held[q] # None => p = q

\* h runs, holds the lock on the present file and is recorded, and every other process
\* is down or a challenger that will meet that lock and that record: none has
\* looked at the files before h was recorded, and none is on its way out.
Secure(h) ==
    /\ pc[h] = "running" /\ held[h] = file /\ sidecar = h
    /\ \A p \in Procs \ {h} :
        \/ pc[p] \in {"out", "trying", "reading", "gone"}
        \/ pc[p] = "probing" /\ seen[p] = h

\* A secure singleton is overthrown by nobody, however many processes start against it
\* at the same time and wherever they crash: it stays the only one, holds the
\* present lock file and is recorded until it stops itself.  (acquire and release
\* promise more, and do not keep it while starts and stops overlap.)
SecureHolderStays == [][\A h \in Procs : Secure(h) => Secure(h)' \/ pc'[h] # "running"]_vars
====
