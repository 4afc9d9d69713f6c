---- MODULE MCSingletonLock ----
(***************************************************************************)
(* SingletonLock with interchangeable processes and inodes.                *)
(***************************************************************************)
EXTENDS SingletonLock, TLC

Identities == Permutations(Procs) \cup Permutations(Inodes)
====
