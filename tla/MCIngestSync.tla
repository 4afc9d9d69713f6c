---- MODULE MCIngestSync ----
(***************************************************************************)
(* Small instances of IngestSync.                                          *)
(***************************************************************************)
EXTENDS IngestSync

CONSTANTS k1, k2, l1, l2, none
====
