---- MODULE MCPromptQueue ----
(***************************************************************************)
(* Small instances of PromptQueue.                                         *)
(***************************************************************************)
EXTENDS PromptQueue

CONSTANTS p1, p2, d1, o1, o2, none
====
