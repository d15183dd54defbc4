----------------------------- MODULE MCHandOff -----------------------------
(***************************************************************************)
(* The job of one credential file, and an imported capture with its retry. *)
(***************************************************************************)
EXTENDS HandOff

CONSTANTS j1, j2, j3, f1, f2

MCFileOf == [j \in Job |-> IF j = j1 THEN f1 ELSE f2]
=============================================================================
