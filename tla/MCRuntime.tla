----------------------------- MODULE MCRuntime -----------------------------
(***************************************************************************)
(* Small instances of module QueueRuntime for TLC.                         *)
(***************************************************************************)
EXTENDS QueueRuntime

CONSTANTS m1, m2, m3
=============================================================================
