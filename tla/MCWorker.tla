------------------------------ MODULE MCWorker ------------------------------
(***************************************************************************)
(* Small instances of module Worker for TLC.                               *)
(***************************************************************************)
EXTENDS Worker

CONSTANTS c1, c2, c3
=============================================================================
