---------------------------- MODULE MCEnvelope ----------------------------
(***************************************************************************)
(* Small instances of module Envelope for TLC.                             *)
(***************************************************************************)
EXTENDS Envelope, TLC

CONSTANTS c1, c2, f1

Symmetric == Permutations(Calls)
=============================================================================
