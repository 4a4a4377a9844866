---------------------------- MODULE MCDelivery ----------------------------
(***************************************************************************)
(* Small instances of module Delivery for TLC.                             *)
(***************************************************************************)
EXTENDS DocumentedClaims, TLC

CONSTANTS m1, m2, w1, w2, f1

OneId == {m1}
TwoIds == {m1, m2}
OneWorker == {w1}
TwoWorkers == {w1, w2}

\* retry_seconds
Immediate == <<0>>
TwoSeconds == <<2>>
Mixed == <<2, 0, 2>>

\* Late commits and management retries can add copies of an id to the lists
\* without end; states with more than two copies are not explored further.
FewCopies == \A id \in Ids : Copies(id) <= 2

Symmetric == Permutations({m1, m2}) \cup Permutations({w1, w2})
=============================================================================
