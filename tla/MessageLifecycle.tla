-------------------------- MODULE MessageLifecycle --------------------------
(***************************************************************************)
(* What the queue promises about each message, as its documentation puts   *)
(* it in a transition matrix: at any time a message is in one position,    *)
(* and it changes position along the rows of that matrix only.  The number *)
(* of attempts grows with each retry and with nothing else, and a message  *)
(* fails only when no attempt is left.                                     *)
(***************************************************************************)
EXTENDS Naturals

CONSTANTS Ids, MaxAttempts

VARIABLES
    pos,    \* id -> the bucket it is in or the way it left the buckets
    tries   \* id -> retries so far

vars == <<pos, tries>>

Positions == {"none", "waiting", "delayed", "reserved", "timeout", "failed",
              "done", "dropped", "canceled"}

Init == pos = [i \in Ids |-> "none"] /\ tries = [i \in Ids |-> 0]

\* The ids of S, one or more, leave position `from' for `to'.
Move(S, from, to) ==
    /\ S # {} /\ \A i \in S : pos[i] = from
    /\ pos' = [i \in Ids |-> IF i \in S THEN to ELSE pos[i]]

Push(id) ==
    /\ \E to \in {"waiting", "delayed"} : Move({id}, "none", to)
    /\ UNCHANGED tries

\* Due delays and expired reservations are moved in batches.
Forward ==
    /\ \E S \in SUBSET Ids : \/ Move(S, "delayed", "waiting")
                             \/ Move(S, "reserved", "timeout")
    /\ UNCHANGED tries

Acquire(id) == Move({id}, "waiting", "reserved") /\ UNCHANGED tries

\* ACK, DROP and REQUEUE
Commit(id) ==
    /\ \E to \in {"done", "dropped", "waiting"} : Move({id}, "reserved", to)
    /\ UNCHANGED tries

Retry(id) ==
    /\ tries[id] < MaxAttempts
    /\ \E to \in {"waiting", "delayed"} : Move({id}, "reserved", to)
    /\ tries' = [tries EXCEPT ![id] = @ + 1]

Fail(id) ==
    /\ tries[id] = MaxAttempts
    /\ Move({id}, "reserved", "failed")
    /\ UNCHANGED tries

Reload ==
    /\ \E S \in SUBSET Ids, from \in {"timeout", "failed"} :
            Move(S, from, "waiting")
    /\ UNCHANGED tries

Cancel(id) == Move({id}, "delayed", "canceled") /\ UNCHANGED tries

Next ==
    \/ \E id \in Ids : \/ Push(id) \/ Acquire(id) \/ Commit(id)
                       \/ Retry(id) \/ Fail(id) \/ Cancel(id)
    \/ Forward
    \/ Reload

Spec == Init /\ [][Next]_vars
=============================================================================
