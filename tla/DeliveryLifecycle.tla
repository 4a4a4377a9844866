------------------------- MODULE DeliveryLifecycle -------------------------
(***************************************************************************)
(* The delivery path implements the documented life cycle of a message, as *)
(* long as handlers finish before their leases end and nobody retries a    *)
(* message by id, flushes a bucket or lets a key expire.                   *)
(***************************************************************************)
EXTENDS Delivery

\* The queue position decides; the status tells only how a message that is in
\* no bucket left them.
Position(id) ==
    CASE id \in Range(waiting)    -> "waiting"
      [] id \in DOMAIN delayed    -> "delayed"
      [] id \in DOMAIN reserved   -> "reserved"
      [] id \in Range(timeout)    -> "timeout"
      [] id \in Range(failed)     -> "failed"
      [] id \notin Placed /\ id \in DOMAIN msg -> msg[id].status
      [] OTHER -> "none"

Tries(id) == IF id \in DOMAIN msg THEN msg[id].attempts ELSE 0

Lifecycle == INSTANCE MessageLifecycle
    WITH pos   <- [id \in Ids |-> Position(id)],
         tries <- [id \in Ids |-> Tries(id)]

\* Every step of producers, consumers, forwarders and managers moves messages
\* along rows of the documented transition matrix, or moves none.
FollowsLifecycle == Lifecycle!Spec
=============================================================================
