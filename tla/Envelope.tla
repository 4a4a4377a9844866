------------------------------ MODULE Envelope ------------------------------
(***************************************************************************)
(* The way of a payload through the message key: Queue.PushTask encodes    *)
(* it, Push stores it under a fresh id, the scripts decode and encode the  *)
(* whole entity with cjson whenever they change its status, Retry decodes  *)
(* and encodes it in Go, and the handler gets what Pop's loadMessage reads.*)
(*                                                                         *)
(* A payload is a JSON object, of which only the kinds of its values       *)
(* matter.  Go keeps a payload as json.RawMessage and writes it back as it *)
(* is.  cjson does not: an empty array and an empty object are the same    *)
(* empty Lua table, written {}, and a number is a double written with 14   *)
(* digits.                                                                 *)
(***************************************************************************)
EXTENDS Sequence

CONSTANTS Fields    \* names of the fields of a task

\* Kinds of JSON values; "rounded" is what is left of a long number.
Kinds == {"text", "short", "long", "rounded", "list", "emptylist", "emptyobject"}

\* What json.Marshal makes of a task.
Payloads == [Fields -> Kinds \ {"rounded"}]
NoPayload == [f \in Fields |-> "none"]

VARIABLES
    payload,    \* call -> the payload pushed with it
    acked,      \* calls whose pushScript was answered
    stored,     \* message keys: id -> payload in the entity
    claims,     \* ids popped by a consumer that has not loaded them yet
    held,       \* id -> payload in the hands of a Retry call
    delivered   \* call -> what the handler was given

envelopeVars == <<payload, acked, stored, claims, held, delivered>>
vars == <<seq, epoch, got, lost, payload, acked, stored, claims, held, delivered>>

Init ==
    /\ SequenceInit
    /\ payload \in [Calls -> Payloads]
    /\ acked = {}
    /\ stored = <<>>
    /\ claims = {}
    /\ held = <<>>
    /\ delivered = [c \in Calls |-> NoPayload]

\* SET
Set(f, id, p) == [i \in DOMAIN f \cup {id} |-> IF i = id THEN p ELSE f[i]]

\* cjson.encode(cjson.decode(p))
cjsonRoundTrip(p) ==
    [f \in Fields |-> IF p[f] = "emptylist" THEN "emptyobject" ELSE
                      IF p[f] = "long" THEN "rounded" ELSE p[f]]

Issue(c) == GenerateID(c) /\ UNCHANGED envelopeVars

\* pushScript under the id of this call; without a reply it is sent again.
Store(c) ==
    /\ got[c] # NoId /\ c \notin acked
    /\ stored' = Set(stored, got[c], payload[c])
    /\ \/ acked' = acked \cup {c} /\ UNCHANGED lost
       \/ lost < MaxLost /\ lost' = lost + 1 /\ UNCHANGED acked
    /\ UNCHANGED <<seq, epoch, got, payload, claims, held, delivered>>

\* popScript sets the status to reserved and hands the id to a consumer.
PopRewrite(id) ==
    /\ stored' = Set(stored, id, cjsonRoundTrip(stored[id]))
    /\ claims' = claims \cup {id}
    /\ UNCHANGED <<seqVars, payload, acked, held, delivered>>

\* The forwarder, a requeue, a reload or a commit changes the status.
StatusRewrite(id) ==
    /\ stored' = Set(stored, id, cjsonRoundTrip(stored[id]))
    /\ UNCHANGED <<seqVars, payload, acked, claims, held, delivered>>

\* Retry: DecodeMessage of the entity, and later SET of Message.Encode.
RetryLoad(id) ==
    /\ held' = Set(held, id, stored[id])
    /\ UNCHANGED <<seqVars, payload, acked, stored, claims, delivered>>

RetryWrite(id) ==
    /\ id \in DOMAIN held
    /\ stored' = Set(stored, id, held[id])
    /\ held' = [i \in DOMAIN held \ {id} |-> held[i]]
    /\ UNCHANGED <<seqVars, payload, acked, claims, delivered>>

\* loadMessage after a pop; the handler gets the payload.
Deliver(c) ==
    /\ got[c] \in claims
    /\ claims' = claims \ {got[c]}
    /\ delivered' = [delivered EXCEPT ![c] = stored[got[c]]]
    /\ UNCHANGED <<seqVars, payload, acked, stored, held>>

Next ==
    \/ \E c \in Calls : Issue(c) \/ Store(c) \/ Deliver(c)
    \/ \E id \in DOMAIN stored : PopRewrite(id) \/ StatusRewrite(id)
                                 \/ RetryLoad(id) \/ RetryWrite(id)

Spec == Init /\ [][Next]_vars

-----------------------------------------------------------------------------
(* Properties. *)

\* p is what the producer of call c pushed, rewritten by scripts or not.
IsPayloadOf(p, c) == p \in {payload[c], cjsonRoundTrip(payload[c])}

\* A handler never gets the payload of another message, and however often the
\* scripts, a resent push or a Retry with an old body rewrite the entity, the
\* payload is changed by the first cjson rewrite only: every delivery of a
\* message sees one of two payloads.
DeliversOwn ==
    \A c \in Calls : delivered[c] # NoPayload => IsPayloadOf(delivered[c], c)

\* Why: every copy of a payload lies under the id of its own call.
CopiesOwn ==
    /\ \A id \in DOMAIN stored : \E c \in Calls : got[c] = id
    /\ \A c \in Calls : got[c] # NoId /\ got[c] \in DOMAIN stored
                         => IsPayloadOf(stored[got[c]], c)
    /\ \A c \in Calls : got[c] # NoId /\ got[c] \in DOMAIN held
                         => IsPayloadOf(held[got[c]], c)
=============================================================================
