----------------------------- MODULE MCManager -----------------------------
(***************************************************************************)
(* Small instances of module Manager for TLC.                              *)
(***************************************************************************)
EXTENDS Manager

CONSTANTS c1, c2, q1, q2, p1

\* One queue with a consumer, one with a forwarder only.
OneConsumer == [q \in Queues |-> IF q = q1 THEN {p1} ELSE {}]

\* c1 owns the manager; c2 stops it or waits for it at any time.
OwnerAndOther ==
    [c \in Callers |-> IF c = c1 THEN {"start", "run", "timeout"} ELSE {"stop", "wait"}]

\* One of the two forwarders panics.
ConsumerAndForwarder == {<<q1, p1>>, <<q2, Forwarder>>}

\* Both start it.
TwoOwners == [c \in Callers |-> {"start", "stop"}]
=============================================================================
