-------------------------- MODULE DocumentedClaims --------------------------
(***************************************************************************)
(* What the documentation says of the delivery path and the code does not  *)
(* do: each statement is refuted by a run of its own, in the mildest       *)
(* environment that shows it.                                              *)
(***************************************************************************)
EXTENDS DeliveryLifecycle

\* redis_driver.go:336: "Reload moves timeout/failed messages back to waiting".
\* A call that meets a batch of stale entries only counts 0 and ends the loop,
\* with messages that still need work behind it.
ReloadLeavesNothing ==
    [][mgr.pc = "reload" /\ mgr.src = "timeout" /\ mgr'.pc = "idle"
          => \A id \in Range(timeout') \cap DOMAIN msg :
                msg[id].status \in Terminal]_vars

\* docs/guide.md:515, the row "reservation expired" of the transition matrix:
\* `reserved -> timeout' with persisted status `timeout'.  No script writes that
\* status.
TimeoutHasItsStatus ==
    \A id \in Range(timeout) \cap DOMAIN msg : msg[id].status = "timeout"

\* README.md:127: max_attempts is "Max total attempts before moving to failed".
\* AttemptsAllowed lets the attempt numbered max_attempts through to a retry, so
\* there is one call of the handler more.
AttemptsTotal == \A id \in Ids : runs[id] <= MaxAttempts
=============================================================================
