--------------------------- MODULE ForwarderLoop ---------------------------
(***************************************************************************)
(* forwarder.Run: the polling loop that forwards delayed messages to       *)
(* waiting and expired reservations to timeout.                            *)
(***************************************************************************)
EXTENDS QueueEnv

CONSTANTS ErrorRetryBackoff, ErrorRetryMaxBackoff   \* the fields; 0 where unset

ASSUME ForwarderAssumption == {ErrorRetryBackoff, ErrorRetryMaxBackoff} \subseteq Int

VARIABLES
    fwd,        \* where the loop is
    errs,       \* errorBackoff
    timer,      \* what the timer was last set to
    fwdErrors   \* history: errors of ForwardMessages in a row

forwarderVars == <<fwd, errs, timer, fwdErrors>>

\* normalizeIntervals; the intervals of an idle and of a busy poll are equal
pollInterval == 1
errorRetryBackoff == IF ErrorRetryBackoff <= 0 THEN 2 ELSE ErrorRetryBackoff
errorRetryMaxBackoff ==
    IF ErrorRetryMaxBackoff < errorRetryBackoff THEN errorRetryBackoff ELSE ErrorRetryMaxBackoff

ForwarderInit ==
    /\ fwd = "select"
    /\ errs = newBackoff(errorRetryBackoff, errorRetryMaxBackoff)
    /\ timer = 0
    /\ fwdErrors = 0

\* moveScript and moveTimeoutScript
MoveDelayed(f) == [m \in Messages |-> IF f[m] = "delayed" THEN "waiting" ELSE f[m]]
MoveTimeout(f) == [m \in Messages |-> IF f[m] = "orphaned" THEN "timeout" ELSE f[m]]

\* The timer fires, ForwardMessages succeeds, and the next poll is set.
ForwardOk ==
    /\ fwd = "select"
    /\ at' = MoveTimeout(MoveDelayed(at))
    /\ errs' = Reset(errs) /\ fwdErrors' = 0
    /\ timer' = pollInterval
    /\ UNCHANGED <<ctxDone, faults, fwd>>

\* Mutant: an error ends the loop.
ForwardFailsForGood ==
    /\ fwd = "select"
    /\ CommandFails
    /\ at' \in {at, MoveDelayed(at)}
    /\ fwd' = "returned"
    /\ UNCHANGED <<ctxDone, errs, timer, fwdErrors>>

\* Its first or its second script fails.
ForwardFails ==
    /\ fwd = "select"
    /\ CommandFails
    /\ at' \in {at, MoveDelayed(at)}
    /\ \/ ctxDone /\ fwd' = "returned" /\ UNCHANGED <<errs, timer, fwdErrors>>
       \/ /\ ~ctxDone
          /\ timer' = errs.current
          /\ errs' = Advance(errs)
          /\ fwdErrors' = fwdErrors + 1
          /\ UNCHANGED fwd
    /\ UNCHANGED ctxDone

\* Mutant: the select has no case for the context.
ForwarderNeverStops == FALSE /\ UNCHANGED <<envVars, forwarderVars>>

ForwarderStops ==
    /\ fwd = "select" /\ ctxDone
    /\ fwd' = "returned"
    /\ UNCHANGED <<envVars, errs, timer, fwdErrors>>

ForwarderNext == ForwardOk \/ ForwardFails \/ ForwarderStops
=============================================================================
