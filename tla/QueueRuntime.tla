---------------------------- MODULE QueueRuntime ----------------------------
(***************************************************************************)
(* The goroutines of one queue at work: a consumer, its handlers and the   *)
(* forwarder, with one context and one Redis.                              *)
(***************************************************************************)
EXTENDS ConsumerLoop, ForwarderLoop

vars == <<envVars, consumerVars, forwarderVars>>

Init == EnvInit /\ ConsumerInit /\ ForwarderInit

Next ==
    \/ ConsumerNext /\ UNCHANGED forwarderVars
    \/ ForwarderNext /\ UNCHANGED consumerVars
    \/ Cancel /\ UNCHANGED <<consumerVars, forwarderVars>>

\* Goroutines are scheduled, timers fire, Redis answers or fails, handlers
\* return (they get a context with handleTimeout); in the forwarder's select a
\* canceled context stays ready, so it is taken in the end.
Fairness ==
    /\ WF_vars(LoopStep /\ UNCHANGED forwarderVars)
    /\ \A m \in Messages : WF_vars(HandlerStep(m) /\ UNCHANGED forwarderVars)
    /\ WF_vars(ForwardOk /\ UNCHANGED consumerVars)
    /\ WF_vars(ForwarderStops /\ UNCHANGED consumerVars)

Spec == Init /\ [][Next]_vars /\ Fairness

-----------------------------------------------------------------------------
(* Properties. *)

Dead == {"gone", "forgotten", "orphaned", "timeout"}

\* Run returns only when no handler goroutine of it is left, whichever of its
\* ways out it takes (cancellation at the top, in Pop or in the backoff, a fatal
\* error, max_messages), and a message it claimed is then either handled to the
\* end or in reserved for the forwarder, never in between.
Drained ==
    loop = "returned" => \A m \in Messages : at[m] \in Dead \cup {"delayed", "waiting"}

\* A consumer holds at most one message more than it has slots: the one popped
\* before the semaphore is taken, whose lease is already running.  The others
\* it claimed have a slot, or their goroutine has done its work.
OneAhead ==
    /\ Cardinality(At({"claimed", "loaded"})) <= 1
    /\ Cardinality(At({"handling", "finished"})) <= concurrentLimit

\* With auto restart a run takes exactly max_messages, unless it is canceled or
\* fails.
TakesMaxMessages ==
    AutoRestart /\ maxMessages > 0 =>
        /\ count <= maxMessages
        /\ loop = "returned" /\ ~ctxDone /\ result = "nil" => count = maxMessages

\* The waiting times double from the initial one up to the limit, start again
\* after a success, and are the same for the loops of consumer and forwarder.
BackoffDoubles ==
    /\ pop.current = AfterErrors(pop, popErrors)
    /\ errs.current = AfterErrors(errs, fwdErrors)
    /\ fwdErrors > 0 => timer = AfterErrors(errs, fwdErrors - 1)

\* forwarder.go:45: "the forwarder only stops when ctx is canceled".
ForwarderStays == fwd = "returned" => ctxDone

\* Both runners return after their context is canceled, wherever they are.
ConsumerReturns == ctxDone ~> loop = "returned"
ForwarderReturns == ctxDone ~> fwd = "returned"

\* While the consumer runs, a delayed message is taken although commands fail:
\* neither loop gives up for an error that can be waited out.
DelayedTaken ==
    \A m \in Messages :
        at[m] = "delayed" ~> at[m] \notin {"delayed", "waiting"} \/ loop \in {"drain", "returned"}
=============================================================================
