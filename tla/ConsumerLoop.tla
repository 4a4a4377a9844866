---------------------------- MODULE ConsumerLoop ----------------------------
(***************************************************************************)
(* Consumer.Run: the polling loop of one consumer with its semaphore, its  *)
(* backoff, its counters and its way out, and the handler goroutines it    *)
(* starts.  What handleOne commits to Redis is in module Delivery; of the  *)
(* counters those are kept that decide something.                          *)
(***************************************************************************)
EXTENDS QueueEnv

CONSTANTS   \* the options given to NewConsumer; 0 where none is given
    Concurrent, AutoRestart, MaxMessages, PopRetryBackoff, PopRetryMaxBackoff

ASSUME ConsumerAssumption ==
    /\ AutoRestart \in BOOLEAN
    /\ {Concurrent, MaxMessages, PopRetryBackoff, PopRetryMaxBackoff} \subseteq Int

VARIABLES
    loop,       \* where the loop is
    pop,        \* popRetryBackoff
    count,      \* messages of this run, as count and processed have it
    errors,     \* the counter errors; concurrentErr is nil exactly at 0
    result,     \* what Run returned
    popErrors   \* history: errors of Pop in a row that were waited out

consumerVars == <<loop, pop, count, errors, result, popErrors>>

\* The options that take effect.
Positive(given, default) == IF given > 0 THEN given ELSE default
concurrentLimit == Positive(Concurrent, 10)
maxMessages == IF MaxMessages >= 0 THEN MaxMessages ELSE 0
popRetryBackoff == Positive(PopRetryBackoff, 1)
popRetryMaxBackoff ==
    LET max == Positive(PopRetryMaxBackoff, 30)
    IN  IF max < popRetryBackoff THEN popRetryBackoff ELSE max

\* Kinds of errors that Pop returns while the context is not canceled.
PopErrors == {"network", "timeout", "server state", "decode", "refused"}

\* EOF, timeouts, connection errors, LOADING, READONLY, CLUSTERDOWN and so on
isRetryablePopError(e) == e \in {"network", "timeout", "server state"}

ConsumerInit ==
    /\ loop = "top"
    /\ pop = newBackoff(popRetryBackoff, popRetryMaxBackoff)
    /\ count = 0 /\ errors = 0
    /\ result = "none"
    /\ popErrors = 0

-----------------------------------------------------------------------------
(* The loop. *)

\* Mutant: one more message than max_messages.
LimitPassed == AutoRestart /\ maxMessages > 0 /\ count > maxMessages

LimitReached == AutoRestart /\ maxMessages > 0 /\ count >= maxMessages

\* Mutant: the top of the loop does not look at the context.
TopIgnoresContext ==
    /\ loop = "top"
    /\ loop' = IF LimitReached THEN "drain" ELSE "pop"
    /\ UNCHANGED <<envVars, pop, count, errors, result, popErrors>>

Top ==
    /\ loop = "top"
    /\ loop' = IF LimitReached \/ ctxDone THEN "drain" ELSE "pop"
    /\ UNCHANGED <<envVars, pop, count, errors, result, popErrors>>

\* popScript claims a message; the answer is lost when the connection breaks or
\* the context is canceled, and the message stays in reserved.
PopClaims(m) ==
    /\ loop = "pop" /\ at[m] = "waiting"
    /\ \/ Move(m, "claimed") /\ loop' = "load" /\ UNCHANGED faults
       \/ Move(m, "orphaned") /\ loop' = "poll" /\ CommandFails
    /\ UNCHANGED <<ctxDone, pop, count, errors, result, popErrors>>

\* Nothing is waiting, or the script fails: a nil result, in both cases.
PopNothing ==
    /\ loop = "pop"
    /\ loop' = "poll"
    /\ \/ At({"waiting"}) = {} /\ UNCHANGED faults
       \/ CommandFails
    /\ UNCHANGED <<ctxDone, at, pop, count, errors, result, popErrors>>

\* Pop's timer fires or the context is canceled.
PollEnds ==
    /\ loop = "poll"
    /\ \/ loop' = "top" /\ pop' = Reset(pop) /\ popErrors' = 0
       \/ ctxDone /\ loop' = "drain" /\ UNCHANGED <<pop, popErrors>>
    /\ UNCHANGED <<envVars, count, errors, result>>

LoadOk(m) ==
    /\ loop = "load" /\ at[m] = "claimed"
    /\ Move(m, "loaded")
    /\ loop' = "acquire"
    /\ pop' = Reset(pop) /\ popErrors' = 0
    /\ count' = count + 1
    /\ UNCHANGED <<ctxDone, faults, errors, result>>

\* The entity is missing: Pop takes the id out of reserved.
LoadMissing(m) ==
    /\ loop = "load" /\ at[m] = "claimed"
    /\ Move(m, "forgotten")
    /\ loop' = "top"
    /\ pop' = Reset(pop) /\ popErrors' = 0
    /\ UNCHANGED <<ctxDone, faults, count, errors, result>>

\* Pop returns an error and nobody works on the claimed message.
LoadFails(m) ==
    /\ loop = "load" /\ at[m] = "claimed"
    /\ Move(m, "orphaned")
    /\ CommandFails
    /\ \/ ctxDone /\ loop' = "drain" /\ UNCHANGED errors
       \/ /\ ~ctxDone
          /\ \E e \in PopErrors :
                IF isRetryablePopError(e)
                THEN loop' = "backoff" /\ UNCHANGED errors
                ELSE loop' = "drain" /\ errors' = errors + 1
    /\ UNCHANGED <<ctxDone, pop, count, result, popErrors>>

\* waitForPopRetryBackoff
BackoffEnds ==
    /\ loop = "backoff"
    /\ \/ loop' = "top" /\ pop' = Advance(pop) /\ popErrors' = popErrors + 1
       \/ ctxDone /\ loop' = "drain" /\ UNCHANGED <<pop, popErrors>>
    /\ UNCHANGED <<envVars, count, errors, result>>

\* Mutant: the slot is not waited for.
AcquireAnyway(m) ==
    /\ loop = "acquire" /\ at[m] = "loaded"
    /\ Move(m, "handling")
    /\ loop' = "top"
    /\ UNCHANGED <<ctxDone, faults, pop, count, errors, result, popErrors>>

\* sem <- struct{}{}; wg.Add(1); go func() ...
Acquire(m) ==
    /\ loop = "acquire" /\ at[m] = "loaded"
    /\ Cardinality(At({"handling", "finished"})) < concurrentLimit
    /\ Move(m, "handling")
    /\ loop' = "top"
    /\ UNCHANGED <<ctxDone, faults, pop, count, errors, result, popErrors>>

\* Mutant: a goroutine that gave back its slot is not waited for.
ReturnEarly ==
    /\ loop = "drain"
    /\ At({"handling"}) = {}
    /\ loop' = "returned"
    /\ result' = IF errors = 0 THEN "nil" ELSE "error"
    /\ UNCHANGED <<envVars, pop, count, errors, popErrors>>

\* wg.Wait(); return c.runErr()
Return ==
    /\ loop = "drain"
    /\ At({"handling", "finished", "released"}) = {}
    /\ loop' = "returned"
    /\ result' = IF errors = 0 THEN "nil" ELSE "error"
    /\ UNCHANGED <<envVars, pop, count, errors, popErrors>>

-----------------------------------------------------------------------------
(* A handler goroutine. *)

\* handleOne.  A commit that fails or finds no target is an error; in the error
\* path of a recovered panic it is only logged.
HandleOne(m) ==
    /\ at[m] = "handling"
    /\ Move(m, "finished")
    /\ errors' \in {errors, errors + 1}
    /\ UNCHANGED <<ctxDone, faults, loop, pop, count, result, popErrors>>

\* defer func() { <-sem }()
ReleaseSlot(m) ==
    /\ at[m] = "finished"
    /\ Move(m, "released")
    /\ UNCHANGED <<ctxDone, faults, consumerVars>>

\* defer wg.Done()
WgDone(m) ==
    /\ at[m] = "released"
    /\ Move(m, "gone")
    /\ UNCHANGED <<ctxDone, faults, consumerVars>>

LoopStep ==
    \/ Top \/ PopNothing \/ PollEnds \/ BackoffEnds \/ Return
    \/ \E m \in Messages : PopClaims(m) \/ LoadOk(m) \/ LoadMissing(m)
                           \/ LoadFails(m) \/ Acquire(m)

HandlerStep(m) == HandleOne(m) \/ ReleaseSlot(m) \/ WgDone(m)

ConsumerNext == LoopStep \/ \E m \in Messages : HandlerStep(m)
=============================================================================
