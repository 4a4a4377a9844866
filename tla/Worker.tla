------------------------------- MODULE Worker -------------------------------
(***************************************************************************)
(* pkg/worker: Start, Wait and Stop around the goroutine of one Runner.    *)
(*                                                                         *)
(* The n-th successful Start creates context n, channel n and goroutine n. *)
(* A field of the Worker that points to one of them holds n, nil is 0.     *)
(* The goroutine reads w.ctx and w.done without the lock, whatever they    *)
(* point to by then.  ctx and cancel are set and cleared together, so one  *)
(* variable stands for both.                                               *)
(***************************************************************************)
EXTENDS Integers, FiniteSets

CONSTANTS
    Callers,    \* goroutines that call Start, Wait and Stop
    MaxRuns     \* how often Start succeeds (a bound for TLC)

ASSUME WorkerAssumption == MaxRuns \in Nat

VARIABLES
    started, ctx, done, err,    \* the fields of Worker
    runs,       \* successful Starts so far
    closed,     \* channels that are closed
    canceled,   \* contexts that are canceled
    go,         \* run -> where its goroutine is
    res,        \* run -> what the runner returned
    call,       \* caller -> the call it is in and the run that call captured
    ans,        \* caller -> the last answer of a Wait or Stop, and its run
    told,       \* history: runs whose failure some call returned
    crashed     \* a panic that nobody recovers ended the process

fields == <<started, ctx, done, err>>
workerVars == <<started, ctx, done, err, runs, closed, canceled, go, res, call, ans, told, crashed>>

Runs == 1..MaxRuns
Results == {"nil", "error"}
Answers == Results \cup {"none", "refused", "timeout"}
Idle == [at |-> "idle", run |-> 0]

WorkerInit ==
    /\ started = FALSE /\ ctx = 0 /\ done = 0 /\ err = "nil"
    /\ runs = 0
    /\ closed = {} /\ canceled = {}
    /\ go = [n \in Runs |-> "none"]
    /\ res = [n \in Runs |-> "nil"]
    /\ call = [c \in Callers |-> Idle]
    /\ ans = [c \in Callers |-> [is |-> "none", run |-> 0]]
    /\ told = {}
    /\ crashed = FALSE

-----------------------------------------------------------------------------
(* The callers. *)

resetLocked == started' = FALSE /\ ctx' = 0 /\ done' = 0 /\ err' = "nil"

Answer(c, a, n) == ans' = [ans EXCEPT ![c] = [is |-> a, run |-> n]]

\* "already started" or "not started"
Refuse(c) ==
    /\ Answer(c, "refused", 0)
    /\ UNCHANGED <<fields, runs, closed, canceled, go, res, call, told, crashed>>

\* Mutant: a second Start is not refused.
StartAgain(c) ==
    /\ call[c] = Idle
    /\ runs < MaxRuns
    /\ runs' = runs + 1
    /\ started' = TRUE /\ ctx' = runs + 1 /\ done' = runs + 1 /\ err' = "nil"
    /\ go' = [go EXCEPT ![runs + 1] = "spawned"]
    /\ UNCHANGED <<closed, canceled, res, call, ans, told, crashed>>

Start(c) ==
    /\ call[c] = Idle
    /\ \/ started /\ Refuse(c)
       \/ /\ ~started /\ runs < MaxRuns
          /\ runs' = runs + 1
          /\ started' = TRUE /\ ctx' = runs + 1 /\ done' = runs + 1 /\ err' = "nil"
          /\ go' = [go EXCEPT ![runs + 1] = "spawned"]
          /\ UNCHANGED <<closed, canceled, res, call, ans, told, crashed>>

\* Wait and Stop copy the fields under the lock ...
Capture(c, at) ==
    /\ call[c] = Idle
    /\ \/ ~started /\ Refuse(c)
       \/ /\ started
          /\ call' = [call EXCEPT ![c] = [at |-> at, run |-> done]]
          /\ UNCHANGED <<fields, runs, closed, canceled, go, res, ans, told, crashed>>

Wait(c) == Capture(c, "wait")

Stop(c) == Capture(c, "cancel")

\* Mutant: the runner is left running.
StopWithoutCancel(c) ==
    /\ call[c].at = "cancel"
    /\ call' = [call EXCEPT ![c].at = "wait"]
    /\ UNCHANGED <<fields, runs, closed, canceled, go, res, ans, told, crashed>>

\* ... Stop calls the captured cancel without it ...
StopCancels(c) ==
    /\ call[c].at = "cancel"
    /\ canceled' = canceled \cup {call[c].run}
    /\ call' = [call EXCEPT ![c].at = "stop"]
    /\ UNCHANGED <<fields, runs, closed, go, res, ans, told, crashed>>

\* Mutant: Wait does not wait.
AwakeEarly(c) ==
    /\ call[c].at \in {"wait", "stop"}
    /\ Answer(c, err, call[c].run)
    /\ told' = IF err = "error" THEN told \cup {call[c].run} ELSE told
    /\ resetLocked
    /\ call' = [call EXCEPT ![c] = Idle]
    /\ UNCHANGED <<runs, closed, canceled, go, res, crashed>>

\* Mutant: the state is reset before the error is read.
AwakeResetsFirst(c) ==
    /\ call[c].at \in {"wait", "stop"}
    /\ call[c].run \in closed
    /\ resetLocked
    /\ Answer(c, err', call[c].run)
    /\ told' = IF err' = "error" THEN told \cup {call[c].run} ELSE told
    /\ call' = [call EXCEPT ![c] = Idle]
    /\ UNCHANGED <<runs, closed, canceled, go, res, crashed>>

\* ... and both wait for the captured channel, take the error and reset.  A
\* second call that waited for the same run finds no error any more.
Awake(c) ==
    /\ call[c].at \in {"wait", "stop"}
    /\ call[c].run \in closed
    /\ Answer(c, err, call[c].run)
    /\ told' = IF err = "error" THEN told \cup {call[c].run} ELSE told
    /\ resetLocked
    /\ call' = [call EXCEPT ![c] = Idle]
    /\ UNCHANGED <<runs, closed, canceled, go, res, crashed>>

\* The grace timeout passes: the state is reset while the goroutine lives on.
StopTimesOut(c) ==
    /\ call[c].at = "stop"
    /\ Answer(c, "timeout", call[c].run)
    /\ resetLocked
    /\ call' = [call EXCEPT ![c] = Idle]
    /\ UNCHANGED <<runs, closed, canceled, go, res, told, crashed>>

-----------------------------------------------------------------------------
(* The goroutine of run n. *)

\* w.runner.Run(w.ctx); a nil context makes the runner panic.
GoRun(n) ==
    /\ go[n] = "spawned"
    /\ IF ctx = 0
       THEN go' = [go EXCEPT ![n] = "returned"] /\ res' = [res EXCEPT ![n] = "error"]
       ELSE go' = [go EXCEPT ![n] = "running"] /\ UNCHANGED res
    /\ UNCHANGED <<fields, runs, closed, canceled, call, ans, told, crashed>>

\* The runner returns or panics, which counts as an error.
GoReturn(n) ==
    /\ go[n] = "running"
    /\ go' = [go EXCEPT ![n] = "returned"]
    /\ \E r \in Results : res' = [res EXCEPT ![n] = r]
    /\ UNCHANGED <<fields, runs, closed, canceled, call, ans, told, crashed>>

\* w.err is set under the lock.
GoRecord(n) ==
    /\ go[n] = "returned"
    /\ go' = [go EXCEPT ![n] = "recorded"]
    /\ err' = res[n]
    /\ UNCHANGED <<started, ctx, done, runs, closed, canceled, res, call, ans, told, crashed>>

\* close(w.done) panics on a nil or a closed channel, outside the recover.
GoClose(n) ==
    /\ go[n] = "recorded"
    /\ go' = [go EXCEPT ![n] = "ended"]
    /\ IF done = 0 \/ done \in closed
       THEN crashed' = TRUE /\ UNCHANGED closed
       ELSE closed' = closed \cup {done} /\ UNCHANGED crashed
    /\ UNCHANGED <<fields, runs, canceled, res, call, ans, told>>

GoStep(n) == GoRun(n) \/ GoReturn(n) \/ GoRecord(n) \/ GoClose(n)

\* What keeps the worker sound: it is started only when no other call is under
\* way (as Manager does, where one goroutine calls Start and Wait in turn), and
\* stopped without a timeout.
WorkerNext ==
    /\ ~crashed
    /\ \/ \E c \in Callers : \/ Start(c) /\ \A d \in Callers : call[d] = Idle
                             \/ Wait(c) \/ Stop(c) \/ StopCancels(c) \/ Awake(c)
       \/ \E n \in Runs : GoStep(n)

\* Every use that the package allows.
AnyUseNext ==
    /\ ~crashed
    /\ \/ \E c \in Callers : \/ Start(c) \/ Wait(c) \/ Stop(c) \/ StopCancels(c)
                             \/ Awake(c) \/ StopTimesOut(c)
       \/ \E n \in Runs : GoStep(n)

\* Goroutines are scheduled, and a runner returns once its context is canceled:
\* see ConsumerReturns and ForwarderReturns of module QueueRuntime.  Nobody has to call
\* anything, and a runner nobody cancels may run for ever.
WorkerFairness ==
    /\ \A c \in Callers : /\ WF_workerVars(~crashed /\ StopCancels(c))
                          /\ WF_workerVars(~crashed /\ Awake(c))
    /\ \A n \in Runs :
        /\ WF_workerVars(~crashed /\ (GoRun(n) \/ GoRecord(n) \/ GoClose(n)))
        /\ WF_workerVars(~crashed /\ n \in canceled /\ GoReturn(n))

WorkerSpec == WorkerInit /\ [][WorkerNext]_workerVars /\ WorkerFairness

AnyUseSpec == WorkerInit /\ [][AnyUseNext]_workerVars /\ WorkerFairness

-----------------------------------------------------------------------------
(* Properties of WorkerSpec. *)

Live(n) == go[n] \in {"spawned", "running", "returned", "recorded"}

\* No goroutine closes a nil channel or one that was closed before (close(w.done)
\* in the deferred function of Start, worker.go:52): the process survives every
\* interleaving of Wait and Stop calls that have no timeout, on a worker that is
\* not started during a call.  With timeouts it does not, see AnyUseSpec.
NoCrash == ~crashed

\* The Runner never runs twice at a time, also when Start follows a Wait or a
\* Stop at once: a Consumer keeps its counters in unguarded fields of the run.
OneRunner == \A m, n \in Runs : Live(m) /\ Live(n) => m = n

\* Although the error is kept in one field that every Wait and Stop clears,
\* the failure of a run is told to a caller before the worker forgets the run,
\* and a caller that is told of a failure waited for a run that failed.
FailureTold ==
    /\ \A n \in Runs : res[n] = "error" /\ n # done => n \in told
    /\ \A c \in Callers : ans[c].is = "error" => res[ans[c].run] = "error"

\* A Stop without a timeout returns.
StopReturns ==
    \A c \in Callers : call[c].at = "cancel" ~> call[c].at = "idle"
=============================================================================
