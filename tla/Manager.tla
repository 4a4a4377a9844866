------------------------------ MODULE Manager ------------------------------
(***************************************************************************)
(* asyncqueue/manager.go: StartWorker with its rollback, Stop, Wait and    *)
(* Run, the goroutines of the queues, and the WaitGroup they share.        *)
(*                                                                         *)
(* The g-th StartWorker that gets past its checks makes context g, to      *)
(* which m.ctx and m.cancel then refer (cur), and the goroutines <<g, q,   *)
(* p>> of its queues q: one for each consumer process p and one for the    *)
(* forwarder.  StartWorker holds the lock, and the goroutines it starts    *)
(* read nothing it changes later, so a start that succeeds is one step.    *)
(* One that fails has started the goroutines of some queues, any of them,  *)
(* for a Go map has no order, when NewAsyncQueue fails for the next (its   *)
(* ping): they are at work by then.                                        *)
(*                                                                         *)
(* A Wait of the WaitGroup that finds goroutines blocks, is woken by the   *)
(* last Done, and panics when it then sees that goroutines were added      *)
(* ("WaitGroup is reused before previous Wait has returned").  A Run that  *)
(* is canceled and a Stop that runs into its timeout leave a goroutine     *)
(* behind that is in such a Wait, and no caller can see it.                *)
(***************************************************************************)
EXTENDS Integers, FiniteSets

CONSTANTS
    Callers,            \* goroutines that call the manager
    Uses,               \* caller -> the calls it makes, a subset of Calls
    Queues,             \* enabled queues of the configuration
    Processes,          \* queue -> its consumer processes
    Rolling,            \* queues with auto_restart and max_messages > 0
    Failing,            \* processes and forwarders whose worker may return an error
    MaxStarts           \* how often StartWorker makes a context (a bound for TLC)

\* "timeout" is a Stop, or the one that Run calls, with a timeout > 0.
Calls == {"start", "run", "stop", "wait", "timeout"}

ASSUME ManagerAssumption ==
    /\ Uses \in [Callers -> SUBSET Calls]
    /\ Rolling \subseteq Queues /\ MaxStarts \in Nat

VARIABLES
    handlers,   \* queues with a handler in serveMux
    drivers,    \* queues whose driver is registered
    started, cur, queues, errors,   \* m.started, m.ctx, m.queues, m.errors
    canceled,   \* contexts that are canceled
    unit,       \* goroutine -> where it is
    ctxOf,      \* goroutine -> the context it runs its worker with
    call,       \* caller -> the call it is in
    waiter,     \* a Wait of the WaitGroup -> where it is
    bad,        \* history: keys of goroutines that failed since the last start
    crashed     \* the panic that ended the process: "none", "waitgroup", "nilmap"

managerVars == <<handlers, drivers, started, cur, queues, errors, canceled,
                 unit, ctxOf, call, waiter, bad, crashed>>

Forwarder == "forwarder"    \* forwarderProcessID
Keys == UNION {{q} \X (Processes[q] \cup {Forwarder}) : q \in Queues}
Gens == 1..MaxStarts
Units == {<<g, k[1], k[2]>> : g \in Gens, k \in Keys}
Key(u) == <<u[2], u[3]>>
IsRolling(u) == u[2] \in Rolling /\ u[3] # Forwarder

\* Who waits: a call itself (Wait, the rollback), the goroutine that Stop
\* starts, the goroutine that Run starts, and those of them whose call has left
\* them behind (one of each per caller, a bound).
Behind == {"oldstop", "oldrun"}
Waiters == ({"call", "stop", "run"} \cup Behind) \X Callers

NoMap == {<<>>}     \* m.errors is nil; an empty map is {}, its keys are pairs
Idle == [at |-> "idle", gen |-> 0]

Live == {u \in Units : unit[u] \notin {"none", "ended"}}

ManagerInit ==
    /\ handlers = {} /\ drivers = {}
    /\ started = FALSE /\ cur = 0 /\ queues = {} /\ errors = NoMap
    /\ canceled = {}
    /\ unit = [u \in Units |-> "none"]
    /\ ctxOf = [u \in Units |-> 0]
    /\ call = [c \in Callers |-> Idle]
    /\ waiter = [w \in Waiters |-> "none"]
    /\ bad = {}
    /\ crashed = "none"

-----------------------------------------------------------------------------
(* Registration. *)

Handle(q) ==
    /\ q \notin handlers
    /\ handlers' = handlers \cup {q}
    /\ UNCHANGED <<drivers, started, cur, queues, errors, canceled, unit, ctxOf,
                   call, waiter, bad, crashed>>

RegisterDriver(q) ==
    /\ q \notin drivers
    /\ drivers' = drivers \cup {q}
    /\ UNCHANGED <<handlers, started, cur, queues, errors, canceled, unit, ctxOf,
                   call, waiter, bad, crashed>>

checkStartWorkerOptions == Queues \subseteq handlers /\ Queues \subseteq drivers

-----------------------------------------------------------------------------
(* The WaitGroup. *)

Waiting(w, s) == waiter' = [waiter EXCEPT ![w] = s]

\* The wait is over: the call that waits goes on, or, when it has left, the
\* goroutine just ends.
Over(w) == IF w[1] \in Behind THEN "none" ELSE "done"

\* A call leaves while its goroutine waits.
LeaveBehind(from, to) ==
    /\ waiter[to] = "none"
    /\ waiter' = [waiter EXCEPT ![from] = "none",
                                ![to] = IF waiter[from] = "done" THEN "none" ELSE waiter[from]]

\* m.wg.Wait()
EnterWait(w) ==
    /\ waiter[w] = "called"
    /\ Waiting(w, IF Live = {} THEN Over(w) ELSE "blocked")
    /\ UNCHANGED <<handlers, drivers, started, cur, queues, errors, canceled, unit,
                   ctxOf, call, bad, crashed>>

WaitWakes(w) ==
    /\ waiter[w] = "woken"
    /\ IF Live = {} THEN Waiting(w, Over(w)) /\ UNCHANGED crashed
                    ELSE crashed' = "waitgroup" /\ UNCHANGED waiter
    /\ UNCHANGED <<handlers, drivers, started, cur, queues, errors, canceled, unit,
                   ctxOf, call, bad>>

-----------------------------------------------------------------------------
(* StartWorker. *)

At(c, at) == call' = [call EXCEPT ![c].at = at]
Finish(c) == call' = [call EXCEPT ![c] = Idle]

\* A new context and error map, and the goroutines of the queues in S.
Launch(S) ==
    /\ cur < MaxStarts
    /\ cur' = cur + 1
    /\ errors' = {} /\ bad' = {}
    /\ queues' = queues \cup S
    /\ unit' = [u \in Units |-> IF u[1] = cur + 1 /\ u[2] \in S THEN "spawned" ELSE unit[u]]

\* Run has a goroutine of its own wait for the others.
StartOk(c, next) ==
    /\ Launch(Queues)
    /\ started' = TRUE
    /\ At(c, next)
    /\ IF next = "run" THEN Waiting(<<"run", c>>, "called") ELSE UNCHANGED waiter
    /\ UNCHANGED <<handlers, drivers, canceled, ctxOf, crashed>>

\* Some queues are started; the lock is held.
StartSome(c) ==
    /\ \E S \in SUBSET Queues \ {Queues} : Launch(S)
    /\ At(c, "starting")
    /\ UNCHANGED <<handlers, drivers, started, canceled, ctxOf, waiter, crashed>>

Unlocked == \A c \in Callers : call[c].at # "starting"

\* Mutant: the context of a failed start is not canceled.
StartFailsUncanceled(c) ==
    /\ call[c].at = "starting"
    /\ At(c, "rollback")
    /\ Waiting(<<"call", c>>, "called")
    /\ UNCHANGED <<handlers, drivers, started, cur, queues, errors, canceled, unit, ctxOf,
                   bad, crashed>>

\* NewAsyncQueue fails: rollbackStartLocked up to the wait, for which it gives
\* the lock back
StartFails(c) ==
    /\ call[c].at = "starting"
    /\ canceled' = canceled \cup {cur}
    /\ At(c, "rollback")
    /\ Waiting(<<"call", c>>, "called")
    /\ UNCHANGED <<handlers, drivers, started, cur, queues, errors, unit, ctxOf, bad, crashed>>

Begin(c, next) ==
    /\ call[c].at = "idle" /\ Unlocked
    /\ \/ (started \/ ~checkStartWorkerOptions) /\ UNCHANGED managerVars
       \/ ~started /\ checkStartWorkerOptions /\ (StartOk(c, next) \/ StartSome(c))

StartWorker(c) == "start" \in Uses[c] /\ Begin(c, "idle")

Run(c) == "run" \in Uses[c] /\ Begin(c, "run")

\* Mutant: the goroutines of a failed start are not waited for.
RollbackAtOnce(c) ==
    /\ call[c].at = "rollback"
    /\ Waiting(<<"call", c>>, "none")
    /\ queues' = {} /\ errors' = NoMap /\ started' = FALSE
    /\ Finish(c)
    /\ UNCHANGED <<handlers, drivers, cur, canceled, unit, ctxOf, bad, crashed>>

\* rollbackStartLocked after the wait
RollbackEnds(c) ==
    /\ call[c].at = "rollback" /\ waiter[<<"call", c>>] = "done" /\ Unlocked
    /\ Waiting(<<"call", c>>, "none")
    /\ queues' = {} /\ errors' = NoMap /\ started' = FALSE
    /\ Finish(c)
    /\ UNCHANGED <<handlers, drivers, cur, canceled, unit, ctxOf, bad, crashed>>

-----------------------------------------------------------------------------
(* Stop, Wait and the end of Run. *)

\* What Stop, Wait and Run return when their wait is over.
runErrors == errors \ NoMap

\* Stop reads started and cancel.
StopReads(c) ==
    /\ Unlocked
    /\ call' = [call EXCEPT ![c] = IF started THEN [at |-> "cancel", gen |-> cur] ELSE Idle]
    /\ UNCHANGED <<handlers, drivers, started, cur, queues, errors, canceled, unit,
                   ctxOf, bad, crashed>>

Stop(c) == "stop" \in Uses[c] /\ call[c].at = "idle" /\ StopReads(c) /\ UNCHANGED waiter

\* The context of Run is canceled: it calls Stop.
RunCanceled(c) ==
    call[c].at = "run" /\ LeaveBehind(<<"run", c>>, <<"oldrun", c>>) /\ StopReads(c)

\* Mutant: Stop waits without canceling anything.
StopOnlyWaits(c) ==
    /\ call[c].at = "cancel"
    /\ Waiting(<<"stop", c>>, "called")
    /\ At(c, "stopping")
    /\ UNCHANGED <<handlers, drivers, started, cur, queues, errors, canceled, unit, ctxOf,
                   bad, crashed>>

StopCancels(c) ==
    /\ call[c].at = "cancel"
    /\ canceled' = canceled \cup {call[c].gen}
    /\ Waiting(<<"stop", c>>, "called")
    /\ At(c, "stopping")
    /\ UNCHANGED <<handlers, drivers, started, cur, queues, errors, unit, ctxOf,
                   bad, crashed>>

\* Mutant: queues are left in the map.
StopKeepsQueues(c) ==
    /\ call[c].at = "stopping" /\ waiter[<<"stop", c>>] = "done" /\ Unlocked
    /\ started' = FALSE
    /\ Waiting(<<"stop", c>>, "none")
    /\ Finish(c)
    /\ UNCHANGED <<handlers, drivers, cur, queues, errors, canceled, unit, ctxOf,
                   bad, crashed>>

\* Mutant: Stop does not wait for the goroutine it starts.
StopEndsAtOnce(c) ==
    /\ call[c].at = "stopping" /\ Unlocked
    /\ queues' = {} /\ started' = FALSE
    /\ Finish(c)
    /\ UNCHANGED <<handlers, drivers, cur, errors, canceled, unit, ctxOf, waiter, bad, crashed>>

StopEnds(c) ==
    /\ call[c].at = "stopping" /\ waiter[<<"stop", c>>] = "done" /\ Unlocked
    /\ queues' = {} /\ started' = FALSE
    /\ Waiting(<<"stop", c>>, "none")
    /\ Finish(c)
    /\ UNCHANGED <<handlers, drivers, cur, errors, canceled, unit, ctxOf, bad, crashed>>

\* The timeout passes (one that is not positive never does): the manager stays
\* started, with a canceled context and a goroutine that waits.
StopTimesOut(c) ==
    /\ "timeout" \in Uses[c]
    /\ call[c].at = "stopping"
    /\ LeaveBehind(<<"stop", c>>, <<"oldstop", c>>)
    /\ Finish(c)
    /\ UNCHANGED <<handlers, drivers, started, cur, queues, errors, canceled, unit, ctxOf,
                   bad, crashed>>

Wait(c) ==
    /\ "wait" \in Uses[c]
    /\ call[c].at = "idle"
    /\ At(c, "waiting")
    /\ Waiting(<<"call", c>>, "called")
    /\ UNCHANGED <<handlers, drivers, started, cur, queues, errors, canceled, unit, ctxOf, bad, crashed>>

\* Wait returns, or Run because its goroutine did: the manager stays started.
WaitEnds(c) ==
    /\ \/ /\ call[c].at = "waiting" /\ waiter[<<"call", c>>] = "done"
          /\ Waiting(<<"call", c>>, "none")
       \/ /\ call[c].at = "run" /\ waiter[<<"run", c>>] = "done"
          /\ Waiting(<<"run", c>>, "none")
    /\ Finish(c)
    /\ UNCHANGED <<handlers, drivers, started, cur, queues, errors, canceled, unit, ctxOf,
                   bad, crashed>>

-----------------------------------------------------------------------------
(* The goroutines. *)

Step(u, s) == unit' = [unit EXCEPT ![u] = s]

\* worker.Start(m.ctx); with auto restart m.ctx is looked at first
UnitStarts(u) ==
    /\ unit[u] = "spawned"
    /\ IF IsRolling(u) /\ cur \in canceled
       THEN Step(u, "leaving") /\ UNCHANGED ctxOf
       ELSE Step(u, "running") /\ ctxOf' = [ctxOf EXCEPT ![u] = cur]
    /\ UNCHANGED <<handlers, drivers, started, cur, queues, errors, canceled, call, waiter, bad, crashed>>

\* Mutant: a worker that reached max_messages is not made again.
AfterWorkerLeaves(u) == "leaving"

\* Where a goroutine goes when its worker is done: with auto restart a new
\* worker is made, unless m.ctx is canceled.
AfterWorker(u) == IF IsRolling(u) /\ cur \notin canceled THEN "spawned" ELSE "leaving"

\* worker.Wait() returns nil or an error.  forwarder.Run returns nil only, and
\* only after its context is canceled (ForwarderStays of module QueueRuntime),
\* but Worker turns a panic of its Runner into an error.
UnitReturns(u) ==
    /\ unit[u] = "running"
    /\ \/ /\ u[3] = Forwarder => ctxOf[u] \in canceled
          /\ Step(u, AfterWorker(u)) /\ UNCHANGED bad
       \/ Key(u) \in Failing /\ Step(u, "failed") /\ bad' = bad \cup {Key(u)}
    /\ UNCHANGED <<handlers, drivers, started, cur, queues, errors, canceled, ctxOf, call,
                   waiter, crashed>>

\* recordError; a write to a nil map panics.
UnitRecords(u) ==
    /\ unit[u] = "failed"
    /\ IF errors = NoMap THEN crashed' = "nilmap" /\ UNCHANGED <<errors, unit>>
       ELSE /\ errors' = errors \cup {Key(u)}
            /\ Step(u, AfterWorker(u))
            /\ UNCHANGED crashed
    /\ UNCHANGED <<handlers, drivers, started, cur, queues, canceled, ctxOf, call, waiter, bad>>

\* Mutant: wg.Done comes before the error is recorded.
UnitDoneFirst(u) ==
    /\ unit[u] \in {"failed", "leaving"}
    /\ Step(u, "ended") /\ ctxOf' = [ctxOf EXCEPT ![u] = 0]
    /\ waiter' = [w \in Waiters |-> IF Live = {u} /\ waiter[w] = "blocked"
                                    THEN "woken" ELSE waiter[w]]
    /\ UNCHANGED <<handlers, drivers, started, cur, queues, errors, canceled, call, bad, crashed>>

\* m.wg.Done(), which wakes the waiters when it is the last
UnitDone(u) ==
    /\ unit[u] = "leaving"
    /\ Step(u, "ended") /\ ctxOf' = [ctxOf EXCEPT ![u] = 0]
    /\ waiter' = [w \in Waiters |-> IF Live = {u} /\ waiter[w] = "blocked"
                                    THEN "woken" ELSE waiter[w]]
    /\ UNCHANGED <<handlers, drivers, started, cur, queues, errors, canceled, call, bad, crashed>>

UnitStep(u) == UnitStarts(u) \/ UnitReturns(u) \/ UnitRecords(u) \/ UnitDone(u)

-----------------------------------------------------------------------------

CallStep(c) == StartFails(c) \/ RollbackEnds(c) \/ StopCancels(c) \/ StopEnds(c) \/ WaitEnds(c)
WaiterStep(w) == EnterWait(w) \/ WaitWakes(w)

\* Everything but the calls of StartWorker, Run and Stop.
Progress ==
    \/ \E q \in Queues : Handle(q) \/ RegisterDriver(q)
    \/ \E c \in Callers : CallStep(c) \/ StopTimesOut(c) \/ Wait(c) \/ RunCanceled(c)
    \/ \E w \in Waiters : WaiterStep(w)
    \/ \E u \in Units : UnitStep(u)

\* What callers can see to: it is started only while nobody is in another call.
ManagerNext ==
    /\ crashed = "none"
    /\ \/ Progress
       \/ /\ \A c \in Callers : call[c].at = "idle"
          /\ \E c \in Callers : StartWorker(c) \/ Run(c)
       \/ \E c \in Callers : Stop(c)

\* Every use that the package allows.
AnyUseNext ==
    /\ crashed = "none"
    /\ \/ Progress
       \/ \E c \in Callers : StartWorker(c) \/ Run(c) \/ Stop(c)

\* A call, or the goroutine it waits for, and a goroutine whose worker has
\* started nothing yet, has returned, or has a canceled context.
CallGoesOn(c) == CallStep(c) \/ \E k \in {"call", "stop", "run"} : WaiterStep(<<k, c>>)
UnitGoesOn(u) ==
    UnitStarts(u) \/ UnitRecords(u) \/ UnitDone(u) \/ (ctxOf[u] \in canceled /\ UnitReturns(u))

\* Goroutines are scheduled, and a worker whose context is canceled returns (see
\* ConsumerReturns and ForwarderReturns of module QueueRuntime).  Nobody has to
\* call anything, a timeout need not pass, and what is left behind is not needed.
ManagerFairness ==
    /\ \A c \in Callers : WF_managerVars(crashed = "none" /\ CallGoesOn(c))
    /\ \A k \in Keys :
          WF_managerVars(crashed = "none" /\ \E g \in Gens : UnitGoesOn(<<g, k[1], k[2]>>))

ManagerSpec == ManagerInit /\ [][ManagerNext]_managerVars /\ ManagerFairness

AnyUseSpec == ManagerInit /\ [][AnyUseNext]_managerVars /\ ManagerFairness

-----------------------------------------------------------------------------
(* Properties of ManagerSpec. *)

\* No goroutine that is late with its error writes it to the nil map a failed
\* start leaves behind: the rollback waits for all of them first.
NoNilMapWrite == crashed # "nilmap"

\* "WaitGroup is reused before previous Wait has returned" comes of nothing but
\* goroutines that a canceled Run or a Stop at its timeout left in their Wait
\* when the manager was started again: without those a manager can be started
\* again as soon as its calls have returned.
PanicNeedsLeftover ==
    crashed = "waitgroup" => \E c \in Callers, k \in Behind : waiter[<<k, c>>] = "woken"

\* A manager that is not started, and is not in a start that fails, has no
\* goroutine and no queue left; one that is started has all its queues.
RestsWhenStopped ==
    /\ ~started /\ (\A c \in Callers : call[c].at \notin {"starting", "rollback"})
            => Live = {} /\ queues = {}
    /\ started => queues = Queues

\* No goroutine outlives the context of its start: each runs with m.ctx, which
\* is what Stop cancels.
UnderCurrentContext ==
    \A u \in Live : u[1] = cur /\ (unit[u] = "running" => ctxOf[u] = cur)

\* The call that waited with w returns runErrors in this step.
ReturnsErrors(w) == waiter[w] = "done" /\ waiter'[w] = "none" /\ call[w[2]].at # "rollback"

\* Stop, Wait and Run report every process that failed since the start, and no
\* other (by key: its later error replaces an earlier one): a goroutine records
\* its error before it leaves the WaitGroup.  (A start that was
\* rolled back has told its own error and forgets those of its goroutines.)
FailuresReported ==
    [][\A w \in Waiters : ReturnsErrors(w) /\ errors # NoMap => runErrors = bad]_managerVars

Ended == crashed # "none"

\* Stop returns, whether or not its timeout passes, also when it meets another
\* Stop, a Wait or a Run, unless a panic ends the process first.
StopReturns == \A c \in Callers : call[c].at = "cancel" ~> call[c].at = "idle" \/ Ended

\* A start that fails half way returns: the goroutines it waits for, with the
\* lock given back, see the canceled context.
RollbackReturns ==
    (\E c \in Callers : call[c].at = "starting") ~>
        (\A c \in Callers : call[c].at \notin {"starting", "rollback"}) \/ Ended

\* A consumer that returned because it reached max_messages, or that failed, is
\* followed by a new one as long as the context of its start is not canceled.
Restarts ==
    \A k \in Keys :
        LET unitOf(g) == <<g, k[1], k[2]>>
            Down(g) == g \notin canceled /\ unit[unitOf(g)] \notin {"none", "running"}
        IN  k[1] \in Rolling /\ k[2] # Forwarder =>
                ((\E g \in Gens : Down(g)) ~> (\A g \in Gens : ~Down(g)) \/ Ended)

\* manager.go:121: "idempotency-protected by m.started and returns error when
\* called twice": no second set of workers is started beside a running one.
StartsOnce ==
    \A u, v \in Live : u[1] \notin canceled /\ v[1] \notin canceled => u[1] = v[1]
=============================================================================
