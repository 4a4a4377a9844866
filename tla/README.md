# async-queue-go: TLA+ models, checks and proofs

This directory specifies `async-queue-go`: the Redis keyspace of one channel
with the Lua scripts that change it, the Go code that runs those scripts, the
loops of consumers and forwarders, and the life cycle of the worker and the
manager around them. TLC checks small instances of the specifications, and TLAPS
proves every safety property that a run checks for all instances.

## The system

| Component | State it keeps | Operations | Talks to |
| --- | --- | --- | --- |
| Lua scripts (`pkg/queue/lua.go`) | five buckets and the message keys of a channel, two counters | push, move, moveTimeout, pop, ack, fail, drop, requeue, retryByID, cancelByID, reload, nextSeq | run by the driver, each one atomic |
| `RedisDriver` (`pkg/queue/redis_driver.go`) | none | Push, Pop, Ack, Fail, Drop, Requeue, Retry, Cancel, Reload, Flush, ForwardMessages, GenerateID, Info, Get | the scripts and plain commands, by round trips |
| `Queue` (`asyncqueue/asyncqueue.go`) | options | PushTask, PushMessage, Cancel, Reload, Flush, Info, GetMessage | the driver |
| `Consumer` (`pkg/queue/consumer.go`) | semaphore, counters, first error | Run, handleOne, handleError | the driver, the user's handler and hooks |
| `forwarder` (`pkg/queue/forwarder.go`, `backoff.go`) | timer, backoff | Run | `ForwardMessages` |
| `Worker` (`pkg/worker/worker.go`) | started, context, done channel, error | Start, Wait, Stop | a consumer or a forwarder |
| `Manager` (`asyncqueue/manager.go`) | queues, context, WaitGroup, errors, started | StartWorker, Stop, Wait, Run, auto restart | workers |
| `Server`, `DefaultServer`, `ServeMux` | registration maps, the default instance | Run, Stop, Handle, SetDefaultServer | the manager |

A message is an entity (a JSON body under `message:<id>`, with a status, a
count of attempts and perhaps an expiry) and its id in one of five buckets:
the lists `waiting`, `timeout`, `failed` and the sorted sets `delayed` (by due
time) and `reserved` (by the end of the lease).

What is hard here:

* Several round trips make one operation. `Pop` is a script, a GET and perhaps
  a ZREM; `Retry` is a GET and a script; `Reload` is a loop of scripts;
  `ForwardMessages` is two scripts with one reading of the clock.
* Leases are not owned. A commit does not ask whether the lease it removes is
  still its own, and a lease runs from `Pop`, before the handler has a slot.
* Failures: processes that die between two round trips, replies that are lost
  so that a script runs twice, hooks that panic after the commit, message keys
  that expire while their ids are in a bucket, buckets that are flushed.
* Time and bounds: batches of 100, whole seconds, expiries that round to 0,
  a number of attempts that is counted in two places, a sequence that starts
  again, backoffs that double up to a limit.
* Shutdown: a consumer has five ways out of its loop, `Worker` and `Manager`
  read fields without their lock, wait without it, time out while goroutines
  live on, and can be started again.

What makes the parts correct: the scripts lose no message; while leases outlast
handlers a message is handed to one consumer at a time and its status tells its
bucket; a finished message stays finished; attempts and leases are bounded;
delays, leases and messages come to an end; ids are unique; a runner runs once at
a time; everything that was started is waited for, and every failure is
reported. `PROJECT.json` lists the hazards line by line with the properties that
watch them.

## Modules

| Module | Content |
| --- | --- |
| `QueueStore` | the buckets, the message keys, one operator per script |
| `Delivery` | producers, consumer goroutines, forwarders and a management caller on that store; the properties |
| `MessageLifecycle` | abstract specification: the transition matrix of `docs/guide.md` |
| `DeliveryLifecycle` | the refinement mapping from `Delivery` to it |
| `DocumentedClaims` | statements of the documentation that the code does not keep |
| `Sequence` | `GenerateID` and `nextSeqScript` |
| `Envelope` | the way of a payload through push, script rewrites and `Retry` to the handler; extends `Sequence` |
| `Backoff` | `backoff.go` as operators, and what the waiting time should be after n errors |
| `QueueEnv` | context, failing commands and messages as the loops share them |
| `ConsumerLoop` | `Consumer.Run` and its handler goroutines |
| `ForwarderLoop` | `forwarder.Run` |
| `QueueRuntime` | both loops of a queue together, and their properties |
| `Worker` | `pkg/worker` |
| `Manager` | `manager.go` with its goroutines and its WaitGroup |
| `MCDelivery`, `MCEnvelope`, `MCRuntime`, `MCWorker`, `MCManager` | constants for TLC, symmetry, bounds |
| `StoreProofs`, `DeliveryProofs` | what each script preserves; the inductive invariant and theorems of `Delivery` for any environment |
| `LeaseProofs` | theorems of `Delivery` for leases that outlast handlers, and the refinement of `MessageLifecycle` |
| `SequenceProofs`, `EnvelopeProofs` | theorems of `Sequence` and, on top of them, of `Envelope` |
| `RuntimeProofs` | theorems of `QueueRuntime`, and lemmas about powers of two that they need |
| `WorkerProofs`, `ManagerProofs` | theorems of `Worker` and `Manager` |

The layers fit together by their properties. `Delivery` takes fresh ids for
granted, which `Sequence` shows. `Worker` and `Manager` take for granted that a
runner returns after its context is canceled, and `Manager` that a forwarder
returns for no other reason; `ConsumerReturns`, `ForwarderReturns` and
`ForwarderStays` of `QueueRuntime` show that. `Manager` starts each worker from
one goroutine that calls Start and Wait in turn, which is a use that
`WorkerNext` allows.

### State and code: the store and delivery

| Variable | Code |
| --- | --- |
| `waiting`, `timeout`, `failed` | Redis lists; `Head` is the end RPOP takes |
| `delayed`, `reserved` | sorted sets as functions from ids to scores |
| `msg` | message keys; status, attempts and what is left of the TTL |
| `now` | `clock.Now().Unix()`, one clock for all processes |
| `prod[id]` | a `Push` call: not made, sent without a reply, returned |
| `wk[w]` | a consumer goroutine: `idle` - Pop - `claimed` - load - `handling` - `commit` - (`retry`) - `hook`, or `vanished` |
| `fwd[f]` | a forwarder between the two scripts of `ForwardMessages` |
| `mgr` | a `Retry` or a `Reload` call between two round trips |
| `faults`, `gone`, `runs` | history variables: faults so far, ids whose loss is intended, handler calls |

Each round trip is one action, with everything the code does before the next
one. A worker stands for one pass through `Pop` and `handleOne`; a process is a
set of workers, so the semaphore's limit is the number of workers, and waiting
for the semaphore is a worker that stays `claimed`. `Crash` stands for a dying
process, for a round trip that fails for good (handleOne and Pop then return an
error and do nothing more) and for a `popScript` that ran twice: the first id
stays in `reserved`.

What is abstracted: payloads (see `Envelope`), timestamps and log lines; the JSON
of a body, which the model takes to decode always; the exact TTL, of which only
`none`, more than half a second and less are told apart; a delay between reading
the clock and running the script that uses it, except in the two places where
another round trip lies between (`ForwardTimeout`, `RetryCommit`).

### State and code: ids and payloads

`seq` and `epoch` are the two counter keys, `got[c]` the id that call `c` of
`GenerateID` returned. An id is the pair of epoch and number, since md5 is taken
to be free of collisions. In `Envelope` a payload is a function from fields to
kinds of JSON values; `cjsonRoundTrip` is what decoding and encoding in a script
does to them (an empty list becomes an object, a number of more than 14 digits
is rounded), while Go writes a payload back as it is. `stored` are the message
keys, `held` the bodies in the hands of `Retry` calls.

### State and code: the loops

`loop` is where `Consumer.Run` stands: `top` - `pop` - (`poll`) - `load` -
`acquire`, with `backoff` after an error that can be waited out and `drain` on
every way out, then `returned`. `at[m]` is where a message is for the process:
in Redis, claimed, loaded, in a handler, or with a goroutine on its way out that
has given back its slot or not. `count` is what is compared with max_messages,
`errors` and `result` what decides the result of the run, `pop` and `errs` the two
backoffs, `timer` what the forwarder's timer was last set to. What `handleOne`
writes to Redis is in `Delivery`; here it is one step that ends with an error or
without one. A hook that panics inside the error path ends the process and is left
out, and so are the counters that are only shown by `Stats`.

### State and code: worker and manager

The n-th successful `Start` of a worker makes context n, channel n and goroutine
n; the fields `ctx` and `done` hold such a number, or 0 for nil. The goroutine
reads them when the code does, whatever they hold by then. `call[c]` is the Wait
or Stop a caller is in and the channel it copied.

The g-th `StartWorker` of a manager that passes its checks makes context g, and
the goroutines `<<g, queue, process>>`, of which the forwarder's is one. A start
that succeeds is one step, since it holds the lock and nothing it changes later
is read by the goroutines it starts. One that fails has started some of the
queues and then goes through the rollback: cancel, unlock, wait, lock, clear. The
WaitGroup is modelled from the library's rules: a Wait that finds goroutines
blocks, is woken by the last Done, and panics if goroutines were added before it
got that far. `waiter` tells where each Wait is. A Run whose context is canceled
and a Stop whose timeout passes leave the goroutine behind that they started for
it (`oldrun`, `oldstop`, one of each per caller). `Server.Run` and `Server.Stop`
hand over to the manager.

Both `Worker` and `Manager` are checked under a contract that callers can keep: a
worker is started only when no other call is under way and stopped without a
timeout (`WorkerNext`); a manager is started only when no call is under way
(`ManagerNext`). What a call left behind is not part of the contract, since nobody
can see it. `AnyUseNext` has every use that the packages allow; what happens then
is in the section on the documentation.

## Runs

| Run | Environment | Shows |
| --- | --- | --- |
| `lifecycle` | two messages, two workers, leases outlast handlers, immediate and delayed retries, a crash, cancel, reload, batches of two | `Exclusive`, `StatusTellsPosition` and the refinement `FollowsLifecycle` |
| `adversity` | one message with a TTL, two late workers; a crash, a hook panic, a forwarder error or a lost reply; cancel, management retry, reload and flush | `TypeOK`, `NoSilentLoss`, `ExpiryKept`, `SettledIsFinal` |
| `settle` | two messages, two workers, fair scheduling, retries with a delay of two seconds, a crash or a forwarder error, batches of one | `RunsBounded`, `EventuallySettled`, `DelayEnds`, `LeaseEnds` |
| `ids` | two calls, a sequence that starts again after 1, two lost replies, all kinds of payloads | `SequenceTypeOK`, `UniqueIds`, `DeliversOwn` |
| `worker` | three callers, two runs | `NoCrash`, `OneRunner`, `FailureTold`, `StopReturns` |
| `runtime` | three messages, one slot, max_messages 2, two failing commands, a cancellation | `Drained`, `OneAhead`, `TakesMaxMessages`, `BackoffDoubles`, `ForwarderStays`, `ConsumerReturns`, `ForwarderReturns`, `DelayedTaken` |
| `manager` | two queues, one of them with auto restart, an owner that starts or runs the manager, another caller that stops it or waits, canceled Runs and timeouts, failing workers, two starts, fair scheduling | `NoNilMapWrite`, `PanicNeedsLeftover`, `RestsWhenStopped`, `UnderCurrentContext`, `FailuresReported`, `StopReturns`, `RollbackReturns`, `Restarts` |

What they say about the code:

* `Exclusive`, `StatusTellsPosition`: as long as handlers finish in time, the
  forwarder's two scripts, reloads and cancels never hand a held message to a
  second consumer, and the persisted status is that of the bucket, except for an
  expired reservation (see `claim_status`).
* `FollowsLifecycle`: every step is a row of the transition matrix (its queue
  transitions; the statuses are those of `StatusTellsPosition`), and a message
  fails only with its attempts used up.
* `NoSilentLoss`: no order of round trips takes the last trace of a message out of
  the buckets. A message may be delivered more than once. A message whose key
  expired is outside of it from then on, also when a Retry with a body that was
  loaded before brings the key back: the ZREM of a `Pop` that found no entity can
  then end the lease of another consumer.
* `ExpiryKept`: no rewrite makes a message with a TTL live for ever, as long as
  half a second of it is left.
* `SettledIsFinal`: the race that the comment of `moveTimeoutScript` describes is
  closed; a message that is settled and that nobody holds stays so until its key
  expires, unless somebody asks for a Retry of its id.
* `RunsBounded`: the handler runs at most `max_attempts + 1` times (for the total
  of the documentation see `claim_attempts`).
* `EventuallySettled`, `DelayEnds`, `LeaseEnds`: nothing is stuck in `waiting`,
  `delayed` or `reserved`.
* `UniqueIds`, `DeliversOwn`: the restart of the sequence and
  scripts that ran twice never lead to one id for two messages, so no message
  is overwritten by another; the payload is changed once at most, by the first
  script that rewrites it.
* `NoCrash`, `OneRunner`, `FailureTold`, `StopReturns` (worker): concurrent Wait
  and Stop calls without a timeout are safe although each of them clears the
  fields the others will read. Only one of them is told of a failure.
* `Drained`, `OneAhead`, `TakesMaxMessages`: a consumer leaves no handler behind,
  claims one message more than it has slots, and ends at max_messages.
* `ForwarderStays`, `DelayedTaken`, `BackoffDoubles`, `ConsumerReturns`,
  `ForwarderReturns`: errors that can be waited out are, and a canceled context
  ends both loops wherever they are.
* `NoNilMapWrite`, `RestsWhenStopped`, `UnderCurrentContext`, `FailuresReported`:
  within the contract, timeouts of Stop, canceled Runs, failing starts and restarts
  leave no queue, no goroutine of a queue and no unreported failure behind. Errors
  are kept by queue and process, so that a later error of one process replaces an
  earlier one.
* `PanicNeedsLeftover`: the contract does not keep the WaitGroup from being reused
  too early, and the model has that panic; it comes of goroutines that a canceled
  Run or a Stop at its timeout left in their Wait, and of nothing else.
* `StopReturns`, `RollbackReturns`, `Restarts` (manager): Stop and a failing start
  return, unless that panic ends the process, and a consumer that reached
  max_messages or failed is replaced while its context lasts.

Bounds. Delivery: two ids and a batch of one are the least with which a batch
limit binds, two workers the least with which a message can have two holders; one
forwarder is enough for a stale second script, since others only add more of its
steps. `MaxTime` ends the clock; in `settle`, where something must happen in the
end, it is larger than any time reached. The clock moves only while a score lies
in the future, which keeps the states finite and loses nothing: without such a
score no script's result depends on the time. `MaxFaults` bounds the faults. In
`adversity` late commits can add copies of an id to a list without end; states with more than two copies (`FewCopies`) are checked but not explored
further. `MaxRuns` is one more than `RunsBounded` allows. Symmetry is used where
no liveness is checked.

`ids`: with `MaxSeq = 1` the sequence starts again after two scripts, and two
calls with two lost replies run four; the theorem covers the rest. `worker`: three
callers are a waiter, a stopper and one that comes too late, two runs the least in
which a field can belong to the wrong one; the theorems cover the rest. `runtime`:
one slot and three messages are the least with which one is handled, one is
claimed ahead and one is left; the two faults are enough for a backoff to double
into its limit. `manager`: two queues let a start fail between them, one of them
has a consumer and the other a forwarder only, `MaxStarts = 2` lets a start follow
an earlier one. One of the two callers starts the manager and the other stops it or
waits, which loses little: the contract lets only one start at a time, and callers
have no state of their own; the theorems have any set of callers and calls.

Fairness. `settle`: weak fairness of each worker, each forwarder and the clock:
goroutines are scheduled, Redis answers, handlers return, the forwarder polls for
ever, also after errors (`ForwarderStays`). Producers, managers and faults are not
fair. `EventuallySettled` is stated for handlers that do not requeue, for a handler
may requeue for ever, and it counts the timeout list as an end, for only a manual
reload leads out of it. `runtime`: weak fairness of the two loops and of each
handler goroutine (handlers get a context with a timeout); the forwarder's select
takes a canceled context in the end, since it stays ready. `worker` and
`manager`: weak fairness of each goroutine and of each call that is under way, with
the goroutine it waits for; a runner must return only after its context was
canceled. In `manager` it is one condition for all the goroutines that a queue and
process has over the starts, of which one is alive at a time (`UnderCurrentContext`).
Nobody has to call anything, no timeout has to pass, no command has to fail, and
what a call left behind need not go on.

Each property has a mutant: a variant of an operator, defined before it under a
comment that begins with `Mutant:`, that a plausible slip in the code would give
and under which TLC finds the property violated. `PROJECT.json` pairs them.

Deadlock is checked in every run but two: in `runtime` both loops return, and in
`manager` all callers may sit in Wait while consumers run, or a panic has ended the
process.

### Where the documentation and the code differ

| Run | Documentation | Code |
| --- | --- | --- |
| `claim_reload` | `redis_driver.go:336`: moves the messages back | `redis_driver.go:364`: a batch of stale entries ends it |
| `claim_worker` | `worker.go:123`: the worker can be started again after a reset | `worker.go:52`: after a Stop that timed out the goroutine closes a nil channel, which ends the process |
| `claim_start` | `manager.go:121`: StartWorker is protected by `started` | `manager.go:351`: a start during a rollback succeeds and is forgotten, the next one runs beside it |

| `claim_status` | `docs/guide.md:515`: an expired reservation has the status `timeout` | `lua.go:94`: `moveTimeoutScript` leaves the status `reserved`, on purpose (`lua.go:73`) |
| `claim_attempts` | `README.md:127`, `:137`, `docs/guide.md:386`, `asyncqueue_options.go:78`: `max_attempts` is the total of attempts | `message.go:72`: compares before it counts, so that the handler runs once more |

Each is a run of its own that ends with a counterexample. `claim_worker` and
`claim_start` are checked under `AnyUseSpec`. Other differences can be read off the modules
without a run:

* `lua.go:331` gives 0 for a message that cannot be canceled; LPOS answers false,
  not nil, so the script gives -1 (the results of Cancel are not modelled).
* `docs/guide.md:526` promises one commit per message; a hook that panics after
  the commit is recovered and commits again (`HookPanics`).
* `lua.go:379` says that a reload preserves the TTL; not in its last half second
  (`Kept`).
* `docs/guide.md:533` says that `retry` is a single script; it writes a body it
  read before (`RetryLoad`, `RetryCommit`).
* `README.md:202` says that the payload is recovered from the message; empty
  lists and long numbers are not (`cjsonRoundTrip`).
* `ForwardDelayed` uses `now + 1`, so a delayed message may be delivered a second
  before it is due.
* A manager that is run again after a canceled Run, or started again after a Stop at
  its timeout and another Stop, can panic, since a goroutine of the earlier call is
  still in `WaitGroup.Wait` (`WaitWakes`, `PanicNeedsLeftover`).

## Proofs

Each theorem is `Spec => []P` or `Spec => P` for a property `P` that a run
checks, for every value of the constants that satisfies the named assumptions of
the modules. The module of the run extends the same assumptions, so TLC evaluates
them on its instance. They ask for what the code has anyway: finitely many ids
and messages, a positive batch, lease and `MaxAttempts`, options of the right
type.

| Theorem | Property | Module |
| --- | --- | --- |
| `TypeCorrect` | `TypeOK` | `DeliveryProofs` |
| `NoLoss` | `NoSilentLoss` | `DeliveryProofs` |
| `ExpiryOutlivesRewrites` | `ExpiryKept` | `DeliveryProofs` |
| `SettledStays` | `SettledIsFinal` | `DeliveryProofs` |
| `OneHolder` (`Regular`) | `Exclusive` | `LeaseProofs` |
| `StatusNamesBucket` (`Regular`) | `StatusTellsPosition` | `LeaseProofs` |
| `ImplementsLifecycle` (`Regular`) | `FollowsLifecycle`, a refinement | `LeaseProofs` |
| `CallsBounded` (`Regular`, no requeue, no reload) | `RunsBounded` | `LeaseProofs` |
| `IdsUnique` | `SequenceTypeOK`, `UniqueIds` | `SequenceProofs` |
| `HandlersGetTheirOwn` | `DeliversOwn` | `EnvelopeProofs` |
| `EnvelopeIdsUnique` | `SequenceTypeOK`, `UniqueIds` | `EnvelopeProofs` |
| `RunLeavesNothingBehind`, `ClaimsOneAhead`, `TakesItsShare` | `Drained`, `OneAhead`, `TakesMaxMessages` | `RuntimeProofs` |
| `WaitsDouble`, `ForwarderKeepsOn` | `BackoffDoubles`, `ForwarderStays` | `RuntimeProofs` |
| `WorkerNeverCrashes`, `RunnerRunsOnce`, `FailuresAreTold` | `NoCrash`, `OneRunner`, `FailureTold` | `WorkerProofs` |
| `NoWriteToNilMap`, `OnlyLeftoversPanic` | `NoNilMapWrite`, `PanicNeedsLeftover` | `ManagerProofs` |
| `StoppedIsAtRest`, `OneContext` | `RestsWhenStopped`, `UnderCurrentContext` | `ManagerProofs` |
| `NoFailureLost` | `FailuresReported` | `ManagerProofs` |

### Delivery in any environment

Whatever crashes, is late, is sent twice or panics, the invariant of the store is

    Inv == TypeOK /\ NoSilentLoss /\ Provenance /\ VanishedIsGone

`NoSilentLoss` is not inductive. The only action that takes an id out of a
bucket without settling it is `PopForget`, the ZREM that `Pop` sends on its own.
It does not take one that `NoSilentLoss` speaks of (`VanishedIsGone`): when the
entity was missing, an id that had been pushed could only be one that expired or
was flushed at some time. That in turn needs every id in use to have been pushed
(`Provenance`).

`StoreProofs` reduces each script to two facts, its result has the right type and
it `KeepsAccount` of every message (of all but the flushed, expired or forgotten
ones). They rest on lemmas about lists (`LRemRange`: LREM removes the given ids
and no other), sorted sets and batches. `DeliveryProofs` then has a lemma per
action and adds them up in `NextInv`.

`ExpiryKept` needs `ExpiryKnown`: a key carries an expiry only if messages are
pushed with one. Without it a Push that is sent twice could clear an expiry.

`SettledIsFinal` has two exceptions, which are part of it: a key that expires, and
a Retry of the id that is under way. `Rests` is the part of `Settled` that is about
the store; each script keeps it for every id that it is not run for, and nobody
runs a script for a settled id since nobody holds one. Reload is the exception: it
skips the stale entries late commits left in the timeout list, because their status
is terminal.

### Delivery while leases outlast handlers

`Regular` is the environment of the documentation's claims: handlers finish before
their lease ends (`Timely`), messages have no TTL, nobody retries by id or flushes,
no script runs twice and no hook panics. Producers, cancels, reloads, any batch,
crashes of consumers and managers and errors of forwarders remain. The run
`adversity` has what `Regular` leaves out; there a message can have two
holders and copies in two buckets, so the hypotheses are needed. `lifecycle` is an
instance that satisfies them.

    Lease == Calm /\ Agrees /\ Leased /\ Exclusive /\ Tallied

`Exclusive` is not inductive: that Pop does not claim a message which somebody
holds needs the holder's message to be out of `waiting`. So `Leased` says that
what a goroutine holds is in `reserved` and its lease ends after now, and `Agrees`
that status and buckets tell the same story and no list has an id twice. A
forwarder works with a reading of the clock that may be old; that it is never ahead
(`Calm`) is why it takes no running lease. `Tallied` connects the locals of
`handleOne` with the stored count, from which the rows for Retry and Fail follow.

Each script is shown to be a `Shift`: a set of ids goes from one place to another,
and the rest, with its leases, stays. `StoreLease` and `WorkerLease` say once what a
shift owes to those it does not concern, and each action's lemma gives its shift.
The same shifts are the rows of the matrix (`LifeStep`), so that
`ImplementsLifecycle` only has to translate a place into a position; a batch that
is empty is a stuttering step.

`CallsBounded` adds `Budget`: the calls of a handler are at most one more than the
stored retries, and not more than these while the message is ahead of its next
call. Only a counted retry brings a message back (`ComesBackCounted`), which is
where requeues and reloads are excluded, and only one goroutine can make the call
(`Exclusive`).

### Ids and payloads

Uniqueness is not inductive, since it says nothing of the next id. The invariant
adds `BehindCounters`: every id that was handed out is at most the pair of the
counters in the order of epoch and number, and `ScriptMovesOn` shows that a run of
the script takes that pair forward, also where the number starts again.

`EnvelopeInv` adds `Keyed`, every key is an id that some call was given, and
`CopiesOwn`, a body in the store or in the hands of a Retry belongs to that call.
With unique ids a key names one call. `RoundTripIdempotent` shows that the second
rewrite of a payload by cjson changes nothing.

### The loops

`RuntimeInv` has one part per reason: `InHand` (the loop has one message at most in
its hands), `SlotsBounded`, `Waited` (no goroutine is alive after the return) and
`Limited` (what the loop knows of `max_messages` at each place). The slots in use
are the cardinality of a set of messages; the proofs move one message at a time
into and out of that set. The waiting times need
that 2^n grows, which the module shows by counting the subsets of 1..n, since
the provers cannot do induction over numbers.

### Worker and manager

`WorkerInv` says that the fields point to the latest run or to none
(`FieldsLatest`), that every other run is over and its channel closed
(`OthersOver`), that whoever waits waits for the latest run (`CallsLatest`), and
that the error field is that of the run that ended last (`ErrLatest`). So a
goroutine that is still alive closes its own channel, and whoever wakes up first
takes the error of the run it waited for.

`ManagerInv` rests on two facts about the WaitGroup. `Attended`: a caller stays in
its call while a Wait of its own is going on, so the contract lets no start come
meanwhile. `WaitsEnded`: a Wait that was woken, or is over while its call has yet to
go on, finds no goroutine; only a start could break that. Neither holds of a Wait
that was left behind, which is why those are what a panic needs. From the two follow
that Stop and the rollback clear the queues of a manager at rest and, with
`Recorded` (a failure is in the map or its goroutine is about to write it), that no
failure is lost. `MapMade` keeps the goroutines from writing to a nil map.

### Only model-checked

Liveness under fairness is out of the prover's reach and stays with TLC:
`EventuallySettled`, `DelayEnds`, `LeaseEnds`, `ConsumerReturns`,
`ForwarderReturns`, `DelayedTaken`, `StopReturns`, `RollbackReturns` and
`Restarts`. So do the counterexamples of the five `claim` runs.

## Not modelled, and what is left

Left to prove: parts of what `Regular` excludes. On instances with one message TLC
finds `Exclusive` kept with flushes and keys that expire too, and `RunsBounded` for
late handlers as long as nobody reloads; proofs need an `Agrees` that allows for missing entities or for
stale entries of the timeout list. What liveness rests on could be stated as safety
as well, for example that a reservation is due once its lease has ended.

Left out for good: `Info`, `Get`, `Ping`, `GetQueue` and `Stats`, which change
nothing; the default pointer of `Server`, whose every change is one atomic
instruction; the results of `Cancel`; loading of configuration and options that are only passed on; loggers;
the examples; the texts of errors; reading of the clock by the user's code. The
processes of a deployment share only Redis, so several of them are several workers
and forwarders of `Delivery`.
