------------------------------ MODULE Delivery ------------------------------
(***************************************************************************)
(* The delivery path of one channel: producers (Queue.pushMessage,         *)
(* RedisDriver.Push), consumer goroutines (Consumer.Run and handleOne),    *)
(* forwarders (ForwardMessages) and one management caller (Cancel, Retry,  *)
(* Reload, Flush), all working on the store of module QueueStore.          *)
(*                                                                         *)
(* A worker is one pass of Consumer.Run through Pop, handleOne and the     *)
(* commit.  Every round trip to Redis is a step of its own, so anything    *)
(* may happen between the pop and the load of the body, between the        *)
(* handler and the commit, or between the two round trips of a Retry.      *)
(* Pop runs before the semaphore is taken, so a claimed message may wait   *)
(* any time for its handler; that is a worker that stays "claimed".        *)
(*                                                                         *)
(* Time is in whole seconds, like the scores; `now' is the clock of every  *)
(* process.  It advances only while some score lies in the future, and     *)
(* up to MaxTime: a bound for TLC only.                                    *)
(***************************************************************************)
EXTENDS QueueStore

CONSTANTS
    Workers,        \* consumer goroutines, of one process or of several
    Forwarders,     \* one per running manager
    MaxAttempts,    \* Message.MaxAttempts
    HandleTimeout,  \* seconds from Pop to the end of the lease
    RetrySecs,      \* the consumer's retry_seconds
    Delays,         \* delays producers and the management caller ask for
    Results,        \* what handlers do; a subset of Outcomes
    HasTTL,         \* whether messages are pushed with a TTL
    Mgmt,           \* management operations in use; a subset of MgmtOps
    Faults,         \* a subset of FaultKinds
    Timely,         \* whether handlers are done before their lease ends
    MaxFaults,      \* how many faults happen at most
    MaxTime,        \* last value of the clock
    MaxRuns         \* handler calls counted per id, 0 for no count

Outcomes   == {"ACK", "DROP", "REQUEUE", "RETRY", "ERROR", "PANIC"}
MgmtOps    == {"cancel", "retry", "reload", "flush"}
FaultKinds == {"crash", "hookpanic", "fwderror", "resend"}

ASSUME DeliveryAssumption ==
    /\ MaxAttempts \in Nat \ {0} /\ HandleTimeout \in Nat \ {0}
    /\ RetrySecs \in Seq(Int) /\ Delays \subseteq Int
    /\ Results \subseteq Outcomes /\ Mgmt \subseteq MgmtOps
    /\ Faults \subseteq FaultKinds
    /\ HasTTL \in BOOLEAN /\ Timely \in BOOLEAN
    /\ MaxFaults \in Nat /\ MaxTime \in Nat
    /\ MaxRuns \in Nat

CONSTANT NoId       \* the id of a worker or a manager that holds none
ASSUME NoIdAssumption == NoId \notin Ids

VARIABLES
    now,        \* clock.Now().Unix()
    prod,       \* id -> where its Push call stands
    wk,         \* worker -> program counter and locals of handleOne
    fwd,        \* forwarder -> program counter and the time it read
    mgr,        \* program counter and locals of the management call
    faults,     \* history: faults so far
    gone,       \* history: ids whose entity expired or whose bucket was flushed
    runs        \* history: handler calls per id, counted up to MaxRuns

vars == <<waiting, timeout, failed, delayed, reserved, msg, now, prod, wk,
          fwd, mgr, faults, gone, runs>>
envVars == <<now, gone, runs>>

NoBody == [status |-> "waiting", attempts |-> 0, exp |-> "none"]

\* Message locals between two messages.
IdleWorker == [pc |-> "idle", id |-> NoId, attempts |-> 0, op |-> "none",
               body |-> NoBody, score |-> 0, rec |-> FALSE]
IdleManager == [pc |-> "idle", id |-> NoId, body |-> NoBody, score |-> 0,
                src |-> "none"]

Init ==
    /\ StoreInit
    /\ now = 0
    /\ prod = [i \in Ids |-> [pc |-> "new", mode |-> "waiting", score |-> 0]]
    /\ wk = [w \in Workers |-> IdleWorker]
    /\ fwd = [f \in Forwarders |-> [pc |-> "idle", now |-> 0]]
    /\ mgr = IdleManager
    /\ faults = 0
    /\ gone = {}
    /\ runs = [i \in Ids |-> 0]

-----------------------------------------------------------------------------
(* Faults.  go-redis sends a command again when the connection breaks      *)
(* before the reply: the script then runs twice.                           *)

Fault(kind) == kind \in Faults /\ faults < MaxFaults /\ faults' = faults + 1

\* After a script ran, either its reply arrives and the caller goes on, or
\* the caller is still where it was and will run the script again.
ReplyOrResend(arrived, lost) ==
    \/ arrived /\ UNCHANGED faults
    \/ Fault("resend") /\ lost

-----------------------------------------------------------------------------
(* Producer. *)

Sent(id, mode, score) == [pc |-> "sent", mode |-> mode, score |-> score]
Returned == [pc |-> "done", mode |-> "waiting", score |-> 0]

NewEntity(mode) == [status |-> mode, attempts |-> 0,
                    exp |-> IF HasTTL THEN "far" ELSE "none"]

PushCall(id, mode, score) ==
    /\ pushScript(id, NewEntity(mode), mode, score)
    /\ ReplyOrResend(prod' = [prod EXCEPT ![id] = Returned],
                     prod' = [prod EXCEPT ![id] = Sent(id, mode, score)])
    /\ UNCHANGED <<wk, fwd, mgr, envVars>>

\* Any delay but 0, negative ones too, goes to delayed.
Push(id, delay) ==
    /\ prod[id].pc = "new"
    /\ IF delay = 0 THEN PushCall(id, "waiting", 0)
                    ELSE PushCall(id, "delayed", now + delay)

PushResend(id) ==
    /\ prod[id].pc = "sent"
    /\ PushCall(id, prod[id].mode, prod[id].score)

-----------------------------------------------------------------------------
(* Consumer goroutines. *)

Goto(w, rec) == wk' = [wk EXCEPT ![w] = rec]

\* The client asks again after popTimeout; ids without entity were dropped.
PopNil(w) ==
    /\ wk[w].pc = "idle"
    /\ popScriptNil
    /\ UNCHANGED <<prod, wk, fwd, mgr, faults, envVars>>

\* Mutant: the claimed id does not reach handleOne.
PopWithoutId(w) ==
    /\ wk[w].pc = "idle"
    /\ \E id \in Ids :
        /\ popScript(id, now + HandleTimeout)
        /\ Goto(w, [IdleWorker EXCEPT !.pc = "claimed"])
    /\ UNCHANGED <<prod, fwd, mgr, faults, envVars>>

Pop(w) ==
    /\ wk[w].pc = "idle"
    /\ \E id \in Ids :
        /\ popScript(id, now + HandleTimeout)
        /\ Goto(w, [IdleWorker EXCEPT !.pc = "claimed", !.id = id])
    /\ UNCHANGED <<prod, fwd, mgr, faults, envVars>>

\* loadMessage; a missing entity leads to a ZREM of its own.  From here on
\* the handler has been called with a private copy of the message.
Load(w) ==
    LET id == wk[w].id
    IN  /\ wk[w].pc = "claimed"
        /\ IF id \in DOMAIN msg
           THEN /\ Goto(w, [wk[w] EXCEPT !.pc = "handling",
                                         !.attempts = msg[id].attempts])
                /\ runs' = [runs EXCEPT ![id] =
                                IF @ < MaxRuns THEN @ + 1 ELSE @]
           ELSE /\ Goto(w, [wk[w] EXCEPT !.pc = "vanished"])
                /\ UNCHANGED runs
        /\ UNCHANGED <<storeVars, now, prod, fwd, mgr, faults, gone>>

PopForget(w) ==
    /\ wk[w].pc = "vanished"
    /\ zremReserved(wk[w].id)
    /\ Goto(w, IdleWorker)
    /\ UNCHANGED <<prod, fwd, mgr, faults, envVars>>

\* Mutant: the comparison lets one attempt more through.
AttemptsAllowedInclusive(m) == MaxAttempts >= m.attempts

\* Message.AttemptsAllowed, which counts the attempt either way.
AttemptsAllowed(m) == MaxAttempts > m.attempts
Attempted(m) == [m EXCEPT !.op = IF AttemptsAllowed(m) THEN "retry" ELSE "fail",
                          !.attempts = @ + 1, !.pc = "commit"]

\* core.RetrySeconds
RetrySeconds(attempts) ==
    IF RetrySecs = <<>> THEN 10
    ELSE LET k == IF attempts <= 0 THEN 1 ELSE attempts
         IN  RetrySecs[IF k > Len(RetrySecs) THEN Len(RetrySecs) ELSE k]

\* The handler returns, or panics and handleOne recovers.
Handle(w) ==
    /\ wk[w].pc = "handling"
    /\ \E r \in Results :
        Goto(w, CASE r = "ACK"     -> [wk[w] EXCEPT !.pc = "commit", !.op = "ack"]
                  [] r = "DROP"    -> [wk[w] EXCEPT !.pc = "commit", !.op = "drop"]
                  [] r = "REQUEUE" -> [wk[w] EXCEPT !.pc = "commit", !.op = "requeue"]
                  [] r = "RETRY"   -> Attempted(wk[w])
                  [] r = "ERROR"   -> Attempted(wk[w])
                  [] r = "PANIC"   -> [Attempted(wk[w]) EXCEPT !.rec = TRUE])
    /\ UNCHANGED <<storeVars, prod, fwd, mgr, faults, envVars>>

Committed(w) == [wk[w] EXCEPT !.pc = "hook"]

\* Ack, Drop, Requeue and Fail are one script each.
Commit(w) ==
    LET id == wk[w].id
    IN  /\ wk[w].pc = "commit"
        /\ \/ wk[w].op = "ack"     /\ ackScript(id)
           \/ wk[w].op = "drop"    /\ dropScript(id)
           \/ wk[w].op = "requeue" /\ requeueScript(id)
           \/ wk[w].op = "fail"    /\ failScript(id)
        /\ ReplyOrResend(Goto(w, Committed(w)), UNCHANGED wk)
        /\ UNCHANGED <<prod, fwd, mgr, envVars>>

\* Mutant: the attempt is not counted in the stored entity.
RetryBodyUncounted(id, delay) ==
    [msg[id] EXCEPT !.status = IF delay <= 0 THEN "waiting" ELSE "delayed",
                    !.exp = "none"]

\* The body a Retry call writes, computed from the entity it loaded.
RetryBody(id, delay) ==
    [msg[id] EXCEPT !.status = IF delay <= 0 THEN "waiting" ELSE "delayed",
                    !.attempts = IF @ < MaxAttempts THEN @ + 1 ELSE @,
                    !.exp = "none"]

\* First round trip of Retry: load the entity.  A missing one makes handleOne
\* return an error.
RetryLoad(w) ==
    LET id == wk[w].id
        delay == RetrySeconds(wk[w].attempts)
    IN  /\ wk[w].pc = "commit" /\ wk[w].op = "retry"
        /\ IF id \in DOMAIN msg
           THEN Goto(w, [wk[w] EXCEPT !.pc = "retry",
                                      !.body = RetryBody(id, delay),
                                      !.score = now + delay])
           ELSE Goto(w, IdleWorker)
        /\ UNCHANGED <<storeVars, prod, fwd, mgr, faults, envVars>>

\* Second round trip: the script.  Status and queue agree by construction of
\* the body, so the status is the mode.
RetryCommit(w) ==
    LET r == wk[w]
    IN  /\ r.pc = "retry"
        /\ \/ /\ retryByIDScript(r.id, r.body, r.body.status, r.score)
              /\ ReplyOrResend(Goto(w, [Committed(w) EXCEPT !.body = NoBody,
                                                            !.score = 0]),
                               UNCHANGED wk)
           \/ /\ ~retryFinds(r.id)
              /\ Goto(w, IdleWorker)
              /\ UNCHANGED <<storeVars, faults>>
        /\ UNCHANGED <<prod, fwd, mgr, envVars>>

\* The hook of the commit returns and so does handleOne.
HookReturns(w) ==
    /\ wk[w].pc = "hook"
    /\ Goto(w, IdleWorker)
    /\ UNCHANGED <<storeVars, prod, fwd, mgr, faults, envVars>>

\* The hook panics.  handleOne's deferred function recovers and calls
\* handleError; a panic in there is not recovered and ends the process.
HookPanics(w) ==
    /\ Fault("hookpanic")
    /\ wk[w].pc = "hook"
    /\ Goto(w, IF wk[w].rec THEN IdleWorker
                            ELSE [Attempted(wk[w]) EXCEPT !.rec = TRUE])
    /\ UNCHANGED <<storeVars, prod, fwd, mgr, envVars>>

\* The process of w dies, or a round trip of w fails for good and handleOne
\* or Pop gives up: what w had claimed stays as it is in the store.
Crash(w) ==
    /\ Fault("crash")
    /\ wk[w].pc # "idle"
    /\ Goto(w, IdleWorker)
    /\ UNCHANGED <<storeVars, prod, fwd, mgr, envVars>>

-----------------------------------------------------------------------------
(* Forwarders: ForwardMessages reads the clock once for both its scripts.  *)

\* Mutant: an early return when no delayed message is due.
ForwardDelayedReturns(f) ==
    /\ fwd[f].pc = "idle"
    /\ moveScript(now + 1)
    /\ delayed' # delayed
    /\ fwd' = [fwd EXCEPT ![f] = [pc |-> "timeout", now |-> now]]
    /\ UNCHANGED <<prod, wk, mgr, faults, envVars>>

ForwardDelayed(f) ==
    /\ fwd[f].pc = "idle"
    /\ moveScript(now + 1)
    /\ fwd' = [fwd EXCEPT ![f] = [pc |-> "timeout", now |-> now]]
    /\ UNCHANGED <<prod, wk, mgr, faults, envVars>>

\* Mutant: now+1 for the leases too.
ForwardTimeoutEarly(f) ==
    /\ fwd[f].pc = "timeout"
    /\ moveTimeoutScript(fwd[f].now + 1)
    /\ fwd' = [fwd EXCEPT ![f] = [pc |-> "idle", now |-> 0]]
    /\ UNCHANGED <<prod, wk, mgr, faults, envVars>>

ForwardTimeout(f) ==
    /\ fwd[f].pc = "timeout"
    /\ moveTimeoutScript(fwd[f].now)
    /\ fwd' = [fwd EXCEPT ![f] = [pc |-> "idle", now |-> 0]]
    /\ UNCHANGED <<prod, wk, mgr, faults, envVars>>

\* The first script fails, or the second one does: Run logs the error and
\* calls ForwardMessages afresh after its backoff.
ForwardFails(f) ==
    /\ Fault("fwderror")
    /\ fwd[f].pc = "timeout"
    /\ fwd' = [fwd EXCEPT ![f] = [pc |-> "idle", now |-> 0]]
    /\ UNCHANGED <<storeVars, prod, wk, mgr, envVars>>

-----------------------------------------------------------------------------
(* Management calls, on ids whose Push has returned. *)

Known(id) == prod[id].pc = "done"

Cancel(id) ==
    /\ "cancel" \in Mgmt /\ Known(id)
    /\ cancelByIDScript(id)
    /\ UNCHANGED <<prod, wk, fwd, mgr, faults, envVars>>

MgrRetryLoad(id, delay) ==
    /\ "retry" \in Mgmt /\ Known(id)
    /\ mgr.pc = "idle"
    /\ id \in DOMAIN msg
    /\ mgr' = [IdleManager EXCEPT !.pc = "retry", !.id = id,
                  !.body = RetryBody(id, delay), !.score = now + delay]
    /\ UNCHANGED <<storeVars, prod, wk, fwd, faults, envVars>>

MgrRetryScript ==
    /\ mgr.pc = "retry"
    /\ \/ retryByIDScript(mgr.id, mgr.body, mgr.body.status, mgr.score)
       \/ ~retryFinds(mgr.id) /\ UNCHANGED storeVars
    /\ mgr' = IdleManager
    /\ UNCHANGED <<prod, wk, fwd, faults, envVars>>

ReloadStart(name) ==
    /\ "reload" \in Mgmt
    /\ mgr.pc = "idle"
    /\ mgr' = [IdleManager EXCEPT !.pc = "reload", !.src = name]
    /\ UNCHANGED <<storeVars, prod, wk, fwd, faults, envVars>>

\* One turn of Reload's loop; it ends with the first call that moves nothing.
ReloadStep ==
    LET source == IF mgr.src = "timeout" THEN timeout ELSE failed
    IN  /\ mgr.pc = "reload"
        /\ IF mgr.src = "timeout" THEN reloadTimeoutScript ELSE reloadFailedScript
        /\ mgr' = IF reloadCount(mgr.src, source) > 0 THEN mgr ELSE IdleManager
        /\ UNCHANGED <<prod, wk, fwd, faults, envVars>>

Flush(name) ==
    /\ "flush" \in Mgmt
    /\ delBucket(name)
    /\ gone' = gone \cup Bucket(name)
    /\ UNCHANGED <<now, prod, wk, fwd, mgr, faults, runs>>

\* The caller of Retry or Reload dies between two round trips.
ManagerCrash ==
    /\ Fault("crash")
    /\ mgr.pc # "idle"
    /\ mgr' = IdleManager
    /\ UNCHANGED <<storeVars, prod, wk, fwd, envVars>>

-----------------------------------------------------------------------------
(* Time and expiry. *)

Scores == Range(delayed) \cup Range(reserved)

\* w has claimed a message and has not committed it yet.
Holds(w) == wk[w].pc \in {"claimed", "handling", "commit", "retry"}

Tick ==
    /\ now < MaxTime
    /\ \E s \in Scores : s > now
    /\ Timely => \A w \in Workers : Holds(w) /\ wk[w].id \in DOMAIN reserved
                                    => now + 1 < reserved[wk[w].id]
    /\ now' = now + 1
    /\ UNCHANGED <<storeVars, prod, wk, fwd, mgr, faults, gone, runs>>

TtlRunsDown(id) ==
    /\ ttlRunsDown(id)
    /\ UNCHANGED <<prod, wk, fwd, mgr, faults, envVars>>

KeyExpires(id) ==
    /\ keyExpires(id)
    /\ gone' = gone \cup {id}
    /\ UNCHANGED <<now, prod, wk, fwd, mgr, faults, runs>>

-----------------------------------------------------------------------------
Worker(w) == \/ Pop(w) \/ PopNil(w) \/ Load(w) \/ PopForget(w) \/ Handle(w)
             \/ Commit(w) \/ RetryLoad(w) \/ RetryCommit(w)
             \/ HookReturns(w) \/ HookPanics(w)

Forward(f) == ForwardDelayed(f) \/ ForwardTimeout(f)

Manage ==
    \/ \E id \in Ids : Cancel(id)
    \/ \E id \in Ids, d \in Delays : MgrRetryLoad(id, d)
    \/ MgrRetryScript
    \/ \E name \in {"timeout", "failed"} : ReloadStart(name)
    \/ ReloadStep
    \/ ManagerCrash
    \/ \E name \in Buckets : Flush(name)

Next ==
    \/ \E id \in Ids, d \in Delays : Push(id, d)
    \/ \E id \in Ids : PushResend(id)
    \/ \E w \in Workers : Worker(w) \/ Crash(w)
    \/ \E f \in Forwarders : Forward(f) \/ ForwardFails(f)
    \/ Manage
    \/ Tick
    \/ \E id \in Ids : TtlRunsDown(id) \/ KeyExpires(id)

Spec == Init /\ [][Next]_vars

\* Goroutines keep running, Redis answers, handlers return, forwarders poll
\* forever and time passes.  Nothing obliges a producer or a manager to call.
Fairness ==
    /\ \A w \in Workers : WF_vars(Worker(w))
    /\ \A f \in Forwarders : WF_vars(Forward(f))
    /\ WF_vars(Tick)

FairSpec == Spec /\ Fairness

-----------------------------------------------------------------------------
(* Properties. *)

Bodies == [status : {"waiting", "delayed"}, attempts : Nat, exp : {"none"}]

WorkerType ==
    [pc : {"idle", "claimed", "vanished", "handling", "commit", "retry", "hook"},
     id : Ids \cup {NoId}, attempts : Nat,
     op : {"none", "ack", "drop", "requeue", "fail", "retry"},
     body : Bodies, score : Int, rec : BOOLEAN]

ManagerType ==
    [pc : {"idle", "retry", "reload"}, id : Ids \cup {NoId}, body : Bodies,
     score : Int, src : {"none", "timeout", "failed"}]

\* Every variable has the shape the Go code and the scripts give it, and
\* whoever is about to run a script for an id has one.
TypeOK ==
    /\ StoreTypeOK
    /\ now \in Nat
    /\ prod \in [Ids -> [pc : {"new", "sent", "done"},
                         mode : {"waiting", "delayed"}, score : Int]]
    /\ wk \in [Workers -> WorkerType]
    /\ \A w \in Workers : wk[w].pc # "idle" => wk[w].id \in Ids
    /\ fwd \in [Forwarders -> [pc : {"idle", "timeout"}, now : Nat]]
    /\ mgr \in ManagerType
    /\ mgr.pc = "retry" => mgr.id \in Ids
    /\ mgr.pc = "reload" => mgr.src # "none"
    /\ faults \in Nat
    /\ gone \subseteq Ids
    /\ runs \in [Ids -> Nat]

Pushed == {id \in Ids : prod[id].pc # "new"}

\* A pushed message whose key did not expire and whose bucket nobody flushed
\* is never lost: it was done, dropped or canceled, or its id is in a bucket
\* from which it can be delivered, forwarded or reloaded.  This is about every
\* script at once, whatever crashes, is late, is sent twice or panics.
NoSilentLoss == \A id \in Pushed \ gone : Accounted(id)

\* A message that was pushed with a TTL does not come to live for ever because
\* a script rewrote it: unless TTL already read 0 (less than half a second was
\* left), the expiry outlives every pop, move, reload and commit, and also the
\* SET of a retry whose body was loaded in an earlier round trip.
ExpiryKept ==
    [][\A id \in DOMAIN msg \cap DOMAIN msg' :
          msg[id].exp = "far" => msg'[id].exp # "none"]_vars

\* Ids reach workers and managers, and keys reach Redis, through Push alone.
Provenance ==
    /\ DOMAIN msg \subseteq Pushed
    /\ \A w \in Workers : wk[w].pc # "idle" => wk[w].id \in Pushed
    /\ mgr.pc = "retry" => mgr.id \in Pushed

\* While leases outlast handlers, no two goroutines hold one message: Pop
\* claims it for one of them, and the forwarder, Reload and the retries do not
\* hand it out again before that one has committed.
Exclusive ==
    \A v, w \in Workers : Holds(v) /\ Holds(w) /\ wk[v].id = wk[w].id => v = w

Occurrences(q, id) == Cardinality({i \in DOMAIN q : q[i] = id})
ZOccurrences(z, id) == IF id \in DOMAIN z THEN 1 ELSE 0
Copies(id) == Occurrences(waiting, id) + Occurrences(timeout, id)
                + Occurrences(failed, id) + ZOccurrences(delayed, id)
                + ZOccurrences(reserved, id)

\* While leases outlast handlers, the queue position and the persisted status
\* of a message agree: it is in one bucket, once, and the status names that
\* bucket, or it is in none and its status is terminal.  The exception is a
\* reservation that expired: moveTimeoutScript leaves `reserved' on purpose
\* (lua.go:73), where the guide's matrix has `timeout'; TimeoutHasItsStatus of
\* module DocumentedClaims is that row, refuted by a run of its own.
StatusTellsPosition ==
    \A id \in Pushed :
        LET st == msg[id].status
        IN  IF st \in Terminal THEN Copies(id) = 0
            ELSE /\ Copies(id) = 1
                 /\ \/ st \in Buckets /\ id \in Bucket(st)
                    \/ st = "reserved" /\ id \in Range(timeout)

\* A message that reached a terminal status, that nobody still holds or pushes
\* and that is in no bucket except as the stale entry of timeout its late commit
\* left there.
Settled(id) ==
    /\ Known(id)
    /\ id \in DOMAIN msg /\ msg[id].status \in Terminal
    /\ id \notin Range(waiting) \cup Range(failed)
                  \cup DOMAIN delayed \cup DOMAIN reserved
    /\ \A w \in Workers : wk[w].id # id

\* With late handlers, crashes, lost replies, panicking hooks and reloads of
\* either list a settled message stays settled until its key expires, unless a
\* management Retry, which is asked for by id, is about to bring it back.  This
\* is the race moveTimeoutScript's comment is about.
SettledIsFinal ==
    [][\A id \in Ids : Settled(id) /\ ~(mgr.pc = "retry" /\ mgr.id = id)
                            => Settled(id)' \/ id \notin DOMAIN msg']_vars

\* Without requeues and management calls the handler is called at most once
\* per allowed retry and once more, whatever mix of results and crashes.  This
\* is the bound the code keeps; the total that the documentation promises,
\* MaxAttempts, is AttemptsTotal of module DocumentedClaims.
RunsBounded == \A id \in Ids : runs[id] <= MaxAttempts + 1

\* Every reservation ends, that of a crashed consumer through the forwarder.
LeaseEnds ==
    \A id \in Ids : id \in DOMAIN reserved ~> id \notin DOMAIN reserved

\* Every delay ends, also when more messages are due than one batch takes.
DelayEnds ==
    \A id \in Ids : id \in DOMAIN delayed ~> id \notin DOMAIN delayed

\* Without requeues every pushed message ends up done, dropped or failed, or
\* in the timeout list, where only a manual reload helps it, when its consumer
\* crashed or was late.  It does not matter how many retries there are.
EventuallySettled ==
    \A id \in Ids : id \in Pushed ~>
        \/ id \in DOMAIN msg /\ msg[id].status \in Terminal \cup {"failed"}
        \/ id \in Range(timeout)
=============================================================================
