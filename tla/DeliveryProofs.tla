--------------------------- MODULE DeliveryProofs ---------------------------
(***************************************************************************)
(* Type correctness and the absence of silent loss, for any number of      *)
(* messages, consumers and forwarders, any handler behaviour and any mix   *)
(* of faults and management calls.                                         *)
(***************************************************************************)
EXTENDS Delivery, StoreProofs

\* A worker that found no entity has an id that was lost at some time.  (A
\* Retry with a body loaded before may bring the key back; the ZREM that the
\* worker then sends can end the lease of another one.  `gone' is history, and
\* such an id stays outside of what NoSilentLoss promises.)
VanishedIsGone ==
    \A w \in Workers : wk[w].pc = "vanished" => wk[w].id \in gone

\* No silent loss is not inductive alone: PopForget takes nothing from the ids
\* it speaks of only because the worker's id is not one of them, which rests on
\* every id in use having been pushed.
Inv == TypeOK /\ NoSilentLoss /\ Provenance /\ VanishedIsGone

-----------------------------------------------------------------------------
(* What a step that leaves a part alone owes to the invariant. *)

LEMMA StoreStutter ==
    ASSUME StoreTypeOK, UNCHANGED storeVars
    PROVE  StoreTypeOK' /\ KeepsAccount(Ids) /\ DOMAIN msg' \subseteq DOMAIN msg
BY DEF storeVars, StoreTypeOK, IsZset, KeepsAccount, Accounted, Placed

\* Messages stay accounted for when the ones the step does not keep are gone.
LEMMA AccountFrame ==
    ASSUME NoSilentLoss, gone \subseteq gone', prod' = prod,
           KeepsAccount(Ids \ gone')
    PROVE  NoSilentLoss' /\ Pushed' = Pushed
<1>1. Pushed' = Pushed
    BY DEF Pushed
<1> QED  BY <1>1 DEF NoSilentLoss, KeepsAccount, Pushed

LEMMA WorkerStep ==
    ASSUME Inv, NEW w \in Workers, NEW r \in WorkerType, Goto(w, r),
           r.pc # "idle" => r.id \in Pushed,
           r.pc = "vanished" => r.id \in gone,
           StoreTypeOK', KeepsAccount(Ids \ gone), DOMAIN msg' \subseteq Pushed,
           UNCHANGED <<now, prod, fwd, mgr, gone>>,
           faults' \in Nat, runs' \in [Ids -> Nat]
    PROVE  Inv'
<1>1. NoSilentLoss' /\ Pushed' = Pushed /\ Pushed \subseteq Ids
    BY AccountFrame DEF Inv, Pushed
<1>2. /\ wk' \in [Workers -> WorkerType]
      /\ \A v \in Workers : wk'[v] = IF v = w THEN r ELSE wk[v]
    BY DEF Goto, Inv, TypeOK
<1>3. TypeOK'
    BY <1>1, <1>2 DEF Inv, TypeOK
<1>4. Provenance'
    BY <1>1, <1>2 DEF Inv, Provenance
<1>5. VanishedIsGone'
    BY <1>2 DEF Inv, VanishedIsGone
<1> QED  BY <1>1, <1>3, <1>4, <1>5 DEF Inv

\* The reply of a script is lost: the store changed, its caller did not.
LEMMA ResendStep ==
    ASSUME Inv, StoreTypeOK', KeepsAccount(Ids), DOMAIN msg' \subseteq Pushed,
           UNCHANGED <<now, prod, wk, fwd, mgr, gone, runs>>, faults' \in Nat
    PROVE  Inv'
<1>1. NoSilentLoss' /\ Pushed' = Pushed
    BY AccountFrame DEF Inv, KeepsAccount
<1> QED  BY <1>1 DEF Inv, TypeOK, Provenance, VanishedIsGone

LEMMA FaultCount ==
    ASSUME NEW kind, faults \in Nat, Fault(kind)
    PROVE  faults' \in Nat
BY DEF Fault

LEMMA IdleWorkerType == IdleWorker \in WorkerType /\ IdleWorker.pc = "idle"
BY DEF IdleWorker, WorkerType, NoBody, Bodies

LEMMA IdleManagerType == IdleManager \in ManagerType /\ IdleManager.pc = "idle"
BY DEF IdleManager, ManagerType, NoBody, Bodies

\* A worker goes idle without touching the store.
LEMMA GiveUp ==
    ASSUME Inv, NEW w \in Workers, Goto(w, IdleWorker), UNCHANGED storeVars,
           UNCHANGED <<now, prod, fwd, mgr, gone, runs>>, faults' \in Nat
    PROVE  Inv'
<1>1. /\ StoreTypeOK' /\ KeepsAccount(Ids \ gone) /\ DOMAIN msg' \subseteq Pushed
      /\ runs' \in [Ids -> Nat]
    BY StoreStutter DEF Inv, TypeOK, Provenance, KeepsAccount
<1> QED  BY <1>1, IdleWorkerType, WorkerStep

-----------------------------------------------------------------------------
(* Producers. *)

LEMMA PushCallInv ==
    ASSUME Inv, NEW id \in Ids, NEW mode \in {"waiting", "delayed"},
           NEW score \in Int, PushCall(id, mode, score)
    PROVE  Inv'
<1>1. StoreTypeOK' /\ KeepsAccount(Ids) /\ Accounted(id)'
    <2>1. NewEntity(mode) \in Entity
        BY DEF NewEntity, Entity, Statuses, Expiries
    <2>2. StoreTypeOK /\ pushScript(id, NewEntity(mode), mode, score)
        BY DEF Inv, TypeOK, PushCall
    <2> QED  BY <2>1, <2>2, PushOk
<1>2. DOMAIN msg' = DOMAIN msg \cup {id}
    BY NoNewKeys DEF PushCall
<1>3. UNCHANGED <<now, wk, fwd, mgr, gone, runs>>
    BY DEF PushCall, envVars
<1>4. faults' \in Nat
    BY FaultCount DEF PushCall, ReplyOrResend, Inv, TypeOK
<1>5. PICK r \in {Returned, Sent(id, mode, score)} : prod' = [prod EXCEPT ![id] = r]
    BY DEF PushCall, ReplyOrResend
<1>6. /\ r \in [pc : {"new", "sent", "done"}, mode : {"waiting", "delayed"}, score : Int]
      /\ r.pc # "new"
    BY DEF Returned, Sent
<1>7. /\ prod' \in [Ids -> [pc : {"new", "sent", "done"},
                           mode : {"waiting", "delayed"}, score : Int]]
      /\ Pushed' = Pushed \cup {id}
    BY <1>5, <1>6 DEF Pushed, Inv, TypeOK
<1>8. TypeOK'
    BY <1>1, <1>3, <1>4, <1>7 DEF Inv, TypeOK
<1>9. NoSilentLoss'
    BY <1>1, <1>3, <1>7 DEF Inv, NoSilentLoss, KeepsAccount, Pushed
<1>10. Provenance' /\ VanishedIsGone'
    BY <1>2, <1>3, <1>7 DEF Inv, Provenance, VanishedIsGone
<1> QED  BY <1>8, <1>9, <1>10 DEF Inv

LEMMA PushInv ==
    ASSUME Inv, NEW id \in Ids, NEW d \in Delays, Push(id, d)
    PROVE  Inv'
<1>1. 0 \in Int /\ now + d \in Int
    BY DeliveryAssumption DEF Inv, TypeOK
<1>2. CASE d = 0
    BY <1>1, <1>2, PushCallInv DEF Push
<1>3. CASE d # 0
    BY <1>1, <1>3, PushCallInv DEF Push
<1> QED  BY <1>2, <1>3

LEMMA PushResendInv ==
    ASSUME Inv, NEW id \in Ids, PushResend(id)
    PROVE  Inv'
<1>1. prod[id].mode \in {"waiting", "delayed"} /\ prod[id].score \in Int
    BY DEF Inv, TypeOK
<1> QED  BY <1>1, PushCallInv DEF PushResend

-----------------------------------------------------------------------------
(* Consumer goroutines. *)

LEMMA PopInv ==
    ASSUME Inv, NEW w \in Workers, Pop(w)
    PROVE  Inv'
<1>1. PICK id \in Ids : /\ popScript(id, now + HandleTimeout)
                       /\ Goto(w, [IdleWorker EXCEPT !.pc = "claimed", !.id = id])
    BY DEF Pop
<1>2. StoreTypeOK' /\ KeepsAccount(Ids)
    <2>1. StoreTypeOK /\ now + HandleTimeout \in Int
        BY DeliveryAssumption DEF Inv, TypeOK
    <2> QED  BY <1>1, <2>1, PopOk
<1>3. id \in Pushed /\ DOMAIN msg' \subseteq Pushed
    <2>1. id \in DOMAIN msg
        BY <1>1 DEF popScript
    <2> QED  BY <1>1, <2>1, NoNewKeys DEF Inv, Provenance
<1> DEFINE r == [IdleWorker EXCEPT !.pc = "claimed", !.id = id]
<1>4. r \in WorkerType /\ r.pc = "claimed" /\ r.id = id
    <2>1. IdleWorker \in WorkerType
        BY IdleWorkerType
    <2> HIDE DEF IdleWorker
    <2> QED  BY <2>1 DEF WorkerType
<1>5. /\ UNCHANGED <<now, prod, fwd, mgr, gone>>
      /\ faults' \in Nat /\ runs' \in [Ids -> Nat]
    BY DEF Pop, envVars, Inv, TypeOK
<1> HIDE DEF r
<1> QED  BY <1>1, <1>2, <1>3, <1>4, <1>5, WorkerStep DEF r, KeepsAccount

LEMMA PopNilInv ==
    ASSUME Inv, NEW w \in Workers, PopNil(w)
    PROVE  Inv'
<1>1. StoreTypeOK' /\ KeepsAccount(Ids) /\ DOMAIN msg' \subseteq Pushed
    BY PopNilOk, NoNewKeys DEF PopNil, Inv, TypeOK, Provenance
<1>2. UNCHANGED <<now, prod, wk, fwd, mgr, gone, runs>> /\ faults' \in Nat
    BY DEF PopNil, envVars, Inv, TypeOK
<1> QED  BY <1>1, <1>2, ResendStep

LEMMA LoadInv ==
    ASSUME Inv, NEW w \in Workers, Load(w)
    PROVE  Inv'
<1> DEFINE id == wk[w].id
<1>1. /\ wk[w] \in WorkerType /\ wk[w].pc = "claimed"
      /\ id \in Pushed /\ id \in Ids
    BY DEF Load, Inv, TypeOK, Provenance
<1>2. /\ StoreTypeOK' /\ KeepsAccount(Ids \ gone) /\ DOMAIN msg' \subseteq Pushed
      /\ UNCHANGED <<now, prod, fwd, mgr, gone>> /\ faults' \in Nat
    BY StoreStutter DEF Load, Inv, TypeOK, Provenance, KeepsAccount
<1>3. CASE id \in DOMAIN msg
    <2> DEFINE r == [wk[w] EXCEPT !.pc = "handling", !.attempts = msg[id].attempts]
    <2>1. Goto(w, r) /\ runs' \in [Ids -> Nat]
        BY <1>1, <1>3 DEF Load, Inv, TypeOK
    <2>2. msg[id].attempts \in Nat
        BY <1>3 DEF Inv, TypeOK, StoreTypeOK, Entity
    <2>3. r \in WorkerType /\ r.pc = "handling" /\ r.id = id
        BY <1>1, <2>2 DEF WorkerType
    <2> HIDE DEF r
    <2> QED  BY <1>1, <1>2, <2>1, <2>3, WorkerStep
<1>4. CASE id \notin DOMAIN msg
    <2> DEFINE r == [wk[w] EXCEPT !.pc = "vanished"]
    <2>1. Goto(w, r) /\ runs' \in [Ids -> Nat]
        BY <1>4 DEF Load, Inv, TypeOK
    <2>2. r \in WorkerType /\ r.pc = "vanished" /\ r.id = id
        BY <1>1 DEF WorkerType
    <2>3. id \in gone
        BY <1>1, <1>4 DEF Inv, NoSilentLoss, Accounted
    <2> HIDE DEF r
    <2> QED  BY <1>1, <1>2, <2>1, <2>2, <2>3, WorkerStep
<1> QED  BY <1>3, <1>4

LEMMA PopForgetInv ==
    ASSUME Inv, NEW w \in Workers, PopForget(w)
    PROVE  Inv'
<1>1. /\ wk[w].id \in Ids /\ wk[w].id \in gone
      /\ zremReserved(wk[w].id) /\ Goto(w, IdleWorker)
    BY DEF PopForget, Inv, TypeOK, VanishedIsGone
<1>2. StoreTypeOK' /\ KeepsAccount(Ids \ gone)
    BY <1>1, ZremOk DEF Inv, TypeOK, KeepsAccount
<1>3. /\ DOMAIN msg' \subseteq Pushed /\ UNCHANGED <<now, prod, fwd, mgr, gone>>
      /\ faults' \in Nat /\ runs' \in [Ids -> Nat]
    BY <1>1, NoNewKeys DEF PopForget, envVars, Inv, TypeOK, Provenance
<1> QED  BY <1>1, <1>2, <1>3, IdleWorkerType, WorkerStep

\* A step of handleOne that changes locals only and keeps the id.
LEMMA LocalStep ==
    ASSUME Inv, NEW w \in Workers, wk[w].pc # "idle",
           NEW r \in WorkerType, Goto(w, r), r.id = wk[w].id,
           r.pc # "vanished", UNCHANGED storeVars,
           UNCHANGED <<now, prod, fwd, mgr, gone, runs>>, faults' \in Nat
    PROVE  Inv'
<1>1. /\ StoreTypeOK' /\ KeepsAccount(Ids \ gone) /\ DOMAIN msg' \subseteq Pushed
      /\ runs' \in [Ids -> Nat] /\ r.id \in Pushed
    BY StoreStutter DEF Inv, TypeOK, Provenance, KeepsAccount
<1> QED  BY <1>1, WorkerStep

LEMMA AttemptedType ==
    ASSUME NEW m \in WorkerType
    PROVE  /\ Attempted(m) \in WorkerType
           /\ Attempted(m).pc = "commit" /\ Attempted(m).id = m.id
           /\ [Attempted(m) EXCEPT !.rec = TRUE] \in WorkerType
           /\ [Attempted(m) EXCEPT !.rec = TRUE].pc = "commit"
           /\ [Attempted(m) EXCEPT !.rec = TRUE].id = m.id
<1> DEFINE o == IF AttemptsAllowed(m) THEN "retry" ELSE "fail"
           n == m.attempts + 1
<1>1. o \in {"retry", "fail"} /\ n \in Nat
    BY DEF WorkerType
<1>2. Attempted(m) = [m EXCEPT !.op = o, !.attempts = n, !.pc = "commit"]
    BY DEF Attempted
<1> HIDE DEF o, n
<1>3. /\ Attempted(m) \in WorkerType
      /\ Attempted(m).pc = "commit" /\ Attempted(m).id = m.id
    BY <1>1, <1>2 DEF WorkerType
<1> QED  BY <1>3 DEF WorkerType

LEMMA HandleInv ==
    ASSUME Inv, NEW w \in Workers, Handle(w)
    PROVE  Inv'
<1>1. /\ wk[w] \in WorkerType /\ wk[w].pc = "handling" /\ UNCHANGED storeVars
      /\ UNCHANGED <<now, prod, fwd, mgr, gone, runs>> /\ faults' \in Nat
    BY DEF Handle, envVars, Inv, TypeOK
<1>2. PICK r \in Results :
        Goto(w, CASE r = "ACK"     -> [wk[w] EXCEPT !.pc = "commit", !.op = "ack"]
                  [] r = "DROP"    -> [wk[w] EXCEPT !.pc = "commit", !.op = "drop"]
                  [] r = "REQUEUE" -> [wk[w] EXCEPT !.pc = "commit", !.op = "requeue"]
                  [] r = "RETRY"   -> Attempted(wk[w])
                  [] r = "ERROR"   -> Attempted(wk[w])
                  [] r = "PANIC"   -> [Attempted(wk[w]) EXCEPT !.rec = TRUE])
    BY DEF Handle
<1>3. r \in Outcomes
    BY DeliveryAssumption
<1>4. CASE r \in {"ACK", "DROP", "REQUEUE"}
    <2>1. PICK o \in {"ack", "drop", "requeue"} :
            Goto(w, [wk[w] EXCEPT !.pc = "commit", !.op = o])
        BY <1>2, <1>4
    <2> DEFINE y == [wk[w] EXCEPT !.pc = "commit", !.op = o]
    <2>2. y \in WorkerType /\ y.pc = "commit" /\ y.id = wk[w].id
        BY <1>1 DEF WorkerType
    <2>3. Goto(w, y)
        BY <2>1
    <2> HIDE DEF y
    <2> QED  BY <1>1, <2>2, <2>3, LocalStep
<1>5. CASE r \in {"RETRY", "ERROR"}
    <2>1. Goto(w, Attempted(wk[w]))
        BY <1>2, <1>5
    <2> QED  BY <1>1, <2>1, AttemptedType, LocalStep
<1>6. CASE r = "PANIC"
    <2> DEFINE y == [Attempted(wk[w]) EXCEPT !.rec = TRUE]
    <2>1. Goto(w, y)
        BY <1>2, <1>6
    <2>2. y \in WorkerType /\ y.pc = "commit" /\ y.id = wk[w].id
        BY <1>1, AttemptedType
    <2> HIDE DEF y
    <2> QED  BY <1>1, <2>1, <2>2, LocalStep
<1> QED  BY <1>3, <1>4, <1>5, <1>6 DEF Outcomes

LEMMA CommittedType ==
    ASSUME NEW w \in Workers, wk[w] \in WorkerType
    PROVE  /\ Committed(w) \in WorkerType
           /\ Committed(w).pc = "hook" /\ Committed(w).id = wk[w].id
    BY DEF Committed, WorkerType

LEMMA CommitInv ==
    ASSUME Inv, NEW w \in Workers, Commit(w)
    PROVE  Inv'
<1> DEFINE id == wk[w].id
<1>1. /\ wk[w] \in WorkerType /\ id \in Ids /\ id \in Pushed /\ StoreTypeOK
    BY DEF Commit, Inv, TypeOK, Provenance
<1>2. ackScript(id) \/ dropScript(id) \/ requeueScript(id) \/ failScript(id)
    BY DEF Commit
<1>3. StoreTypeOK' /\ KeepsAccount(Ids)
    BY <1>1, <1>2, FinishOk, ReturnOk
<1>4. DOMAIN msg' \subseteq Pushed
    BY <1>2, NoNewKeys DEF Inv, Provenance
<1>5. /\ UNCHANGED <<now, prod, fwd, mgr, gone, runs>>
      /\ faults' \in Nat /\ runs' \in [Ids -> Nat]
    BY FaultCount DEF Commit, ReplyOrResend, envVars, Inv, TypeOK
<1>6. CASE Goto(w, Committed(w))
    BY <1>1, <1>3, <1>4, <1>5, <1>6, CommittedType, WorkerStep DEF KeepsAccount
<1>7. CASE UNCHANGED wk
    BY <1>3, <1>4, <1>5, <1>7, ResendStep
<1> QED  BY <1>6, <1>7 DEF Commit, ReplyOrResend

\* What Retry writes is an entity with the status of the queue it goes to.
LEMMA RetryBodyType ==
    ASSUME StoreTypeOK, NEW id \in DOMAIN msg, NEW delay
    PROVE  RetryBody(id, delay) \in Bodies
<1> DEFINE st == IF delay <= 0 THEN "waiting" ELSE "delayed"
           a == IF msg[id].attempts < MaxAttempts
                THEN msg[id].attempts + 1 ELSE msg[id].attempts
<1>1. msg[id] \in Entity
    BY DEF StoreTypeOK
<1>2. st \in {"waiting", "delayed"} /\ a \in Nat
    BY <1>1 DEF Entity
<1>3. RetryBody(id, delay) =
        [msg[id] EXCEPT !.status = st, !.attempts = a, !.exp = "none"]
    BY DEF RetryBody
<1> HIDE DEF st, a
<1> QED  BY <1>1, <1>2, <1>3 DEF Entity, Bodies

LEMMA BodiesAreEntities == \A b \in Bodies : /\ b \in Entity
                                            /\ b.status \in {"waiting", "delayed"}
BY DEF Bodies, Entity, Statuses, Expiries

LEMMA RetrySecondsType ==
    ASSUME NEW a \in Nat
    PROVE  RetrySeconds(a) \in Int
<1>1. RetrySecs \in Seq(Int)
    BY DeliveryAssumption
<1>2. CASE RetrySecs = <<>>
    BY <1>2 DEF RetrySeconds
<1>3. CASE RetrySecs # <<>>
    <2> DEFINE k == IF a <= 0 THEN 1 ELSE a
               i == IF k > Len(RetrySecs) THEN Len(RetrySecs) ELSE k
    <2>1. Len(RetrySecs) \in Nat \ {0}
        BY <1>1, <1>3, EmptySeq
    <2>2. i \in 1..Len(RetrySecs)
        BY <2>1
    <2>3. RetrySeconds(a) = RetrySecs[i]
        BY <1>3 DEF RetrySeconds
    <2> HIDE DEF i
    <2> QED  BY <1>1, <2>2, <2>3, ElementOfSeq
<1> QED  BY <1>2, <1>3

LEMMA RetryLoadInv ==
    ASSUME Inv, NEW w \in Workers, RetryLoad(w)
    PROVE  Inv'
<1> DEFINE id == wk[w].id
           delay == RetrySeconds(wk[w].attempts)
<1>1. /\ wk[w] \in WorkerType /\ wk[w].pc = "commit" /\ UNCHANGED storeVars
      /\ UNCHANGED <<now, prod, fwd, mgr, gone, runs>> /\ faults' \in Nat
    BY DEF RetryLoad, envVars, Inv, TypeOK
<1>2. CASE id \in DOMAIN msg
    <2> DEFINE b == RetryBody(id, delay)
               s == now + delay
               r == [wk[w] EXCEPT !.pc = "retry", !.body = b, !.score = s]
    <2>1. Goto(w, r)
        BY <1>2 DEF RetryLoad
    <2>2. b \in Bodies
        BY <1>2, RetryBodyType DEF Inv, TypeOK
    <2>3. s \in Int
        <3>1. wk[w].attempts \in Nat
            BY <1>1 DEF WorkerType
        <3>2. delay \in Int
            BY <3>1, RetrySecondsType
        <3> QED  BY <3>2 DEF Inv, TypeOK
    <2> HIDE DEF b, s
    <2>4. r \in WorkerType /\ r.pc = "retry" /\ r.id = wk[w].id
        BY <1>1, <2>2, <2>3 DEF WorkerType
    <2> HIDE DEF r
    <2> QED  BY <1>1, <2>1, <2>4, LocalStep
<1>3. CASE id \notin DOMAIN msg
    <2>1. Goto(w, IdleWorker)
        BY <1>3 DEF RetryLoad
    <2> QED  BY <1>1, <2>1, GiveUp
<1> QED  BY <1>2, <1>3

LEMMA ForgetBody ==
    ASSUME NEW c \in WorkerType, NEW b \in Bodies
    PROVE  /\ [c EXCEPT !.body = b, !.score = 0] \in WorkerType
           /\ [c EXCEPT !.body = b, !.score = 0].pc = c.pc
           /\ [c EXCEPT !.body = b, !.score = 0].id = c.id
<1> DEFINE n == 0
<1>1. n \in Int
    OBVIOUS
<1> HIDE DEF n
<1>2. /\ [c EXCEPT !.body = b, !.score = n] \in WorkerType
      /\ [c EXCEPT !.body = b, !.score = n].pc = c.pc
      /\ [c EXCEPT !.body = b, !.score = n].id = c.id
    BY <1>1 DEF WorkerType
<1> QED  BY <1>2 DEF n

LEMMA RetryCommitInv ==
    ASSUME Inv, NEW w \in Workers, RetryCommit(w)
    PROVE  Inv'
<1> DEFINE r == wk[w]
<1>1. /\ r \in WorkerType /\ r.id \in Ids /\ r.id \in Pushed /\ StoreTypeOK
    BY DEF RetryCommit, Inv, TypeOK, Provenance
<1>2. /\ UNCHANGED <<now, prod, fwd, mgr, gone, runs>>
      /\ faults' \in Nat /\ runs' \in [Ids -> Nat]
    BY FaultCount DEF RetryCommit, ReplyOrResend, envVars, Inv, TypeOK
<1>3. CASE retryByIDScript(r.id, r.body, r.body.status, r.score)
           /\ ReplyOrResend(Goto(w, [Committed(w) EXCEPT !.body = NoBody, !.score = 0]),
                            UNCHANGED wk)
    <2>1. r.body \in Entity /\ r.body.status \in {"waiting", "delayed"} /\ r.score \in Int
        BY <1>1, BodiesAreEntities DEF WorkerType
    <2>2. StoreTypeOK' /\ KeepsAccount(Ids)
        BY <1>1, <1>3, <2>1, RetryOk
    <2>3. DOMAIN msg' \subseteq Pushed
        <3>1. DOMAIN msg' = DOMAIN msg \cup {r.id}
            BY <1>3, NoNewKeys
        <3> QED  BY <1>1, <3>1 DEF Inv, Provenance
    <2> DEFINE x == [Committed(w) EXCEPT !.body = NoBody, !.score = 0]
    <2>4. x \in WorkerType /\ x.pc = "hook" /\ x.id = r.id
        <3>1. NoBody \in Bodies
            BY DEF NoBody, Bodies
        <3> HIDE DEF NoBody
        <3> DEFINE c == Committed(w)
        <3>2. c \in WorkerType /\ c.pc = "hook" /\ c.id = r.id
            BY <1>1, CommittedType
        <3> HIDE DEF c
        <3>3. /\ [c EXCEPT !.body = NoBody, !.score = 0] \in WorkerType
              /\ [c EXCEPT !.body = NoBody, !.score = 0].pc = c.pc
              /\ [c EXCEPT !.body = NoBody, !.score = 0].id = c.id
            BY <3>1, <3>2, ForgetBody
        <3> QED  BY <3>2, <3>3 DEF c
    <2>5. CASE Goto(w, x)
        <3> HIDE DEF x
        <3> QED  BY <1>1, <1>2, <2>2, <2>3, <2>4, <2>5, WorkerStep DEF KeepsAccount
    <2>6. CASE UNCHANGED wk
        BY <1>2, <2>2, <2>3, <2>6, ResendStep
    <2> QED  BY <1>3, <2>5, <2>6 DEF ReplyOrResend
<1>4. CASE Goto(w, IdleWorker) /\ UNCHANGED storeVars
    BY <1>2, <1>4, GiveUp
<1> QED  BY <1>3, <1>4 DEF RetryCommit

LEMMA HookInv ==
    ASSUME Inv, NEW w \in Workers, HookReturns(w) \/ HookPanics(w) \/ Crash(w)
    PROVE  Inv'
<1>1. /\ wk[w] \in WorkerType /\ wk[w].pc # "idle" /\ UNCHANGED storeVars
      /\ UNCHANGED <<now, prod, fwd, mgr, gone, runs>> /\ faults' \in Nat
    BY FaultCount DEF HookReturns, HookPanics, Crash, envVars, Inv, TypeOK
<1> DEFINE y == [Attempted(wk[w]) EXCEPT !.rec = TRUE]
<1>2. Goto(w, IdleWorker) \/ Goto(w, y)
    BY DEF HookReturns, HookPanics, Crash
<1>3. CASE Goto(w, IdleWorker)
    BY <1>1, <1>3, GiveUp
<1>4. CASE Goto(w, y)
    <2>1. y \in WorkerType /\ y.pc = "commit" /\ y.id = wk[w].id
        BY <1>1, AttemptedType
    <2> HIDE DEF y
    <2> QED  BY <1>1, <1>4, <2>1, LocalStep
<1> QED  BY <1>2, <1>3, <1>4

-----------------------------------------------------------------------------
(* Forwarders. *)

LEMMA ForwardInv ==
    ASSUME Inv, NEW f \in Forwarders,
           ForwardDelayed(f) \/ ForwardTimeout(f) \/ ForwardFails(f)
    PROVE  Inv'
<1>1. StoreTypeOK' /\ KeepsAccount(Ids) /\ DOMAIN msg' \subseteq DOMAIN msg
    <2>1. StoreTypeOK /\ now + 1 \in Int /\ fwd[f].now \in Int
        BY DEF Inv, TypeOK
    <2>2. CASE ForwardDelayed(f)
        BY <2>1, <2>2, MoveOk, NoNewKeys DEF ForwardDelayed
    <2>3. CASE ForwardTimeout(f)
        BY <2>1, <2>3, MoveTimeoutOk, NoNewKeys DEF ForwardTimeout
    <2>4. CASE ForwardFails(f)
        BY <2>1, <2>4, StoreStutter DEF ForwardFails
    <2> QED  BY <2>2, <2>3, <2>4
<1>2. UNCHANGED <<now, prod, wk, mgr, gone, runs>> /\ faults' \in Nat
    BY FaultCount DEF ForwardDelayed, ForwardTimeout, ForwardFails, envVars, Inv, TypeOK
<1>3. fwd' \in [Forwarders -> [pc : {"idle", "timeout"}, now : Nat]]
    <2>1. PICK r \in {[pc |-> "timeout", now |-> now], [pc |-> "idle", now |-> 0]} :
            fwd' = [fwd EXCEPT ![f] = r]
        BY DEF ForwardDelayed, ForwardTimeout, ForwardFails
    <2>2. r \in [pc : {"idle", "timeout"}, now : Nat]
        BY DEF Inv, TypeOK
    <2> QED  BY <2>1, <2>2 DEF Inv, TypeOK
<1>4. NoSilentLoss' /\ Pushed' = Pushed
    BY <1>1, <1>2, AccountFrame DEF Inv, KeepsAccount
<1>5. TypeOK'
    BY <1>1, <1>2, <1>3 DEF Inv, TypeOK
<1> QED  BY <1>1, <1>2, <1>4, <1>5 DEF Inv, Provenance, VanishedIsGone

-----------------------------------------------------------------------------
(* Management calls. *)

\* The manager moves to locals of the right type on an id that was pushed.
LEMMA ManagerStep ==
    ASSUME Inv, mgr' \in ManagerType,
           mgr'.pc = "retry" => mgr'.id \in Pushed,
           mgr'.pc = "reload" => mgr'.src # "none",
           StoreTypeOK', KeepsAccount(Ids), DOMAIN msg' \subseteq Pushed,
           UNCHANGED <<now, prod, wk, fwd, gone, runs>>, faults' \in Nat
    PROVE  Inv'
<1>1. NoSilentLoss' /\ Pushed' = Pushed /\ Pushed \subseteq Ids
    BY AccountFrame DEF Inv, KeepsAccount, Pushed
<1>2. TypeOK'
    BY <1>1 DEF Inv, TypeOK
<1> QED  BY <1>1, <1>2 DEF Inv, Provenance, VanishedIsGone

LEMMA CancelInv ==
    ASSUME Inv, NEW id \in Ids, Cancel(id)
    PROVE  Inv'
<1>1. StoreTypeOK' /\ KeepsAccount(Ids) /\ DOMAIN msg' \subseteq Pushed
    BY CancelOk, NoNewKeys DEF Cancel, Inv, TypeOK, Provenance
<1>2. UNCHANGED <<now, prod, wk, fwd, mgr, gone, runs>> /\ faults' \in Nat
    BY DEF Cancel, envVars, Inv, TypeOK
<1> QED  BY <1>1, <1>2, ResendStep

LEMMA MgrRetryLoadInv ==
    ASSUME Inv, NEW id \in Ids, NEW d \in Delays, MgrRetryLoad(id, d)
    PROVE  Inv'
<1> DEFINE b == RetryBody(id, d)
           s == now + d
<1>1. mgr' = [IdleManager EXCEPT !.pc = "retry", !.id = id, !.body = b, !.score = s]
    BY DEF MgrRetryLoad
<1>2. b \in Bodies /\ s \in Int /\ id \in Pushed
    BY RetryBodyType, DeliveryAssumption DEF MgrRetryLoad, Inv, TypeOK, Provenance
<1> HIDE DEF b, s
<1>3. mgr' \in ManagerType /\ mgr'.pc = "retry" /\ mgr'.id = id
    <2> HIDE DEF IdleManager
    <2> QED  BY <1>1, <1>2, IdleManagerType DEF ManagerType
<1>4. /\ StoreTypeOK' /\ KeepsAccount(Ids) /\ DOMAIN msg' \subseteq Pushed
      /\ UNCHANGED <<now, prod, wk, fwd, gone, runs>> /\ faults' \in Nat
    BY StoreStutter DEF MgrRetryLoad, envVars, Inv, TypeOK, Provenance
<1> QED  BY <1>2, <1>3, <1>4, ManagerStep

LEMMA MgrRetryScriptInv ==
    ASSUME Inv, MgrRetryScript
    PROVE  Inv'
<1>1. /\ StoreTypeOK /\ mgr \in ManagerType
      /\ mgr.id \in Ids /\ mgr.id \in Pushed /\ mgr' = IdleManager
    BY DEF MgrRetryScript, Inv, TypeOK, Provenance
<1>2. StoreTypeOK' /\ KeepsAccount(Ids) /\ DOMAIN msg' \subseteq Pushed
    <2>1. CASE retryByIDScript(mgr.id, mgr.body, mgr.body.status, mgr.score)
        <3>1. /\ mgr.body \in Entity /\ mgr.body.status \in {"waiting", "delayed"}
              /\ mgr.score \in Int
            BY <1>1, BodiesAreEntities DEF ManagerType
        <3>2. DOMAIN msg' = DOMAIN msg \cup {mgr.id}
            BY <2>1, NoNewKeys
        <3> QED  BY <1>1, <2>1, <3>1, <3>2, RetryOk DEF Inv, Provenance
    <2>2. CASE UNCHANGED storeVars
        BY <1>1, <2>2, StoreStutter DEF Inv, Provenance
    <2> QED  BY <2>1, <2>2 DEF MgrRetryScript
<1>3. UNCHANGED <<now, prod, wk, fwd, gone, runs>> /\ faults' \in Nat
    BY DEF MgrRetryScript, envVars, Inv, TypeOK
<1> QED  BY <1>1, <1>2, <1>3, IdleManagerType, ManagerStep

LEMMA ReloadStartInv ==
    ASSUME Inv, NEW name \in {"timeout", "failed"}, ReloadStart(name)
    PROVE  Inv'
<1>1. mgr' = [IdleManager EXCEPT !.pc = "reload", !.src = name]
    BY DEF ReloadStart
<1>2. mgr' \in ManagerType /\ mgr'.pc = "reload" /\ mgr'.src # "none"
    <2> HIDE DEF IdleManager
    <2> QED  BY <1>1, IdleManagerType DEF ManagerType
<1>3. /\ StoreTypeOK' /\ KeepsAccount(Ids) /\ DOMAIN msg' \subseteq Pushed
      /\ UNCHANGED <<now, prod, wk, fwd, gone, runs>> /\ faults' \in Nat
    BY StoreStutter DEF ReloadStart, envVars, Inv, TypeOK, Provenance
<1> QED  BY <1>2, <1>3, ManagerStep

LEMMA ReloadStepInv ==
    ASSUME Inv, ReloadStep
    PROVE  Inv'
<1>1. StoreTypeOK' /\ KeepsAccount(Ids) /\ DOMAIN msg' \subseteq Pushed
    <2>1. reloadTimeoutScript \/ reloadFailedScript
        BY DEF ReloadStep
    <2> QED  BY <2>1, ReloadOk, NoNewKeys DEF Inv, TypeOK, Provenance
<1>2. /\ UNCHANGED <<now, prod, wk, fwd, gone, runs>> /\ faults' \in Nat
      /\ mgr' = mgr \/ mgr' = IdleManager
    BY DEF ReloadStep, envVars, Inv, TypeOK
<1>3. CASE mgr' = IdleManager
    BY <1>1, <1>2, <1>3, IdleManagerType, ManagerStep
<1>4. CASE mgr' = mgr
    BY <1>1, <1>2, <1>4, ResendStep
<1> QED  BY <1>2, <1>3, <1>4

LEMMA ManagerCrashInv ==
    ASSUME Inv, ManagerCrash
    PROVE  Inv'
<1>1. /\ StoreTypeOK' /\ KeepsAccount(Ids) /\ DOMAIN msg' \subseteq Pushed
      /\ UNCHANGED <<now, prod, wk, fwd, gone, runs>> /\ faults' \in Nat
      /\ mgr' = IdleManager
    BY StoreStutter, FaultCount DEF ManagerCrash, envVars, Inv, TypeOK, Provenance
<1> QED  BY <1>1, IdleManagerType, ManagerStep

-----------------------------------------------------------------------------
(* Steps that may lose messages on purpose, and the clock. *)

LEMMA LossStep ==
    ASSUME Inv, gone \subseteq gone', gone' \subseteq Ids,
           StoreTypeOK', KeepsAccount(Ids \ gone'), DOMAIN msg' \subseteq DOMAIN msg,
           UNCHANGED <<prod, wk, fwd, mgr, faults, runs>>, now' \in Nat
    PROVE  Inv'
<1>1. NoSilentLoss' /\ Pushed' = Pushed
    BY AccountFrame DEF Inv
<1> QED  BY <1>1 DEF Inv, TypeOK, Provenance, VanishedIsGone

LEMMA FlushInv ==
    ASSUME Inv, NEW name \in Buckets, Flush(name)
    PROVE  Inv'
<1>1. StoreTypeOK /\ delBucket(name) /\ gone' = gone \cup Bucket(name) /\ gone \subseteq Ids
    BY DEF Flush, Inv, TypeOK
<1>2. Bucket(name) \subseteq Ids
    BY <1>1, RangeOfSeq DEF Bucket, Buckets, StoreTypeOK, IsZset, Range
<1>3. StoreTypeOK' /\ KeepsAccount(Ids \ gone') /\ DOMAIN msg' \subseteq DOMAIN msg
    BY <1>1, FlushOk, NoNewKeys DEF KeepsAccount
<1>4. UNCHANGED <<prod, wk, fwd, mgr, faults, runs>> /\ now' \in Nat
    BY DEF Flush, Inv, TypeOK
<1> QED  BY <1>1, <1>2, <1>3, <1>4, LossStep

LEMMA TickInv ==
    ASSUME Inv, Tick
    PROVE  Inv'
<1>1. /\ StoreTypeOK' /\ KeepsAccount(Ids \ gone') /\ DOMAIN msg' \subseteq DOMAIN msg
      /\ gone' = gone /\ gone \subseteq Ids
    BY StoreStutter DEF Tick, Inv, TypeOK, KeepsAccount
<1>2. UNCHANGED <<prod, wk, fwd, mgr, faults, runs>> /\ now' \in Nat
    BY DEF Tick, Inv, TypeOK
<1> QED  BY <1>1, <1>2, LossStep

LEMMA ExpiryInv ==
    ASSUME Inv, NEW id \in Ids, TtlRunsDown(id) \/ KeyExpires(id)
    PROVE  Inv'
<1>1. /\ StoreTypeOK' /\ DOMAIN msg' \subseteq DOMAIN msg
      /\ KeepsAccount(Ids \ {id}) /\ (ttlRunsDown(id) => KeepsAccount(Ids))
    BY ExpiryOk, NoNewKeys DEF TtlRunsDown, KeyExpires, Inv, TypeOK
<1>2. /\ (gone' = gone /\ ttlRunsDown(id)) \/ gone' = gone \cup {id}
      /\ gone \subseteq gone' /\ gone' \subseteq Ids
    BY DEF TtlRunsDown, KeyExpires, envVars, Inv, TypeOK
<1>3. KeepsAccount(Ids \ gone')
    BY <1>1, <1>2 DEF KeepsAccount
<1>4. UNCHANGED <<prod, wk, fwd, mgr, faults, runs>> /\ now' \in Nat
    BY DEF TtlRunsDown, KeyExpires, envVars, Inv, TypeOK
<1> QED  BY <1>1, <1>2, <1>3, <1>4, LossStep

-----------------------------------------------------------------------------
(* The invariant. *)

LEMMA InitInv == Init => Inv
<1> SUFFICES ASSUME Init PROVE Inv
    OBVIOUS
<1>1. StoreTypeOK /\ DOMAIN msg = {}
    BY DEF Init, StoreInit, EmptyMap, StoreTypeOK, IsZset
<1>2. Pushed = {}
    BY DEF Init, Pushed
<1>3. wk \in [Workers -> WorkerType] /\ \A w \in Workers : wk[w].pc = "idle"
    <2> HIDE DEF IdleWorker
    <2> QED  BY IdleWorkerType DEF Init
<1>4. mgr \in ManagerType /\ mgr.pc = "idle"
    BY IdleManagerType DEF Init
<1>5. /\ now \in Nat /\ faults \in Nat /\ gone \subseteq Ids /\ runs \in [Ids -> Nat]
      /\ fwd \in [Forwarders -> [pc : {"idle", "timeout"}, now : Nat]]
      /\ prod \in [Ids -> [pc : {"new", "sent", "done"},
                           mode : {"waiting", "delayed"}, score : Int]]
    BY DEF Init
<1> QED  BY <1>1, <1>2, <1>3, <1>4, <1>5
         DEF Inv, TypeOK, NoSilentLoss, Provenance, VanishedIsGone

LEMMA StutterInv ==
    ASSUME Inv, UNCHANGED vars
    PROVE  Inv'
<1>1. StoreTypeOK' /\ KeepsAccount(Ids) /\ DOMAIN msg' \subseteq Pushed
    BY StoreStutter DEF vars, storeVars, Inv, TypeOK, Provenance
<1>2. UNCHANGED <<now, prod, wk, fwd, mgr, gone, runs>> /\ faults' \in Nat
    BY DEF vars, Inv, TypeOK
<1> QED  BY <1>1, <1>2, ResendStep

LEMMA NextInv == Inv /\ [Next]_vars => Inv'
<1> SUFFICES ASSUME Inv, [Next]_vars PROVE Inv'
    OBVIOUS
<1>1. ASSUME NEW id \in Ids, NEW d \in Delays, Push(id, d) PROVE Inv'
    BY <1>1, PushInv
<1>2. ASSUME NEW id \in Ids, PushResend(id) PROVE Inv'
    BY <1>2, PushResendInv
<1>3. ASSUME NEW w \in Workers, Worker(w) \/ Crash(w) PROVE Inv'
    BY <1>3, PopInv, PopNilInv, LoadInv, PopForgetInv, HandleInv, CommitInv,
       RetryLoadInv, RetryCommitInv, HookInv DEF Worker
<1>4. ASSUME NEW f \in Forwarders, Forward(f) \/ ForwardFails(f) PROVE Inv'
    BY <1>4, ForwardInv DEF Forward
<1>5. CASE Manage
    BY <1>5, CancelInv, MgrRetryLoadInv, MgrRetryScriptInv, ReloadStartInv,
       ReloadStepInv, ManagerCrashInv, FlushInv DEF Manage
<1>6. CASE Tick
    BY <1>6, TickInv
<1>7. ASSUME NEW id \in Ids, TtlRunsDown(id) \/ KeyExpires(id) PROVE Inv'
    BY <1>7, ExpiryInv
<1>8. CASE UNCHANGED vars
    BY <1>8, StutterInv
<1> QED  BY <1>1, <1>2, <1>3, <1>4, <1>5, <1>6, <1>7, <1>8 DEF Next

\* The inductive invariant holds in every behaviour of the delivery path.
THEOREM InvHolds == Spec => []Inv
<1> QED  BY InitInv, NextInv, PTL DEF Spec

\* Every variable keeps its shape, and no script is ever run for the id of an
\* idle worker or manager, whatever the parameters of the queue are.
THEOREM TypeCorrect == Spec => []TypeOK
<1>1. Inv => TypeOK
    BY DEF Inv
<1> QED  BY <1>1, InvHolds, PTL

\* No script and no interleaving of the round trips of Pop, Retry, Reload and
\* ForwardMessages loses a message that did not expire and was not flushed,
\* for any number of messages, consumers and forwarders, late commits,
\* crashes, scripts sent twice and hooks that panic included.
THEOREM NoLoss == Spec => []NoSilentLoss
<1>1. Inv => NoSilentLoss
    BY DEF Inv
<1> QED  BY <1>1, InvHolds, PTL

-----------------------------------------------------------------------------
(* What the rewrites of a message key do to its expiry. *)

\* Keys that carry an expiry were pushed with one.
ExpiryKnown == \A id \in DOMAIN msg : msg[id].exp # "none" => HasTTL

\* An expiry is kept, comes closer or, once TTL reads 0, is dropped; a key
\* that is new has none.
Fades ==
    \A id \in DOMAIN msg' :
        IF id \in DOMAIN msg
        THEN \/ msg'[id].exp \in {msg[id].exp, Kept(msg[id].exp)}
             \/ msg[id].exp = "far" /\ msg'[id].exp = "near"
        ELSE msg'[id].exp = "none"

LEMMA StoredEntity ==
    ASSUME StoreTypeOK, NEW id \in DOMAIN msg
    PROVE  msg[id] \in Entity
BY DEF StoreTypeOK

LEMMA RewriteExpiry ==
    ASSUME StoreTypeOK, NEW S, NEW st
    PROVE  /\ DOMAIN Rewrite(S, st) = DOMAIN msg
           /\ \A x \in DOMAIN msg :
                 Rewrite(S, st)[x].exp \in {msg[x].exp, Kept(msg[x].exp)}
<1>1. ASSUME NEW x \in DOMAIN msg
      PROVE  [msg[x] EXCEPT !.status = st, !.exp = Kept(@)].exp = Kept(msg[x].exp)
    BY StoredEntity DEF Entity
<1> QED  BY <1>1 DEF Rewrite

LEMMA RewriteFades ==
    ASSUME StoreTypeOK, NEW S, NEW st, msg' = Rewrite(S, st)
    PROVE  Fades
BY RewriteExpiry DEF Fades

LEMMA ScriptsFade ==
    ASSUME StoreTypeOK
    PROVE  /\ \A t : moveScript(t) \/ moveTimeoutScript(t) => Fades
           /\ \A id, t : popScript(id, t) => Fades
           /\ \A id : \/ ackScript(id) \/ dropScript(id) \/ requeueScript(id)
                      \/ failScript(id) \/ zremReserved(id) \/ cancelByIDScript(id)
                      \/ ttlRunsDown(id) \/ keyExpires(id)
                      => Fades
           /\ popScriptNil \/ reloadTimeoutScript \/ reloadFailedScript => Fades
           /\ \A name : delBucket(name) => Fades
           /\ UNCHANGED storeVars => Fades
           /\ \A id, m, s : \A b \in Entity : retryByIDScript(id, b, m, s) => Fades
<1>1. UNCHANGED msg => Fades
    BY DEF Fades
<1>2. \A t : moveScript(t) \/ moveTimeoutScript(t) => Fades
    BY <1>1, RewriteFades DEF moveScript, moveTimeoutScript
<1>3. \A id, t : popScript(id, t) => Fades
    BY RewriteFades DEF popScript
<1>4. \A id : ackScript(id) \/ dropScript(id) \/ requeueScript(id) \/ failScript(id)
            => Fades
    BY RewriteFades DEF ackScript, dropScript, requeueScript, failScript
<1>5. \A id : zremReserved(id) => Fades
    BY <1>1 DEF zremReserved
<1>6. \A id : cancelByIDScript(id) => Fades
    <2> SUFFICES ASSUME NEW id, cancelByIDScript(id) PROVE Fades
        OBVIOUS
    <2>1. ASSUME NEW x \in DOMAIN msg
          PROVE  [msg[x] EXCEPT !.status = "canceled"].exp = msg[x].exp
        BY StoredEntity DEF Entity
    <2> QED  BY <1>1, <2>1 DEF cancelByIDScript, storeVars, Fades
<1>7. \A id : ttlRunsDown(id) \/ keyExpires(id) => Fades
    BY StoredEntity DEF ttlRunsDown, keyExpires, Del, Fades, Entity, StoreTypeOK
<1>8. popScriptNil \/ reloadTimeoutScript \/ reloadFailedScript => Fades
    BY <1>1, RewriteFades
       DEF popScriptNil, reloadTimeoutScript, reloadFailedScript, reloadScript
<1>9. \A name : delBucket(name) => Fades
    BY <1>1 DEF delBucket
<1>10. \A id, m, s : \A b \in Entity : retryByIDScript(id, b, m, s) => Fades
    <2> SUFFICES ASSUME NEW id, NEW m, NEW s, NEW b \in Entity,
                        retryByIDScript(id, b, m, s)
                 PROVE  Fades
        OBVIOUS
    <2> DEFINE e == IF id \in DOMAIN msg THEN Kept(msg[id].exp) ELSE "none"
    <2>1. msg' = Put(msg, id, [b EXCEPT !.exp = e])
        BY DEF retryByIDScript, Overwrite
    <2>2. [b EXCEPT !.exp = e].exp = e
        BY DEF Entity
    <2> QED  BY <2>1, <2>2 DEF Put, Fades
<1> QED  BY <1>1, <1>2, <1>3, <1>4, <1>5, <1>6, <1>7, <1>8, <1>9, <1>10 DEF storeVars

LEMMA PushSetsExpiry ==
    ASSUME NEW id \in Ids, NEW mode, NEW score, PushCall(id, mode, score)
    PROVE  /\ DOMAIN msg' = DOMAIN msg \cup {id}
           /\ msg'[id].exp = IF HasTTL THEN "far" ELSE "none"
           /\ \A x \in DOMAIN msg : x # id => msg'[x] = msg[x]
BY DEF PushCall, pushScript, Put, NewEntity

\* A step pushes one message or lets every expiry fade.
LEMMA NextFades ==
    ASSUME Inv, [Next]_vars
    PROVE  \/ Fades
           \/ \E id \in Ids : \E mode, score : PushCall(id, mode, score)
<1> StoreTypeOK
    BY DEF Inv, TypeOK
<1>1. ASSUME NEW id \in Ids, NEW d \in Delays, Push(id, d)
      PROVE  \E mode, score : PushCall(id, mode, score)
    BY <1>1 DEF Push
<1>2. ASSUME NEW id \in Ids, PushResend(id)
      PROVE  \E mode, score : PushCall(id, mode, score)
    BY <1>2 DEF PushResend
<1>3. ASSUME NEW w \in Workers, Worker(w) \/ Crash(w) PROVE Fades
    <2>1. Pop(w) => Fades
        BY ScriptsFade DEF Pop
    <2>2. PopNil(w) \/ PopForget(w) => Fades
        BY ScriptsFade DEF PopNil, PopForget
    <2>3. Load(w) \/ Handle(w) \/ RetryLoad(w) \/ HookReturns(w) \/ HookPanics(w)
             \/ Crash(w) => Fades
        BY ScriptsFade DEF Load, Handle, RetryLoad, HookReturns, HookPanics, Crash
    <2>4. Commit(w) => Fades
        BY ScriptsFade DEF Commit
    <2>5. RetryCommit(w) => Fades
        <3>1. wk[w].body \in Entity
            BY BodiesAreEntities DEF WorkerType, Inv, TypeOK
        <3> QED  BY <3>1, ScriptsFade DEF RetryCommit
    <2> QED  BY <1>3, <2>1, <2>2, <2>3, <2>4, <2>5 DEF Worker
<1>4. ASSUME NEW f \in Forwarders, Forward(f) \/ ForwardFails(f) PROVE Fades
    BY <1>4, ScriptsFade DEF Forward, ForwardFails, ForwardDelayed, ForwardTimeout
<1>5. CASE Manage
    <2>1. mgr.body \in Entity
        BY BodiesAreEntities DEF ManagerType, Inv, TypeOK
    <2>2. MgrRetryScript => Fades
        BY <2>1, ScriptsFade DEF MgrRetryScript
    <2>3. \A id \in Ids : Cancel(id) => Fades
        BY ScriptsFade DEF Cancel
    <2>4. \A id \in Ids, d \in Delays : MgrRetryLoad(id, d) => Fades
        BY ScriptsFade DEF MgrRetryLoad
    <2>5. ManagerCrash \/ (\E name \in {"timeout", "failed"} : ReloadStart(name))
            => Fades
        BY ScriptsFade DEF ManagerCrash, ReloadStart
    <2>6. ReloadStep => Fades
        BY ScriptsFade DEF ReloadStep
    <2>7. \A name \in Buckets : Flush(name) => Fades
        BY ScriptsFade DEF Flush
    <2> QED  BY <1>5, <2>2, <2>3, <2>4, <2>5, <2>6, <2>7 DEF Manage
<1>6. CASE Tick
    BY <1>6, ScriptsFade DEF Tick
<1>7. ASSUME NEW id \in Ids, TtlRunsDown(id) \/ KeyExpires(id) PROVE Fades
    BY <1>7, ScriptsFade DEF TtlRunsDown, KeyExpires
<1>8. CASE UNCHANGED vars
    BY <1>8, ScriptsFade DEF vars, storeVars
<1> QED  BY <1>1, <1>2, <1>3, <1>4, <1>5, <1>6, <1>7, <1>8 DEF Next

LEMMA ExpiryStep ==
    ASSUME Inv, ExpiryKnown, [Next]_vars
    PROVE  /\ ExpiryKnown'
           /\ \A id \in DOMAIN msg \cap DOMAIN msg' :
                 msg[id].exp = "far" => msg'[id].exp # "none"
<1>1. CASE Fades
    BY <1>1 DEF Fades, ExpiryKnown, Kept
<1>2. ASSUME NEW id \in Ids, NEW mode, NEW score, PushCall(id, mode, score)
      PROVE  /\ ExpiryKnown'
             /\ \A x \in DOMAIN msg \cap DOMAIN msg' :
                   msg[x].exp = "far" => msg'[x].exp # "none"
    BY <1>2, PushSetsExpiry DEF ExpiryKnown
<1> QED  BY <1>1, <1>2, NextFades

LEMMA ExpiryHolds == Spec => [](Inv /\ ExpiryKnown)
<1>1. Init => ExpiryKnown
    BY DEF Init, StoreInit, EmptyMap, ExpiryKnown
<1>2. Inv /\ ExpiryKnown /\ [Next]_vars => ExpiryKnown'
    BY ExpiryStep
<1> QED  BY <1>1, <1>2, InvHolds, PTL DEF Spec

\* The scripts read TTL, SET and EXPIRE again, and a Retry writes a body it
\* loaded a round trip earlier: none of them, and no Push sent twice, turns a
\* key with time left into one that never expires.  That a repeated Push gives
\* an expiry back needs ExpiryKnown: only messages with a TTL carry one.
THEOREM ExpiryOutlivesRewrites == Spec => ExpiryKept
<1>1. Inv /\ ExpiryKnown /\ [Next]_vars =>
        [\A id \in DOMAIN msg \cap DOMAIN msg' :
            msg[id].exp = "far" => msg'[id].exp # "none"]_vars
    BY ExpiryStep
<1> QED  BY <1>1, ExpiryHolds, PTL DEF Spec, ExpiryKept
-----------------------------------------------------------------------------
(* A settled message.  Its store part is kept by every script that is run  *)
(* for other ids and by the forwarder's and Reload's scripts.              *)

Rests(id) ==
    /\ id \in DOMAIN msg /\ msg[id].status \in Terminal
    /\ id \notin Range(waiting) \cup Range(failed)
                  \cup DOMAIN delayed \cup DOMAIN reserved

\* The buckets and the entity as a step may leave them for a resting id.
LEMMA RestsFrame ==
    ASSUME NEW id, Rests(id), id \in DOMAIN msg', msg'[id].status = msg[id].status,
           id \notin Range(waiting') \cup Range(failed')
                      \cup DOMAIN delayed' \cup DOMAIN reserved'
    PROVE  Rests(id)'
BY DEF Rests

LEMMA PushRests ==
    ASSUME StoreTypeOK, NEW id \in Ids, Rests(id), NEW i \in Ids \ {id}, NEW e,
           NEW mode \in {"waiting", "delayed"}, NEW score \in Int,
           pushScript(i, e, mode, score)
    PROVE  Rests(id)'
<1>1. Range(waiting') \cup DOMAIN delayed' = Range(waiting) \cup DOMAIN delayed \cup {i}
    BY EnqueueOk DEF pushScript, StoreTypeOK
<1>2. id \in DOMAIN msg' /\ msg'[id] = msg[id]
    BY DEF pushScript, Put, Rests
<1>3. id \notin Range(waiting') \cup Range(failed') \cup DOMAIN delayed'
                  \cup DOMAIN reserved'
    BY <1>1 DEF Rests, pushScript
<1> QED  BY <1>2, <1>3, RestsFrame

LEMMA MoveRests ==
    ASSUME StoreTypeOK, NEW id \in Ids, Rests(id), NEW t \in Int,
           moveScript(t) \/ moveTimeoutScript(t)
    PROVE  Rests(id)'
<1>1. CASE moveScript(t)
    <2>1. PICK s \in DueBatches(delayed, t) :
            /\ delayed' = Del(delayed, Range(s))
            /\ msg' = Rewrite(Range(s), "waiting")
            /\ waiting' = LRem(waiting, Missing(Range(s)))
                            \o LRem(s, Missing(Range(s)))
            /\ UNCHANGED <<timeout, failed, reserved>>
        BY <1>1 DEF moveScript
    <2>2. s \in Seq(Ids) /\ Range(s) \subseteq DOMAIN delayed
        BY DueBatchType DEF StoreTypeOK
    <2>3. Range(waiting') = (Range(waiting) \cup Range(s)) \ Missing(Range(s))
        BY <2>1, <2>2, LRemRange, RangeConcatenation DEF StoreTypeOK
    <2>4. DOMAIN delayed' = DOMAIN delayed \ Range(s)
        BY <2>1, ZDel DEF StoreTypeOK
    <2>5. id \notin Range(s) /\ id \in DOMAIN msg
        BY <2>2 DEF Rests
    <2>6. id \in DOMAIN msg' /\ msg'[id].status = msg[id].status
        BY <2>1, <2>5, RewriteKeys DEF StoreTypeOK, Statuses
    <2>7. id \notin Range(waiting') \cup Range(failed') \cup DOMAIN delayed'
                      \cup DOMAIN reserved'
        BY <2>1, <2>3, <2>4, <2>5 DEF Rests
    <2> QED  BY <2>6, <2>7, RestsFrame
<1>2. CASE moveTimeoutScript(t)
    BY <1>2 DEF moveTimeoutScript, Del, Rests
<1> QED  BY <1>1, <1>2

LEMMA PopRests ==
    ASSUME StoreTypeOK, NEW id \in Ids, Rests(id), NEW i \in Ids, NEW t \in Int,
           popScript(i, t)
    PROVE  Rests(id)' /\ i # id
<1>1. PICK k \in 1..Len(waiting) :
        /\ waiting[k] = i
        /\ waiting' = SubSeq(waiting, k + 1, Len(waiting))
        /\ msg' = Rewrite({i}, "reserved")
        /\ reserved' = Put(reserved, i, t)
        /\ UNCHANGED <<timeout, failed, delayed>>
    BY DEF popScript
<1>2. Range(waiting') \subseteq Range(waiting) /\ i \in Range(waiting)
    <2>1. k \in 0..Len(waiting) /\ waiting \in Seq(Ids)
        BY DEF StoreTypeOK
    <2>2. Range(waiting') \subseteq Range(waiting)
        BY <1>1, <2>1, CutRange
    <2> QED  BY <1>1, <2>1, <2>2 DEF Range
<1>3. i # id
    BY <1>2 DEF Rests
<1>4. id \in DOMAIN msg' /\ msg'[id].status = msg[id].status
    BY <1>1, <1>3, RewriteKeys DEF StoreTypeOK, Statuses, Rests
<1>5. id \notin Range(waiting') \cup Range(failed') \cup DOMAIN delayed'
                  \cup DOMAIN reserved'
    BY <1>1, <1>2, <1>3 DEF Rests, Put
<1> QED  BY <1>3, <1>4, <1>5, RestsFrame

LEMMA CommitRests ==
    ASSUME StoreTypeOK, NEW id \in Ids, Rests(id), NEW i \in Ids \ {id},
           \/ ackScript(i) \/ dropScript(i) \/ requeueScript(i) \/ failScript(i)
           \/ zremReserved(i)
    PROVE  Rests(id)'
<1>1. /\ UNCHANGED delayed /\ reserved' = Del(reserved, {i})
      /\ waiting' \in {waiting, Append(waiting, i)}
      /\ failed' \in {failed, Append(failed, i)}
    BY DEF ackScript, dropScript, requeueScript, failScript, zremReserved
<1>2. id \in DOMAIN msg' /\ msg'[id].status = msg[id].status
    <2>1. \/ UNCHANGED msg
          \/ \E st \in Statuses : msg' = Rewrite({i}, st)
        BY DEF ackScript, dropScript, requeueScript, failScript, zremReserved, Statuses
    <2> QED  BY <2>1, RewriteKeys DEF StoreTypeOK, Rests
<1>3. \A q \in Seq(Ids) : Range(Append(q, i)) = Range(q) \cup {i}
    BY AppendRange
<1>4. id \notin Range(waiting') \cup Range(failed') \cup DOMAIN delayed'
                  \cup DOMAIN reserved'
    <2>1. DOMAIN reserved' \subseteq DOMAIN reserved
        BY <1>1 DEF Del
    <2>2. /\ Range(waiting') \subseteq Range(waiting) \cup {i}
          /\ Range(failed') \subseteq Range(failed) \cup {i}
        <3>1. waiting \in Seq(Ids) /\ failed \in Seq(Ids)
            BY DEF StoreTypeOK
        <3> QED  BY <1>1, <1>3, <3>1
    <2> QED  BY <1>1, <2>1, <2>2 DEF Rests
<1> QED  BY <1>2, <1>4, RestsFrame

LEMMA RetryRests ==
    ASSUME StoreTypeOK, NEW id \in Ids, Rests(id), NEW i \in Ids \ {id},
           NEW body, NEW mode \in {"waiting", "delayed"}, NEW score \in Int,
           retryByIDScript(i, body, mode, score)
    PROVE  Rests(id)'
<1>1. id \in DOMAIN msg' /\ msg'[id] = msg[id]
    BY DEF retryByIDScript, Overwrite, Put, Rests
<1>2. PICK q, z :
        /\ q \in Seq(Ids) /\ IsZset(z)
        /\ Enqueue(i, mode, score, q, z)
        /\ Range(q) \subseteq Range(waiting) /\ DOMAIN z \subseteq DOMAIN delayed
    <2>1. /\ LRem(waiting, {i}) \in Seq(Ids)
          /\ Range(LRem(waiting, {i})) \subseteq Range(waiting)
        BY LRemRange DEF StoreTypeOK
    <2>2. /\ IsZset(Del(delayed, {i}))
          /\ DOMAIN Del(delayed, {i}) \subseteq DOMAIN delayed
        BY ZDel DEF StoreTypeOK
    <2> QED  BY <2>1, <2>2 DEF retryByIDScript, StoreTypeOK
<1>3. Range(waiting') \cup DOMAIN delayed' = Range(q) \cup DOMAIN z \cup {i}
    BY <1>2, EnqueueOk
<1>4. DOMAIN reserved' \subseteq DOMAIN reserved /\ Range(failed') \subseteq Range(failed)
    BY LRemRange DEF retryByIDScript, Del, StoreTypeOK
<1>5. id \notin Range(waiting') \cup Range(failed') \cup DOMAIN delayed'
                  \cup DOMAIN reserved'
    BY <1>2, <1>3, <1>4 DEF Rests
<1> QED  BY <1>1, <1>5, RestsFrame

LEMMA CancelRests ==
    ASSUME StoreTypeOK, NEW id \in Ids, Rests(id), NEW i \in Ids, cancelByIDScript(i)
    PROVE  Rests(id)'
<1>1. CASE i \in DOMAIN delayed
    <2>1. i # id
        BY <1>1 DEF Rests
    <2> QED  BY <1>1, <2>1 DEF cancelByIDScript, Rests, Del
<1>2. CASE i \notin DOMAIN delayed
    BY <1>2 DEF cancelByIDScript, storeVars, Rests
<1> QED  BY <1>1, <1>2

\* Reload leaves alone what is over: from the timeout list because of the
\* status, and the failed list does not hold the id.
LEMMA ReloadRests ==
    ASSUME StoreTypeOK, NEW id \in Ids, Rests(id),
           reloadTimeoutScript \/ reloadFailedScript
    PROVE  Rests(id)'
<1>1. PICK name \in {"timeout", "failed"}, q \in Seq(Ids) :
        /\ reloadScript(name, q)
        /\ (name = "timeout" /\ UNCHANGED failed)
              \/ (name = "failed" /\ q = failed /\ failed' = reloadRest(failed))
        /\ UNCHANGED <<delayed, reserved>>
    BY DEF reloadTimeoutScript, reloadFailedScript, StoreTypeOK
<1> DEFINE s == reloadBatch(q)
           skip == reloadSkips(name, Range(s))
<1>2. /\ s \in Seq(Ids) /\ Range(s) \subseteq Range(q)
      /\ Range(reloadRest(q)) \subseteq Range(q)
    <2> DEFINE k == Limit(Len(q))
    <2>1. k \in 0..Len(q)
        BY BatchAssumption DEF Limit
    <2>2. s = SubSeq(q, 1, k)
        BY DEF reloadBatch
    <2> HIDE DEF k, s
    <2>3. Len(s) = k
        BY <2>1, <2>2, CutRange
    <2>4. reloadRest(q) = SubSeq(q, k + 1, Len(q))
        BY <2>3 DEF reloadRest, s
    <2> QED  BY <2>1, <2>2, <2>4, CutRange
<1>3. id \notin Range(s) \ skip
    <2>1. CASE name = "timeout"
        BY <2>1 DEF reloadSkips, Rests
    <2>2. CASE name = "failed"
        BY <1>1, <1>2, <2>2 DEF Rests
    <2> QED  BY <2>1, <2>2
<1>4. waiting' = LRem(waiting \o s, skip) /\ msg' = Rewrite(Range(s) \ skip, "waiting")
    BY <1>1 DEF reloadScript
<1> HIDE DEF s, skip
<1>5. Range(waiting') = (Range(waiting) \cup Range(s)) \ skip
    <2> DEFINE all == waiting \o s
    <2>1. all \in Seq(Ids) /\ Range(all) = Range(waiting) \cup Range(s)
        BY <1>2, ConcatProperties, RangeConcatenation DEF StoreTypeOK
    <2>2. waiting' = LRem(all, skip)
        BY <1>4
    <2> HIDE DEF all
    <2> QED  BY <2>1, <2>2, LRemRange
<1>6. id \in DOMAIN msg' /\ msg'[id].status = msg[id].status
    BY <1>3, <1>4, RewriteKeys DEF StoreTypeOK, Statuses, Rests
<1>7. id \notin Range(waiting') \cup Range(failed') \cup DOMAIN delayed'
                  \cup DOMAIN reserved'
    BY <1>1, <1>2, <1>3, <1>5 DEF Rests
<1> QED  BY <1>6, <1>7, RestsFrame

LEMMA FlushRests ==
    ASSUME NEW id \in Ids, Rests(id), NEW name, delBucket(name)
    PROVE  Rests(id)'
<1>1. Range(<<>>) = {} /\ DOMAIN EmptyMap = {}
    BY DEF Range, EmptyMap
<1> QED  BY <1>1 DEF delBucket, Rests

LEMMA SettledStep ==
    ASSUME Inv, [Next]_vars, NEW id \in Ids, Settled(id), ~(mgr.pc = "retry" /\ mgr.id = id)
    PROVE  Settled(id)' \/ id \notin DOMAIN msg'
<1>0. /\ StoreTypeOK /\ now \in Nat /\ Inv /\ Known(id) /\ Rests(id)
      /\ \A w \in Workers : wk[w].id # id
    BY DEF Inv, TypeOK, Settled, Rests
<1>1. ASSUME Known(id)', Rests(id)', \A w \in Workers : wk'[w].id # id
      PROVE  Settled(id)'
    BY <1>1 DEF Settled, Rests
<1>2. UNCHANGED storeVars => Rests(id)'
    BY <1>0 DEF storeVars, Rests
<1>3. UNCHANGED prod => Known(id)'
    BY <1>0 DEF Known
<1>4. \A w \in Workers : \A r : Goto(w, r) /\ r.id # id => \A v \in Workers : wk'[v].id # id
    BY <1>0 DEF Goto, Inv, TypeOK
<1>5. IdleWorker.id # id
    BY NoIdAssumption DEF IdleWorker
<1>6. ASSUME NEW i \in Ids, (\E d \in Delays : Push(i, d)) \/ PushResend(i)
      PROVE  Settled(id)'
    <2>1. PICK mode \in {"waiting", "delayed"}, score \in Int : PushCall(i, mode, score)
        <3>1. CASE PushResend(i)
            BY <1>0, <3>1 DEF PushResend, Inv, TypeOK
        <3>2. ASSUME NEW d \in Delays, Push(i, d)
              PROVE  PushCall(i, "waiting", 0) \/ PushCall(i, "delayed", now + d)
            BY <3>2 DEF Push
        <3>3. \A d \in Delays : now + d \in Int
            BY <1>0, DeliveryAssumption
        <3> QED  BY <1>6, <3>1, <3>2, <3>3
    <2>2. i # id
        BY <1>0, <1>6 DEF Push, PushResend, Known
    <2>3. Rests(id)'
        BY <1>0, <2>1, <2>2, PushRests DEF PushCall
    <2>4. Known(id)'
        BY <1>0, <2>1, <2>2 DEF Known, PushCall, ReplyOrResend, Inv, TypeOK
    <2> QED  BY <1>0, <1>1, <2>1, <2>3, <2>4 DEF PushCall
<1>7. ASSUME NEW w \in Workers, Worker(w) \/ Crash(w)
      PROVE  Settled(id)'
    <2>0. /\ wk[w] \in WorkerType /\ wk[w].id # id /\ Known(id)'
          /\ wk[w].pc # "idle" => wk[w].id \in Ids \ {id}
        BY <1>0, <1>3, <1>7 DEF Inv, TypeOK, Worker, Crash, Pop, PopNil, Load,
           PopForget, Handle, Commit, RetryLoad, RetryCommit, HookReturns, HookPanics
    <2>1. CASE Pop(w)
        <3>1. PICK i \in Ids : /\ popScript(i, now + HandleTimeout)
                               /\ Goto(w, [IdleWorker EXCEPT !.pc = "claimed", !.id = i])
            BY <2>1 DEF Pop
        <3>2. now + HandleTimeout \in Int
            BY <1>0, DeliveryAssumption
        <3>3. Rests(id)' /\ i # id
            BY <1>0, <3>1, <3>2, PopRests
        <3>4. [IdleWorker EXCEPT !.pc = "claimed", !.id = i].id = i
            BY DEF IdleWorker
        <3> QED  BY <1>1, <1>4, <2>0, <3>1, <3>3, <3>4
    <2>2. CASE PopNil(w)
        BY <1>0, <1>1, <2>0, <2>2 DEF PopNil, popScriptNil, Rests, Range
    <2>3. CASE Load(w) \/ Handle(w) \/ RetryLoad(w) \/ HookReturns(w) \/ HookPanics(w)
                 \/ Crash(w)
        <3>1. UNCHANGED storeVars
            BY <2>3 DEF Load, Handle, RetryLoad, HookReturns, HookPanics, Crash
        <3>2. PICK r : Goto(w, r) /\ r.id \in {wk[w].id, NoId}
            <4>1. ASSUME NEW m \in WorkerType
                  PROVE  /\ Attempted(m).id = m.id
                         /\ [Attempted(m) EXCEPT !.rec = TRUE].id = m.id
                BY DEF Attempted, WorkerType
            <4>2. IdleWorker.id = NoId
                BY DEF IdleWorker
            <4> HIDE DEF IdleWorker
            <4>3. CASE Load(w)
                <5> DEFINE r1 == [wk[w] EXCEPT !.pc = "handling",
                                               !.attempts = msg[wk[w].id].attempts]
                           r2 == [wk[w] EXCEPT !.pc = "vanished"]
                <5>1. r1.id = wk[w].id /\ r2.id = wk[w].id
                    BY <2>0 DEF WorkerType
                <5>2. Goto(w, r1) \/ Goto(w, r2)
                    BY <4>3 DEF Load
                <5> HIDE DEF r1, r2
                <5> QED  BY <5>1, <5>2
            <4>4. CASE Handle(w)
                <5> DEFINE c(op) == [wk[w] EXCEPT !.pc = "commit", !.op = op]
                           p == [Attempted(wk[w]) EXCEPT !.rec = TRUE]
                <5>1. \A op : c(op).id = wk[w].id
                    BY <2>0 DEF WorkerType
                <5>2. \/ Goto(w, c("ack")) \/ Goto(w, c("drop")) \/ Goto(w, c("requeue"))
                      \/ Goto(w, Attempted(wk[w])) \/ Goto(w, p)
                    BY <4>4, DeliveryAssumption DEF Handle, Outcomes
                <5>3. p.id = wk[w].id /\ Attempted(wk[w]).id = wk[w].id
                    BY <2>0, <4>1
                <5> HIDE DEF c, p
                <5> QED  BY <5>1, <5>2, <5>3
            <4>5. CASE RetryLoad(w)
                <5> DEFINE delay == RetrySeconds(wk[w].attempts)
                           r1 == [wk[w] EXCEPT !.pc = "retry",
                                               !.body = RetryBody(wk[w].id, delay),
                                               !.score = now + delay]
                <5>1. r1.id = wk[w].id
                    BY <2>0 DEF WorkerType
                <5>2. Goto(w, r1) \/ Goto(w, IdleWorker)
                    BY <4>5 DEF RetryLoad
                <5> HIDE DEF r1
                <5> QED  BY <4>2, <5>1, <5>2
            <4>6. CASE HookReturns(w) \/ HookPanics(w) \/ Crash(w)
                BY <4>6, <4>1, <4>2, <2>0 DEF HookReturns, HookPanics, Crash
            <4> QED  BY <2>3, <4>3, <4>4, <4>5, <4>6
        <3>3. r.id # id
            BY <2>0, <3>2, NoIdAssumption
        <3> QED  BY <1>1, <1>2, <1>4, <2>0, <3>1, <3>2, <3>3
    <2>4. CASE Commit(w) \/ PopForget(w)
        <3>1. /\ \/ ackScript(wk[w].id) \/ dropScript(wk[w].id)
                 \/ requeueScript(wk[w].id) \/ failScript(wk[w].id)
                 \/ zremReserved(wk[w].id)
              /\ wk[w].id \in Ids \ {id}
            BY <2>0, <2>4 DEF Commit, PopForget
        <3>2. Rests(id)'
            BY <1>0, <3>1, CommitRests
        <3>3. wk' = wk \/ Goto(w, Committed(w)) \/ Goto(w, IdleWorker)
            BY <2>4 DEF Commit, PopForget, ReplyOrResend
        <3>4. Committed(w).id # id
            BY <2>0 DEF Committed, WorkerType
        <3> QED  BY <1>0, <1>1, <1>4, <1>5, <2>0, <3>2, <3>3, <3>4
    <2>5. CASE RetryCommit(w)
        <3> DEFINE r == wk[w]
                   c == [Committed(w) EXCEPT !.body = NoBody, !.score = 0]
        <3>1. /\ r.body.status \in {"waiting", "delayed"} /\ r.score \in Int
              /\ r.id \in Ids \ {id} /\ c.id # id
            BY <2>0, <2>5 DEF RetryCommit, WorkerType, Bodies, Committed
        <3>2. /\ \/ retryByIDScript(r.id, r.body, r.body.status, r.score)
                 \/ UNCHANGED storeVars
              /\ wk' = wk \/ Goto(w, c) \/ Goto(w, IdleWorker)
            BY <2>5 DEF RetryCommit, ReplyOrResend
        <3> HIDE DEF r, c
        <3>3. Rests(id)'
            BY <1>0, <1>2, <3>1, <3>2, RetryRests
        <3> QED  BY <1>0, <1>1, <1>4, <1>5, <2>0, <3>1, <3>2, <3>3
    <2> QED  BY <1>7, <2>1, <2>2, <2>3, <2>4, <2>5 DEF Worker
<1>8. ASSUME NEW f \in Forwarders, Forward(f) \/ ForwardFails(f)
      PROVE  Settled(id)'
    <2>1. now + 1 \in Int /\ fwd[f].now \in Int
        BY <1>0 DEF Inv, TypeOK
    <2>2. Rests(id)'
        BY <1>0, <1>2, <1>8, <2>1, MoveRests
           DEF Forward, ForwardFails, ForwardDelayed, ForwardTimeout
    <2>3. UNCHANGED <<prod, wk>>
        BY <1>8 DEF Forward, ForwardFails, ForwardDelayed, ForwardTimeout
    <2> QED  BY <1>0, <1>1, <1>3, <2>2, <2>3
<1>9. CASE Manage
    <2>1. UNCHANGED <<prod, wk>>
        BY <1>9 DEF Manage, Cancel, MgrRetryLoad, MgrRetryScript, ReloadStart,
                    ReloadStep, ManagerCrash, Flush
    <2>2. ASSUME MgrRetryScript
          PROVE  Rests(id)'
        <3>1. /\ mgr.id \in Ids \ {id} /\ mgr.score \in Int
              /\ mgr.body.status \in {"waiting", "delayed"}
            BY <2>2 DEF MgrRetryScript, Inv, TypeOK, ManagerType, Bodies
        <3> QED  BY <1>0, <1>2, <2>2, <3>1, RetryRests DEF MgrRetryScript
    <2>3. \A i \in Ids : Cancel(i) => Rests(id)'
        BY <1>0, CancelRests DEF Cancel
    <2>4. (\E i \in Ids, d \in Delays : MgrRetryLoad(i, d))
            \/ (\E name \in {"timeout", "failed"} : ReloadStart(name))
            \/ ManagerCrash => Rests(id)'
        BY <1>2 DEF MgrRetryLoad, ReloadStart, ManagerCrash
    <2>5. ReloadStep => Rests(id)'
        BY <1>0, ReloadRests DEF ReloadStep
    <2>6. \A name \in Buckets : Flush(name) => Rests(id)'
        BY <1>0, FlushRests DEF Flush
    <2>7. Rests(id)'
        BY <1>9, <2>2, <2>3, <2>4, <2>5, <2>6 DEF Manage
    <2> QED  BY <1>0, <1>1, <1>3, <2>1, <2>7
<1>10. CASE Tick
    BY <1>0, <1>1, <1>2, <1>3, <1>10 DEF Tick
<1>11. ASSUME NEW i \in Ids, TtlRunsDown(i) \/ KeyExpires(i)
       PROVE  Settled(id)' \/ id \notin DOMAIN msg'
    <2>1. UNCHANGED <<prod, wk, waiting, timeout, failed, delayed, reserved>>
        BY <1>11 DEF TtlRunsDown, KeyExpires, ttlRunsDown, keyExpires
    <2>2. \/ id \notin DOMAIN msg'
          \/ id \in DOMAIN msg' /\ msg'[id].status = msg[id].status
        <3>1. msg[id] \in Entity /\ id \in DOMAIN msg
            BY <1>0 DEF StoreTypeOK, Rests
        <3>2. CASE ttlRunsDown(i)
            BY <3>1, <3>2 DEF ttlRunsDown, Entity
        <3>3. CASE keyExpires(i)
            BY <3>1, <3>3 DEF keyExpires, Del
        <3> QED  BY <1>11, <3>2, <3>3 DEF TtlRunsDown, KeyExpires
    <2>3. id \in DOMAIN msg' => Rests(id)'
        BY <1>0, <2>1, <2>2 DEF Rests
    <2> QED  BY <1>0, <1>1, <1>3, <2>1, <2>3
<1>12. CASE UNCHANGED vars
    BY <1>0, <1>1, <1>2, <1>3, <1>12 DEF vars, storeVars
<1> QED  BY <1>6, <1>7, <1>8, <1>9, <1>10, <1>11, <1>12 DEF Next

\* A message that was done, dropped or canceled and is out of everybody's hands
\* is never worked on again, whatever late commits left of it in the timeout
\* list: no forwarder, reload, flush or cancel brings it back, with any number
\* of consumers, late or crashed, and scripts sent twice.  Its key may expire,
\* and only a management Retry that was asked for this id can revive it.
THEOREM SettledStays == Spec => SettledIsFinal
<1>1. Inv /\ [Next]_vars =>
        [\A id \in Ids : Settled(id) /\ ~(mgr.pc = "retry" /\ mgr.id = id)
                            => Settled(id)' \/ id \notin DOMAIN msg']_vars
    BY SettledStep
<1> QED  BY <1>1, InvHolds, PTL DEF Spec, SettledIsFinal
=============================================================================
