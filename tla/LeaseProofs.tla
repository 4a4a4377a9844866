---------------------------- MODULE LeaseProofs ----------------------------
(***************************************************************************)
(* What leases that outlast their handlers buy: one holder per message, a  *)
(* status that names the position, the documented life cycle and a bounded *)
(* number of handler calls, for any number of messages, consumers and      *)
(* forwarders.                                                             *)
(***************************************************************************)
EXTENDS DeliveryLifecycle, DeliveryProofs

\* Handlers finish before their lease ends, keys do not expire, nobody retries
\* by id or flushes a bucket, no script runs twice and no hook panics.
\* Consumers and managers may crash at any step and forwarders may fail.
Regular ==
    /\ Timely /\ ~HasTTL
    /\ Mgmt \subseteq {"cancel", "reload"}
    /\ Faults \subseteq {"crash", "fwderror"}

\* No list holds an id twice and the status decides about every bucket, except
\* that an id in timeout keeps the status `reserved'.
Agrees ==
    /\ IsInjective(waiting) /\ IsInjective(timeout) /\ IsInjective(failed)
    /\ Placed \subseteq DOMAIN msg
    /\ \A id \in DOMAIN msg :
        /\ id \in Range(waiting)  <=> msg[id].status = "waiting"
        /\ id \in DOMAIN delayed  <=> msg[id].status = "delayed"
        /\ id \in Range(failed)   <=> msg[id].status = "failed"
        /\ id \in DOMAIN reserved <=> msg[id].status = "reserved"
                                        /\ id \notin Range(timeout)
        /\ id \in Range(timeout)  => msg[id].status = "reserved"

\* Where a message is when status and buckets agree.
Place(id) == IF id \notin DOMAIN msg THEN "none"
             ELSE IF id \in Range(timeout) THEN "timeout"
             ELSE msg[id].status

\* A step takes the ids of S from one place to another and leaves the others,
\* with their leases, where they are.
Shift(S, from, to) ==
    /\ \A x \in S : Place(x) = from /\ Place(x)' = to
    /\ \A x \in Ids \ S : Place(x)' = Place(x) /\ Tries(x)' = Tries(x)
    /\ \A x \in DOMAIN reserved \ S : reserved'[x] = reserved[x]

KeepsTries(S) == \A x \in S : Tries(x)' = Tries(x)

-----------------------------------------------------------------------------
(* The scripts, when status and buckets agree. *)

LEMMA RewriteEffect ==
    ASSUME StoreTypeOK, NEW S, NEW st \in Statuses
    PROVE  /\ DOMAIN Rewrite(S, st) = DOMAIN msg
           /\ \A x \in DOMAIN msg :
                /\ Rewrite(S, st)[x].status = IF x \in S THEN st ELSE msg[x].status
                /\ Rewrite(S, st)[x].attempts = msg[x].attempts
<1>1. ASSUME NEW x \in DOMAIN msg
      PROVE  /\ [msg[x] EXCEPT !.status = st, !.exp = Kept(@)].status = st
             /\ [msg[x] EXCEPT !.status = st, !.exp = Kept(@)].attempts = msg[x].attempts
    BY StoredEntity DEF Entity
<1> QED  BY <1>1 DEF Rewrite

\* The ids with an entity, and the leases, of a store that agrees.
LEMMA AgreesPlaces ==
    ASSUME Agrees
    PROVE  /\ \A x \in DOMAIN reserved : x \in DOMAIN msg /\ Place(x) = "reserved"
           /\ \A x : Place(x) = "reserved" => x \in DOMAIN reserved \/ x \notin DOMAIN msg
           /\ \A x \in Placed : x \in DOMAIN msg
BY DEF Agrees, Place, Placed

\* Nothing is missing from a store that agrees: LREM has nothing to remove.
LEMMA NoneMissing ==
    ASSUME Agrees, NEW S \in SUBSET Placed
    PROVE  Missing(S) = {}
BY DEF Agrees, Missing

LEMMA LRemNothing ==
    ASSUME NEW q \in Seq(Ids), IsInjective(q)
    PROVE  /\ LRem(q, {}) \in Seq(Ids) /\ Range(LRem(q, {})) = Range(q)
           /\ IsInjective(LRem(q, {}))
<1>1. LRem(q, {}) \in Seq(Ids) /\ Range(LRem(q, {})) = Range(q) \ {}
    BY LRemRange
<1> QED  BY <1>1, LRemOnce

\* One id moves: the others keep status and buckets, and for the one that
\* moved the new status names the new bucket.
LEMMA OneMoves ==
    ASSUME Agrees, NEW id, DOMAIN msg' = DOMAIN msg \cup {id},
           IsInjective(waiting'), IsInjective(timeout'), IsInjective(failed'),
           \A x \in DOMAIN msg \ {id} : msg'[x].status = msg[x].status,
           Range(waiting') \ {id} = Range(waiting) \ {id},
           Range(timeout') \ {id} = Range(timeout) \ {id},
           Range(failed') \ {id} = Range(failed) \ {id},
           DOMAIN delayed' \ {id} = DOMAIN delayed \ {id},
           DOMAIN reserved' \ {id} = DOMAIN reserved \ {id},
           id \notin Range(timeout'),
           id \in Range(waiting')  <=> msg'[id].status = "waiting",
           id \in DOMAIN delayed'  <=> msg'[id].status = "delayed",
           id \in Range(failed')   <=> msg'[id].status = "failed",
           id \in DOMAIN reserved' <=> msg'[id].status = "reserved"
    PROVE  Agrees'
<1>1. Placed' \subseteq DOMAIN msg'
    BY DEF Agrees, Placed
<1>2. ASSUME NEW x \in DOMAIN msg'
      PROVE  /\ x \in Range(waiting')  <=> msg'[x].status = "waiting"
             /\ x \in DOMAIN delayed'  <=> msg'[x].status = "delayed"
             /\ x \in Range(failed')   <=> msg'[x].status = "failed"
             /\ x \in DOMAIN reserved' <=> msg'[x].status = "reserved"
                                              /\ x \notin Range(timeout')
             /\ x \in Range(timeout')  => msg'[x].status = "reserved"
    <2>1. CASE x = id
        BY <2>1
    <2>2. CASE x # id
        BY <2>2 DEF Agrees
    <2> QED  BY <2>1, <2>2
<1> QED  BY <1>1, <1>2 DEF Agrees

LEMMA PushShifts ==
    ASSUME StoreTypeOK, Agrees, NEW id \in Ids \ DOMAIN msg, NEW e \in Entity,
           NEW mode \in {"waiting", "delayed"}, e.status = mode, e.attempts = 0,
           NEW score \in Int, pushScript(id, e, mode, score)
    PROVE  Agrees' /\ Shift({id}, "none", mode) /\ KeepsTries({id})
<1>1. id \notin Placed
    BY DEF Agrees
<1>2. /\ DOMAIN msg' = DOMAIN msg \cup {id} /\ msg'[id] = e
      /\ \A x \in DOMAIN msg : msg'[x] = msg[x]
    BY DEF pushScript, Put
<1>3. UNCHANGED <<timeout, failed, reserved>>
    BY DEF pushScript
<1>4. CASE mode = "waiting"
    <2>1. waiting' = Append(waiting, id) /\ delayed' = delayed
        BY <1>4 DEF pushScript, Enqueue
    <2>2. Range(waiting') = Range(waiting) \cup {id} /\ IsInjective(waiting')
        BY <1>1, <2>1, AppendRange, AppendOnce DEF StoreTypeOK, Placed, Agrees
    <2>3. Agrees'
        BY <1>1, <1>2, <1>3, <1>4, <2>1, <2>2 DEF Agrees, Placed
    <2> QED  BY <1>1, <1>2, <1>3, <1>4, <2>3 DEF Shift, KeepsTries, Place, Tries, Placed
<1>5. CASE mode = "delayed"
    <2>1. waiting' = waiting /\ DOMAIN delayed' = DOMAIN delayed \cup {id}
        BY <1>5 DEF pushScript, Enqueue, Put
    <2>2. Agrees'
        BY <1>1, <1>2, <1>3, <1>5, <2>1 DEF Agrees, Placed
    <2> QED  BY <1>1, <1>2, <1>3, <1>5, <2>2 DEF Shift, KeepsTries, Place, Tries, Placed
<1> QED  BY <1>4, <1>5

LEMMA MoveShifts ==
    ASSUME StoreTypeOK, Agrees, NEW t \in Int, moveScript(t)
    PROVE  /\ Agrees'
           /\ \E S \in SUBSET Ids : Shift(S, "delayed", "waiting") /\ KeepsTries(S)
<1>1. PICK s \in DueBatches(delayed, t) :
        /\ delayed' = Del(delayed, Range(s))
        /\ msg' = Rewrite(Range(s), "waiting")
        /\ waiting' = LRem(waiting, Missing(Range(s)))
                        \o LRem(s, Missing(Range(s)))
        /\ UNCHANGED <<timeout, failed, reserved>>
    BY DEF moveScript
<1>2. s \in Seq(Ids) /\ Range(s) \subseteq DOMAIN delayed /\ IsInjective(s)
    BY DueBatchType DEF StoreTypeOK, DueBatches
<1>3. Missing(Range(s)) = {}
    BY <1>2, NoneMissing DEF Placed
<1>4. Range(waiting') = Range(waiting) \cup Range(s) /\ IsInjective(waiting')
    <2> DEFINE a == LRem(waiting, {})
               b == LRem(s, {})
    <2>1. /\ a \in Seq(Ids) /\ Range(a) = Range(waiting) /\ IsInjective(a)
          /\ b \in Seq(Ids) /\ Range(b) = Range(s) /\ IsInjective(b)
        BY <1>2, LRemNothing DEF StoreTypeOK, Agrees
    <2>2. waiting' = a \o b
        BY <1>1, <1>3
    <2> HIDE DEF a, b
    <2>3. Range(a) \cap Range(b) = {}
        BY <1>2, <2>1 DEF Agrees, Placed
    <2> QED  BY <2>1, <2>2, <2>3, RangeConcatenation, ConcatOnce
<1>5. DOMAIN delayed' = DOMAIN delayed \ Range(s)
    BY <1>1 DEF Del
<1>6. /\ DOMAIN msg' = DOMAIN msg
      /\ \A x \in DOMAIN msg :
            /\ msg'[x].status = IF x \in Range(s) THEN "waiting" ELSE msg[x].status
            /\ msg'[x].attempts = msg[x].attempts
    BY <1>1, RewriteEffect DEF Statuses
<1>7. Agrees'
    BY <1>1, <1>2, <1>4, <1>5, <1>6 DEF Agrees, Placed
<1>8. Shift(Range(s), "delayed", "waiting") /\ KeepsTries(Range(s))
    BY <1>1, <1>2, <1>6 DEF Shift, KeepsTries, Place, Tries, Agrees, Placed
<1>9. Range(s) \in SUBSET Ids
    BY <1>2 DEF StoreTypeOK, IsZset
<1> QED  BY <1>7, <1>8, <1>9

LEMMA MoveTimeoutShifts ==
    ASSUME StoreTypeOK, Agrees, NEW t \in Int, moveTimeoutScript(t)
    PROVE  /\ Agrees'
           /\ \E S \in SUBSET Ids : /\ Shift(S, "reserved", "timeout") /\ KeepsTries(S)
                                    /\ \A x \in S : x \in DOMAIN reserved /\ reserved[x] <= t
<1>1. PICK s \in DueBatches(reserved, t) :
        /\ reserved' = Del(reserved, Range(s))
        /\ timeout' = timeout \o LRem(s, Missing(Range(s)))
        /\ UNCHANGED <<waiting, failed, delayed, msg>>
    BY DEF moveTimeoutScript
<1>2. s \in Seq(Ids) /\ Range(s) \subseteq DOMAIN reserved /\ IsInjective(s)
    BY DueBatchType DEF StoreTypeOK, DueBatches
<1>3. \A x \in Range(s) : reserved[x] <= t
    BY DEF DueBatches, Range
<1>4. Missing(Range(s)) = {}
    BY <1>2, NoneMissing DEF Placed
<1>5. Range(timeout') = Range(timeout) \cup Range(s) /\ IsInjective(timeout')
    <2> DEFINE b == LRem(s, {})
    <2>1. b \in Seq(Ids) /\ Range(b) = Range(s) /\ IsInjective(b)
        BY <1>2, LRemNothing
    <2>2. timeout' = timeout \o b
        BY <1>1, <1>4
    <2> HIDE DEF b
    <2>3. Range(timeout) \cap Range(b) = {}
        BY <1>2, <2>1 DEF Agrees, Placed
    <2> QED  BY <2>1, <2>2, <2>3, RangeConcatenation, ConcatOnce DEF StoreTypeOK, Agrees
<1>6. /\ DOMAIN reserved' = DOMAIN reserved \ Range(s)
      /\ \A x \in DOMAIN reserved \ Range(s) : reserved'[x] = reserved[x]
    BY <1>1 DEF Del
<1>7. Agrees'
    BY <1>1, <1>2, <1>5, <1>6 DEF Agrees, Placed
<1>8. Shift(Range(s), "reserved", "timeout") /\ KeepsTries(Range(s))
    BY <1>1, <1>2, <1>5, <1>6 DEF Shift, KeepsTries, Place, Tries, Agrees, Placed
<1>9. Range(s) \in SUBSET Ids
    BY <1>2 DEF StoreTypeOK, IsZset
<1> QED  BY <1>2, <1>3, <1>7, <1>8, <1>9

\* Every id in waiting has an entity, so a Pop that finds none finds no id.
LEMMA PopNilShifts ==
    ASSUME StoreTypeOK, Agrees, popScriptNil
    PROVE  Agrees' /\ Shift({}, "none", "none")
<1>1. Range(waiting) = {}
    BY DEF Agrees, Placed, popScriptNil
<1>2. Range(<<>>) = {} /\ IsInjective(<<>>)
    BY DEF Range, IsInjective
<1>3. Agrees'
    BY <1>1, <1>2 DEF Agrees, Placed, popScriptNil
<1> QED  BY <1>3 DEF popScriptNil, Shift, Place, Tries

LEMMA PopShifts ==
    ASSUME StoreTypeOK, Agrees, NEW id \in Ids, NEW deadline \in Int,
           popScript(id, deadline)
    PROVE  /\ Agrees' /\ Shift({id}, "waiting", "reserved") /\ KeepsTries({id})
           /\ reserved'[id] = deadline
<1>1. PICK k \in 1..Len(waiting) :
        /\ waiting[k] = id
        /\ id \in DOMAIN msg
        /\ \A j \in 1..(k - 1) : waiting[j] \notin DOMAIN msg
        /\ waiting' = SubSeq(waiting, k + 1, Len(waiting))
        /\ msg' = Rewrite({id}, "reserved")
        /\ reserved' = Put(reserved, id, deadline)
        /\ UNCHANGED <<timeout, failed, delayed>>
    BY DEF popScript
<1>2. waiting \in Seq(Ids) /\ \A i \in 1..Len(waiting) : waiting[i] \in Range(waiting)
    BY DEF StoreTypeOK, Range
<1>3. k = 1
    <2>1. \A i \in 1..Len(waiting) : waiting[i] \in DOMAIN msg
        BY <1>2 DEF Agrees, Placed
    <2>2. k # 1 => 1 \in 1..(k - 1) /\ 1 \in 1..Len(waiting)
        BY <1>2
    <2> QED  BY <1>1, <2>1, <2>2
<1>4. Range(waiting') = Range(waiting) \ {id} /\ IsInjective(waiting')
    <2> DEFINE a == SubSeq(waiting, 1, k)
               b == SubSeq(waiting, k + 1, Len(waiting))
    <2>1. k \in 0..Len(waiting)
        BY <1>2
    <2>2. Range(waiting) = Range(a) \cup Range(b) /\ Range(a) = {waiting[i] : i \in 1..k}
        BY <1>2, <2>1, CutRange
    <2>3. IsInjective(b) /\ Range(a) \cap Range(b) = {}
        BY <1>2, <2>1, CutOnce DEF Agrees
    <2> HIDE DEF a, b
    <2>4. Range(a) = {id}
        BY <1>1, <1>3, <2>2
    <2> QED  BY <1>1, <2>2, <2>3, <2>4 DEF b
<1>5. /\ DOMAIN reserved' = DOMAIN reserved \cup {id} /\ reserved'[id] = deadline
      /\ \A x \in DOMAIN reserved \ {id} : reserved'[x] = reserved[x]
    BY <1>1 DEF Put
<1>6. /\ DOMAIN msg' = DOMAIN msg
      /\ \A x \in DOMAIN msg :
            /\ msg'[x].status = IF x = id THEN "reserved" ELSE msg[x].status
            /\ msg'[x].attempts = msg[x].attempts
    BY <1>1, RewriteEffect DEF Statuses
<1>7. id \in Range(waiting) /\ msg[id].status = "waiting" /\ id \notin Range(timeout)
    BY <1>1, <1>2 DEF Agrees
<1>8. Agrees'
    <2>1. /\ IsInjective(timeout') /\ IsInjective(failed')
          /\ id \notin DOMAIN delayed' /\ id \notin Range(failed')
        BY <1>1, <1>7 DEF Agrees
    <2>2. /\ DOMAIN msg' = DOMAIN msg \cup {id} /\ msg'[id].status = "reserved"
          /\ \A x \in DOMAIN msg \ {id} : msg'[x].status = msg[x].status
        BY <1>1, <1>6
    <2>3. /\ Range(timeout') = Range(timeout) /\ Range(failed') = Range(failed)
          /\ DOMAIN delayed' = DOMAIN delayed
        BY <1>1
    <2> QED  BY <1>4, <1>5, <1>7, <2>1, <2>2, <2>3, OneMoves
<1>9. Shift({id}, "waiting", "reserved") /\ KeepsTries({id})
    BY <1>1, <1>5, <1>6, <1>7 DEF Shift, KeepsTries, Place, Tries
<1> QED  BY <1>5, <1>8, <1>9

LEMMA CommitShifts ==
    ASSUME StoreTypeOK, Agrees, NEW id \in DOMAIN reserved, NEW st,
           \/ ackScript(id) /\ st = "done"
           \/ dropScript(id) /\ st = "dropped"
           \/ requeueScript(id) /\ st = "waiting"
           \/ failScript(id) /\ st = "failed"
    PROVE  Agrees' /\ Shift({id}, "reserved", st) /\ KeepsTries({id})
<1>1. /\ reserved' = Del(reserved, {id}) /\ msg' = Rewrite({id}, st)
      /\ UNCHANGED <<timeout, delayed>>
    BY DEF ackScript, dropScript, requeueScript, failScript
<1>2. id \in Ids /\ id \in DOMAIN msg /\ msg[id].status = "reserved" /\ id \notin Range(timeout)
    BY DEF Agrees, Placed, StoreTypeOK, IsZset
<1>3. id \notin Range(waiting) /\ id \notin Range(failed) /\ id \notin DOMAIN delayed
    BY <1>2 DEF Agrees
<1>4. /\ waiting' = IF st = "waiting" THEN Append(waiting, id) ELSE waiting
      /\ failed' = IF st = "failed" THEN Append(failed, id) ELSE failed
    BY <1>2 DEF ackScript, dropScript, requeueScript, failScript
<1>5. \A q \in Seq(Ids) : IsInjective(q) /\ id \notin Range(q) =>
            IsInjective(Append(q, id)) /\ Range(Append(q, id)) = Range(q) \cup {id}
    BY <1>2, AppendRange, AppendOnce
<1>6. /\ IsInjective(waiting') /\ IsInjective(failed')
      /\ Range(waiting') = IF st = "waiting" THEN Range(waiting) \cup {id} ELSE Range(waiting)
      /\ Range(failed') = IF st = "failed" THEN Range(failed) \cup {id} ELSE Range(failed)
    BY <1>3, <1>4, <1>5 DEF Agrees, StoreTypeOK
<1>7. /\ DOMAIN reserved' = DOMAIN reserved \ {id}
      /\ \A x \in DOMAIN reserved \ {id} : reserved'[x] = reserved[x]
    BY <1>1 DEF Del
<1>8. st \in {"done", "dropped", "waiting", "failed"}
    OBVIOUS
<1>9. /\ DOMAIN msg' = DOMAIN msg
      /\ \A x \in DOMAIN msg :
            /\ msg'[x].status = IF x = id THEN st ELSE msg[x].status
            /\ msg'[x].attempts = msg[x].attempts
    BY <1>1, <1>8, RewriteEffect DEF Statuses
<1>10. Agrees'
    <2>1. IsInjective(timeout')
        BY <1>1 DEF Agrees
    <2> QED  BY <1>1, <1>2, <1>3, <1>6, <1>7, <1>8, <1>9, <2>1, OneMoves
<1>11. Shift({id}, "reserved", st) /\ KeepsTries({id})
    BY <1>1, <1>2, <1>7, <1>9 DEF Shift, KeepsTries, Place, Tries
<1> QED  BY <1>10, <1>11

\* A retry of a leased id takes the fast path of the script.
LEMMA RetryShifts ==
    ASSUME StoreTypeOK, Agrees, NEW id \in DOMAIN reserved, NEW body \in Entity,
           NEW mode \in {"waiting", "delayed"}, body.status = mode,
           NEW score \in Int, retryByIDScript(id, body, mode, score)
    PROVE  /\ Agrees' /\ Shift({id}, "reserved", mode)
           /\ Tries(id)' = body.attempts
<1>1. /\ reserved' = Del(reserved, {id}) /\ UNCHANGED <<timeout, failed>>
      /\ Enqueue(id, mode, score, waiting, delayed) /\ msg' = Overwrite(id, body)
    BY DEF retryByIDScript
<1>2. id \in Ids /\ id \in DOMAIN msg /\ msg[id].status = "reserved" /\ id \notin Range(timeout)
    BY DEF Agrees, Placed, StoreTypeOK, IsZset
<1>3. id \notin Range(waiting) /\ id \notin Range(failed) /\ id \notin DOMAIN delayed
    BY <1>2 DEF Agrees
<1>4. /\ DOMAIN msg' = DOMAIN msg
      /\ msg'[id].status = mode /\ msg'[id].attempts = body.attempts
      /\ \A x \in DOMAIN msg : x # id => msg'[x] = msg[x]
    <2> DEFINE e == [body EXCEPT !.exp = Kept(msg[id].exp)]
    <2>1. e.status = mode /\ e.attempts = body.attempts
        BY DEF Entity
    <2>2. msg' = Put(msg, id, e)
        BY <1>1, <1>2 DEF Overwrite
    <2> HIDE DEF e
    <2> QED  BY <1>2, <2>1, <2>2 DEF Put
<1>5. /\ DOMAIN reserved' = DOMAIN reserved \ {id}
      /\ \A x \in DOMAIN reserved \ {id} : reserved'[x] = reserved[x]
    BY <1>1 DEF Del
<1>6. ASSUME mode = "waiting" PROVE Agrees'
    <2>1. waiting' = Append(waiting, id) /\ delayed' = delayed
        BY <1>1, <1>6 DEF Enqueue
    <2>2. Range(waiting') = Range(waiting) \cup {id} /\ IsInjective(waiting')
        BY <1>2, <1>3, <2>1, AppendRange, AppendOnce DEF StoreTypeOK, Agrees
    <2>3. IsInjective(timeout') /\ IsInjective(failed')
        BY <1>1 DEF Agrees
    <2> QED  BY <1>1, <1>2, <1>3, <1>4, <1>5, <1>6, <2>1, <2>2, <2>3, OneMoves
<1>7. ASSUME mode = "delayed" PROVE Agrees'
    <2>1. waiting' = waiting /\ DOMAIN delayed' = DOMAIN delayed \cup {id}
        BY <1>1, <1>7 DEF Enqueue, Put
    <2>2. IsInjective(waiting') /\ IsInjective(timeout') /\ IsInjective(failed')
        BY <1>1, <2>1 DEF Agrees
    <2> QED  BY <1>1, <1>2, <1>3, <1>4, <1>5, <1>7, <2>1, <2>2, OneMoves
<1>8. Agrees'
    BY <1>6, <1>7
<1>9. Shift({id}, "reserved", mode) /\ Tries(id)' = body.attempts
    BY <1>1, <1>2, <1>4, <1>5 DEF Shift, Place, Tries
<1> QED  BY <1>8, <1>9

LEMMA CancelShifts ==
    ASSUME StoreTypeOK, Agrees, NEW id \in Ids, id \in DOMAIN delayed, cancelByIDScript(id)
    PROVE  Agrees' /\ Shift({id}, "delayed", "canceled") /\ KeepsTries({id})
<1>1. /\ delayed' = Del(delayed, {id})
      /\ msg' = [x \in DOMAIN msg |->
                    IF x = id THEN [msg[x] EXCEPT !.status = "canceled"] ELSE msg[x]]
      /\ UNCHANGED <<waiting, timeout, failed, reserved>>
    BY DEF cancelByIDScript
<1>2. id \in DOMAIN msg /\ msg[id].status = "delayed" /\ id \notin Range(timeout)
    BY DEF Agrees, Placed
<1>3. /\ DOMAIN msg' = DOMAIN msg
      /\ msg'[id].status = "canceled" /\ msg'[id].attempts = msg[id].attempts
      /\ \A x \in DOMAIN msg : x # id => msg'[x] = msg[x]
    <2> DEFINE e == [msg[id] EXCEPT !.status = "canceled"]
    <2>1. e.status = "canceled" /\ e.attempts = msg[id].attempts
        BY <1>2, StoredEntity DEF Entity
    <2>2. msg' = [x \in DOMAIN msg |-> IF x = id THEN e ELSE msg[x]]
        BY <1>1
    <2> HIDE DEF e
    <2> QED  BY <1>2, <2>1, <2>2
<1>4. DOMAIN delayed' = DOMAIN delayed \ {id}
    BY <1>1 DEF Del
<1>5. Agrees'
    BY <1>1, <1>2, <1>3, <1>4 DEF Agrees, Placed
<1> QED  BY <1>1, <1>2, <1>3, <1>5 DEF Shift, KeepsTries, Place, Tries

LEMMA ReloadShifts ==
    ASSUME StoreTypeOK, Agrees, reloadTimeoutScript \/ reloadFailedScript
    PROVE  /\ Agrees'
           /\ \E S \in SUBSET Ids, from \in {"timeout", "failed"} :
                    Shift(S, from, "waiting") /\ KeepsTries(S)
<1>1. PICK name \in {"timeout", "failed"}, q \in Seq(Ids) :
        /\ reloadScript(name, q)
        /\ \/ name = "timeout" /\ q = timeout /\ timeout' = reloadRest(q) /\ UNCHANGED failed
           \/ name = "failed" /\ q = failed /\ failed' = reloadRest(q) /\ UNCHANGED timeout
        /\ UNCHANGED <<delayed, reserved>>
    BY DEF reloadTimeoutScript, reloadFailedScript, StoreTypeOK
<1>2. IsInjective(q) /\ \A x \in Range(q) : x \in Placed /\ Place(x) = name
    BY <1>1 DEF Agrees, Place, Placed
<1> DEFINE s == reloadBatch(q)
           rest == reloadRest(q)
<1>3. /\ s \in Seq(Ids) /\ IsInjective(s) /\ IsInjective(rest)
      /\ Range(q) = Range(s) \cup Range(rest) /\ Range(s) \cap Range(rest) = {}
    <2> DEFINE k == Limit(Len(q))
    <2>1. k \in 0..Len(q)
        BY BatchAssumption DEF Limit
    <2>2. s = SubSeq(q, 1, k)
        BY DEF reloadBatch
    <2> HIDE DEF k, s
    <2>3. Len(s) = k
        BY <2>1, <2>2, CutRange
    <2>4. rest = SubSeq(q, k + 1, Len(q))
        BY <2>3 DEF reloadRest, s
    <2> HIDE DEF rest
    <2>5. s \in Seq(Ids) /\ Range(q) = Range(s) \cup Range(rest)
        BY <2>1, <2>2, <2>4, CutRange
    <2>6. IsInjective(s) /\ IsInjective(rest) /\ Range(s) \cap Range(rest) = {}
        BY <1>2, <2>1, <2>2, <2>4, CutOnce
    <2> QED  BY <2>5, <2>6
<1>4. reloadSkips(name, Range(s)) = {}
    <2> HIDE DEF s
    <2>1. Missing(Range(s)) = {}
        BY <1>2, <1>3, NoneMissing
    <2>2. \A x \in Range(s) \cap DOMAIN msg : name = "timeout" => msg[x].status = "reserved"
        BY <1>1, <1>2, <1>3 DEF Agrees
    <2> QED  BY <2>1, <2>2 DEF reloadSkips, Terminal
<1>5. waiting' = LRem(waiting \o s, {}) /\ msg' = Rewrite(Range(s), "waiting")
    <2>1. Range(s) \ {} = Range(s)
        OBVIOUS
    <2> QED  BY <1>1, <1>4, <2>1 DEF reloadScript
<1> HIDE DEF s, rest
<1>6. Range(waiting') = Range(waiting) \cup Range(s) /\ IsInjective(waiting')
    <2> DEFINE all == waiting \o s
    <2>1. Range(waiting) \cap Range(s) = {}
        BY <1>2, <1>3 DEF Agrees, Place, Placed
    <2>2. all \in Seq(Ids) /\ Range(all) = Range(waiting) \cup Range(s) /\ IsInjective(all)
        BY <1>3, <2>1, ConcatProperties, RangeConcatenation, ConcatOnce
           DEF StoreTypeOK, Agrees
    <2>3. waiting' = LRem(all, {})
        BY <1>5
    <2> HIDE DEF all
    <2> QED  BY <2>2, <2>3, LRemNothing
<1>7. /\ DOMAIN msg' = DOMAIN msg
      /\ \A x \in DOMAIN msg :
            /\ msg'[x].status = IF x \in Range(s) THEN "waiting" ELSE msg[x].status
            /\ msg'[x].attempts = msg[x].attempts
    BY <1>5, RewriteEffect DEF Statuses
<1>8. Range(s) \subseteq DOMAIN msg /\ \A x \in Range(s) : Place(x) = name
    BY <1>2, <1>3, AgreesPlaces
<1>9. Range(s) \in SUBSET Ids
    BY <1>8 DEF StoreTypeOK
<1>10. CASE name = "timeout"
    <2>1. timeout' = rest /\ UNCHANGED failed /\ q = timeout
        BY <1>1, <1>10 DEF rest
    <2>2. Agrees'
        BY <1>1, <1>3, <1>6, <1>7, <1>8, <2>1 DEF Agrees, Placed
    <2>3. Shift(Range(s), name, "waiting") /\ KeepsTries(Range(s))
        BY <1>1, <1>3, <1>7, <1>8, <2>1 DEF Shift, KeepsTries, Place, Tries, Agrees
    <2> QED  BY <1>9, <2>2, <2>3
<1>11. CASE name = "failed"
    <2>1. failed' = rest /\ UNCHANGED timeout /\ q = failed
        BY <1>1, <1>11 DEF rest
    <2>2. Agrees'
        BY <1>1, <1>3, <1>6, <1>7, <1>8, <2>1 DEF Agrees, Placed
    <2>3. Shift(Range(s), name, "waiting") /\ KeepsTries(Range(s))
        BY <1>1, <1>3, <1>7, <1>8, <2>1, <1>11 DEF Shift, KeepsTries, Place, Tries, Agrees
    <2> QED  BY <1>9, <2>2, <2>3
<1> QED  BY <1>10, <1>11
-----------------------------------------------------------------------------
(* The invariant. *)

\* Nothing is lost, no Push is under way, and only reloads keep the manager
\* busy.  A forwarder's reading of the clock is never ahead of it.
Calm ==
    /\ gone = {}
    /\ \A id \in Ids : prod[id].pc # "sent"
    /\ \A f \in Forwarders : fwd[f].now <= now
    /\ mgr.pc = "reload" => "reload" \in Mgmt

\* What a goroutine holds is reserved and its lease is running.
Leased ==
    \A w \in Workers : Holds(w) =>
        wk[w].id \in DOMAIN reserved /\ reserved[wk[w].id] > now

Holding == {"claimed", "handling", "commit", "retry"}

\* The locals r of handleOne and the stored number t of retries agree, and the
\* decision to retry or to fail was taken for that number.
Tally(r, t) ==
    /\ r.pc = "handling" => r.attempts = t
    /\ r.pc = "commit" => /\ r.op = "retry" => t < MaxAttempts
                          /\ r.op = "fail" => t = MaxAttempts
                          /\ r.op = "requeue" => "REQUEUE" \in Results
    /\ r.pc = "retry" => r.body.attempts = t + 1 /\ t < MaxAttempts

Tallied ==
    /\ \A id \in Ids : Tries(id) <= MaxAttempts
    /\ \A w \in Workers : Tally(wk[w], Tries(wk[w].id))

Lease == Calm /\ Agrees /\ Leased /\ Exclusive /\ Tallied

\* No management call is about to retry a message by its id.
NoRetry == mgr.pc # "retry"

LEMMA NoRetryStep ==
    ASSUME "retry" \notin Mgmt, NoRetry, [Next]_vars
    PROVE  NoRetry'
<1>1. CASE Manage
    <2>1. \A id \in Ids, d \in Delays : ~MgrRetryLoad(id, d)
        BY DEF MgrRetryLoad
    <2>2. \A name : ReloadStart(name) => mgr'.pc = "reload"
        BY DEF ReloadStart, IdleManager
    <2>3. ReloadStep \/ ManagerCrash \/ MgrRetryScript => mgr' = mgr \/ mgr' = IdleManager
        BY DEF ReloadStep, ManagerCrash, MgrRetryScript
    <2>4. \A id : Cancel(id) => mgr' = mgr
        BY DEF Cancel
    <2>5. IdleManager.pc # "retry"
        BY IdleManagerType
    <2> HIDE DEF IdleManager
    <2>6. MgrRetryScript \/ ReloadStep \/ ManagerCrash => mgr'.pc # "retry"
        BY <2>3, <2>5 DEF NoRetry
    <2>7. \A name : Flush(name) => mgr' = mgr
        BY DEF Flush
    <2> QED  BY <1>1, <2>1, <2>2, <2>4, <2>6, <2>7 DEF Manage, NoRetry
<1>2. CASE ~Manage
    <2>1. UNCHANGED mgr
        BY <1>2 DEF Next, vars, Push, PushResend, PushCall, Worker, Crash, Pop, PopNil,
           Load, PopForget, Handle, Commit, RetryLoad, RetryCommit, HookReturns,
           HookPanics, Forward, ForwardDelayed, ForwardTimeout, ForwardFails, Tick,
           TtlRunsDown, KeyExpires
    <2> QED  BY <2>1 DEF NoRetry
<1> QED  BY <1>1, <1>2

LeaseInv == Inv /\ ExpiryKnown /\ NoRetry /\ Lease

\* The rows of the transition matrix, as changes of place.
One(from, to) == \E id \in Ids : Shift({id}, from, to) /\ KeepsTries({id})
Many(from, to) == \E S \in SUBSET Ids : Shift(S, from, to) /\ KeepsTries(S)
Retried ==
    \E id \in Ids, to \in {"waiting", "delayed"} :
        /\ Shift({id}, "reserved", to)
        /\ Tries(id) < MaxAttempts /\ Tries(id)' = Tries(id) + 1
GivenUp ==
    \E id \in Ids : /\ Shift({id}, "reserved", "failed") /\ KeepsTries({id})
                    /\ Tries(id) = MaxAttempts
Quiet == Shift({}, "none", "none")

LifeStep ==
    \/ One("none", "waiting") \/ One("none", "delayed")
    \/ One("waiting", "reserved")
    \/ One("reserved", "done") \/ One("reserved", "dropped")
    \/ "REQUEUE" \in Results /\ One("reserved", "waiting")
    \/ Retried \/ GivenUp
    \/ One("delayed", "canceled")
    \/ Many("delayed", "waiting") \/ Many("reserved", "timeout")
    \/ "reload" \in Mgmt /\ (Many("timeout", "waiting") \/ Many("failed", "waiting"))
    \/ Quiet

-----------------------------------------------------------------------------
(* What a step owes to those it does not concern. *)

LEMMA TriesType == ASSUME StoreTypeOK, NEW x PROVE Tries(x) \in Nat
BY StoredEntity DEF Tries, Entity

LEMMA QuietStore ==
    ASSUME Agrees, UNCHANGED storeVars
    PROVE  Agrees' /\ Quiet
<1>1. Agrees'
    BY DEF Agrees, Placed, storeVars
<1> QED  BY <1>1 DEF Quiet, Shift, Place, Tries, storeVars

\* A held message is reserved: a step from any other place does not meet it.
LEMMA HeldPlace ==
    ASSUME Inv, Agrees, Leased, NEW v \in Workers, Holds(v)
    PROVE  wk[v].id \in Ids /\ Place(wk[v].id) = "reserved"
BY AgreesPlaces DEF Inv, TypeOK, StoreTypeOK, IsZset, Leased

LEMMA HolderKept ==
    ASSUME Inv, Agrees, Agrees', Leased, NEW S, NEW from, NEW to, Shift(S, from, to),
           NEW v \in Workers, Holds(v), NEW x, x = wk[v].id, x \notin S
    PROVE  /\ x \in DOMAIN reserved' /\ reserved'[x] > now
           /\ Tries(x)' = Tries(x)
<1>1. x \in DOMAIN reserved /\ reserved[x] > now /\ x \in Ids /\ Place(x) = "reserved"
    BY HeldPlace DEF Leased
<1>2. Place(x)' = "reserved" /\ Tries(x)' = Tries(x) /\ reserved'[x] = reserved[x]
    BY <1>1 DEF Shift
<1>3. x \in DOMAIN reserved'
    BY <1>2 DEF Agrees, Place
<1> QED  BY <1>1, <1>2, <1>3

\* Every count of retries stays in bounds.
LEMMA TriesBounded ==
    ASSUME Tallied, NEW S, NEW from, NEW to, Shift(S, from, to),
           \A x \in S : Tries(x)' <= MaxAttempts
    PROVE  \A x \in Ids : Tries(x)' <= MaxAttempts
BY DEF Tallied, Shift

\* Worker w goes to r while the store takes S to another place.
LEMMA WorkerLease ==
    ASSUME Inv, Lease, Agrees', NEW w \in Workers, NEW r \in WorkerType, Goto(w, r),
           NEW S, NEW from, NEW to, Shift(S, from, to),
           \A x \in S : Tries(x)' <= MaxAttempts,
           \A v \in Workers \ {w} : Holds(v) => wk[v].id \notin S,
           r.pc \in Holding => /\ r.id \in DOMAIN reserved' /\ reserved'[r.id] > now
                               /\ \A v \in Workers \ {w} : Holds(v) => wk[v].id # r.id,
           NEW t, t = Tries(r.id)', Tally(r, t),
           UNCHANGED <<now, prod, fwd, mgr, gone>>
    PROVE  Lease'
<1>1. \A v \in Workers : wk'[v] = IF v = w THEN r ELSE wk[v]
    BY DEF Goto, Inv, TypeOK
<1>2. \A v \in Workers : Holds(v) <=> wk[v].pc \in Holding
    BY DEF Holds, Holding
<1>3. \A v \in Workers : Holds(v)' <=> wk'[v].pc \in Holding
    BY DEF Holds, Holding
<1>4. Calm'
    BY DEF Lease, Calm
<1>5. Leased'
    <2> SUFFICES ASSUME NEW v \in Workers, Holds(v)'
                 PROVE  wk'[v].id \in DOMAIN reserved' /\ reserved'[wk'[v].id] > now'
        BY DEF Leased
    <2>1. CASE v = w
        BY <1>1, <1>3, <2>1
    <2>2. CASE v # w
        <3>1. Holds(v) /\ wk'[v] = wk[v] /\ wk[v].id \notin S
            BY <1>1, <1>2, <1>3, <2>2
        <3> QED  BY <3>1, HolderKept DEF Lease
    <2> QED  BY <2>1, <2>2
<1>6. Exclusive'
    <2> SUFFICES ASSUME NEW u \in Workers, NEW v \in Workers, Holds(u)', Holds(v)',
                        wk'[u].id = wk'[v].id, u # v
                 PROVE  FALSE
        BY DEF Exclusive
    <2>1. CASE u = w
        BY <1>1, <1>2, <1>3, <2>1
    <2>2. CASE v = w
        BY <1>1, <1>2, <1>3, <2>2
    <2>3. CASE u # w /\ v # w
        BY <1>1, <1>2, <1>3, <2>3 DEF Lease, Exclusive
    <2> QED  BY <2>1, <2>2, <2>3
<1>7. Tallied'
    <2>1. \A x \in Ids : Tries(x)' <= MaxAttempts
        BY TriesBounded DEF Lease
    <2>2. ASSUME NEW v \in Workers, NEW x, x = wk'[v].id
          PROVE  Tally(wk'[v], Tries(x)')
        <3>1. CASE v = w
            BY <1>1, <2>2, <3>1
        <3>2. CASE v # w /\ Holds(v)
            <4>1. x = wk[v].id /\ wk'[v] = wk[v] /\ x \notin S
                BY <1>1, <2>2, <3>2
            <4>2. Tries(x)' = Tries(x)
                BY <3>2, <4>1, HolderKept DEF Lease
            <4>3. Tally(wk[v], Tries(x))
                BY <4>1 DEF Lease, Tallied
            <4> QED  BY <4>1, <4>2, <4>3
        <3>3. CASE v # w /\ ~Holds(v)
            BY <1>1, <1>2, <3>3 DEF Tally, Holding
        <3> QED  BY <3>1, <3>2, <3>3
    <2> QED  BY <2>1, <2>2 DEF Tallied
<1> QED  BY <1>4, <1>5, <1>6, <1>7 DEF Lease

\* The store moves what nobody holds.
LEMMA StoreLease ==
    ASSUME Inv, Lease, Agrees', Calm', NEW S, NEW from, NEW to, Shift(S, from, to),
           \A x \in S : Tries(x)' <= MaxAttempts,
           \A v \in Workers : Holds(v) => wk[v].id \notin S,
           UNCHANGED <<now, wk>>
    PROVE  Lease'
<1>1. \A v \in Workers : Holds(v)' <=> Holds(v)
    BY DEF Holds
<1>2. Leased'
    <2> SUFFICES ASSUME NEW v \in Workers, Holds(v)
                 PROVE  wk[v].id \in DOMAIN reserved' /\ reserved'[wk[v].id] > now
        BY <1>1 DEF Leased
    <2> QED  BY HolderKept DEF Lease
<1>3. Exclusive'
    BY <1>1 DEF Lease, Exclusive
<1>4. Tallied'
    <2>1. \A x \in Ids : Tries(x)' <= MaxAttempts
        BY TriesBounded DEF Lease
    <2>2. ASSUME NEW v \in Workers, NEW x, x = wk[v].id
          PROVE  Tally(wk[v], Tries(x)')
        <3>1. Tally(wk[v], Tries(x))
            BY <2>2 DEF Lease, Tallied
        <3>2. CASE Holds(v)
            <4>1. Tries(x)' = Tries(x)
                BY <2>2, <3>2, HolderKept DEF Lease
            <4> QED  BY <3>1, <4>1
        <3>3. CASE ~Holds(v)
            BY <3>3 DEF Tally, Holds
        <3> QED  BY <3>2, <3>3
    <2> QED  BY <2>1, <2>2 DEF Tallied
<1> QED  BY <1>2, <1>3, <1>4 DEF Lease
-----------------------------------------------------------------------------
(* The steps. *)

\* A step that leaves the store alone and brings worker w to r.
LEMMA LocalLease ==
    ASSUME Inv, Lease, NEW w \in Workers, NEW r \in WorkerType, Goto(w, r),
           UNCHANGED storeVars, UNCHANGED <<now, prod, fwd, mgr, gone>>,
           r.pc \in Holding => Holds(w) /\ r.id = wk[w].id,
           Tally(r, Tries(r.id))
    PROVE  Lease' /\ LifeStep
<1>1. Agrees' /\ Quiet
    BY QuietStore DEF Lease
<1>2. Tries(r.id)' = Tries(r.id)
    BY DEF storeVars, Tries
<1>3. r.pc \in Holding => /\ r.id \in DOMAIN reserved' /\ reserved'[r.id] > now
                          /\ \A v \in Workers \ {w} : Holds(v) => wk[v].id # r.id
    BY DEF Lease, Leased, Exclusive, storeVars
<1> QED  BY <1>1, <1>2, <1>3, WorkerLease DEF Quiet, LifeStep

LEMMA PushLease ==
    ASSUME Regular, Inv, Lease, NEW id \in Ids, NEW d \in Delays, Push(id, d)
    PROVE  Lease' /\ LifeStep
<1>1. PICK mode \in {"waiting", "delayed"}, score \in Int : PushCall(id, mode, score)
    <2>1. now + d \in Int
        BY DeliveryAssumption DEF Inv, TypeOK
    <2> QED  BY <2>1 DEF Push
<1>2. id \in Ids \ DOMAIN msg
    BY DEF Push, Inv, Provenance, Pushed
<1>3. Agrees' /\ Shift({id}, "none", mode) /\ KeepsTries({id})
    <2>1. NewEntity(mode) \in Entity /\ NewEntity(mode).status = mode
            /\ NewEntity(mode).attempts = 0
        BY DEF NewEntity, Entity, Statuses, Expiries
    <2>2. pushScript(id, NewEntity(mode), mode, score) /\ StoreTypeOK
        BY <1>1 DEF PushCall, Inv, TypeOK
    <2> QED  BY <1>2, <2>1, <2>2, PushShifts DEF Lease
<1>4. UNCHANGED <<now, wk, fwd, mgr, gone>> /\ prod' = [prod EXCEPT ![id] = Returned]
    BY <1>1 DEF PushCall, envVars, ReplyOrResend, Fault, Regular
<1>5. Calm'
    <2>1. \A x \in Ids : prod'[x].pc # "sent"
        BY <1>4 DEF Lease, Calm, Inv, TypeOK, Returned
    <2> QED  BY <1>4, <2>1 DEF Lease, Calm
<1>6. \A x \in {id} : Tries(x)' <= MaxAttempts
    BY <1>3 DEF KeepsTries, Lease, Tallied
<1>7. \A v \in Workers : Holds(v) => wk[v].id \notin {id}
    BY <1>3, HeldPlace DEF Shift, Lease
<1>8. Lease'
    BY <1>3, <1>4, <1>5, <1>6, <1>7, StoreLease
<1>9. LifeStep
    BY <1>3 DEF LifeStep, One
<1> QED  BY <1>8, <1>9

LEMMA PopLease ==
    ASSUME Inv, Lease, NEW w \in Workers, Pop(w)
    PROVE  Lease' /\ LifeStep
<1>1. PICK id \in Ids : /\ popScript(id, now + HandleTimeout)
                       /\ Goto(w, [IdleWorker EXCEPT !.pc = "claimed", !.id = id])
    BY DEF Pop
<1>2. /\ Agrees' /\ Shift({id}, "waiting", "reserved") /\ KeepsTries({id})
      /\ reserved'[id] = now + HandleTimeout
    <2>1. StoreTypeOK /\ now + HandleTimeout \in Int
        BY DeliveryAssumption DEF Inv, TypeOK
    <2> QED  BY <1>1, <2>1, PopShifts DEF Lease
<1> DEFINE r == [IdleWorker EXCEPT !.pc = "claimed", !.id = id]
<1>3. r \in WorkerType /\ r.pc = "claimed" /\ r.id = id
    <2> HIDE DEF IdleWorker
    <2> QED  BY IdleWorkerType DEF WorkerType
<1>4. Goto(w, r)
    BY <1>1
<1> HIDE DEF r
<1>5. id \in DOMAIN reserved' /\ reserved'[id] > now
    <2>1. Place(id)' = "reserved"
        BY <1>2 DEF Shift
    <2>2. id \in DOMAIN reserved'
        BY <1>2, <2>1 DEF Agrees, Place
    <2>3. now + HandleTimeout > now
        BY DeliveryAssumption DEF Inv, TypeOK
    <2> QED  BY <1>2, <2>2, <2>3
<1>6. \A v \in Workers : Holds(v) => wk[v].id # id
    BY <1>2, HeldPlace DEF Shift, Lease
<1>7. \A x \in {id} : Tries(x)' <= MaxAttempts
    BY <1>2 DEF KeepsTries, Lease, Tallied
<1>8. UNCHANGED <<now, prod, fwd, mgr, gone>>
    BY DEF Pop, envVars
<1>9. \A t : Tally(r, t)
    BY <1>3 DEF Tally
<1>10. Lease'
    BY <1>2, <1>3, <1>4, <1>5, <1>6, <1>7, <1>8, <1>9, WorkerLease
<1>11. LifeStep
    BY <1>2 DEF LifeStep, One
<1> QED  BY <1>10, <1>11

LEMMA PopNilLease ==
    ASSUME Inv, Lease, NEW w \in Workers, PopNil(w)
    PROVE  Lease' /\ LifeStep
<1>1. Agrees' /\ Quiet
    BY PopNilShifts DEF PopNil, Inv, TypeOK, Lease, Quiet
<1>2. Calm' /\ UNCHANGED <<now, wk>>
    BY DEF PopNil, envVars, Lease, Calm
<1>3. Lease'
    BY <1>1, <1>2, StoreLease DEF Quiet
<1> QED  BY <1>1, <1>3 DEF LifeStep

LEMMA LoadLease ==
    ASSUME Inv, Lease, NEW w \in Workers, Load(w)
    PROVE  Lease' /\ LifeStep
<1>1. wk[w] \in WorkerType /\ Holds(w) /\ wk[w].pc = "claimed" /\ StoreTypeOK
    BY DEF Load, Holds, Inv, TypeOK
<1>2. wk[w].id \in DOMAIN msg
    BY <1>1, AgreesPlaces DEF Lease, Leased
<1>3. msg[wk[w].id].attempts \in Nat /\ Tries(wk[w].id) = msg[wk[w].id].attempts
    BY <1>1, <1>2, TriesType DEF Tries
<1> DEFINE r == [wk[w] EXCEPT !.pc = "handling", !.attempts = msg[wk[w].id].attempts]
<1>4. /\ r \in WorkerType /\ r.pc = "handling" /\ r.id = wk[w].id
      /\ r.attempts = Tries(wk[w].id)
    BY <1>1, <1>3 DEF WorkerType
<1>5. Goto(w, r) /\ UNCHANGED storeVars /\ UNCHANGED <<now, prod, fwd, mgr, gone>>
    BY <1>2 DEF Load
<1> HIDE DEF r
<1>6. Tally(r, Tries(r.id))
    BY <1>4 DEF Tally
<1> QED  BY <1>1, <1>4, <1>5, <1>6, LocalLease

LEMMA AttemptedTally ==
    ASSUME NEW m \in WorkerType, NEW t \in Nat, m.attempts = t, t <= MaxAttempts
    PROVE  /\ Tally(Attempted(m), t)
           /\ Tally([Attempted(m) EXCEPT !.rec = TRUE], t)
<1> DEFINE o == IF AttemptsAllowed(m) THEN "retry" ELSE "fail"
           y == [Attempted(m) EXCEPT !.rec = TRUE]
<1>1. (o = "retry" /\ t < MaxAttempts) \/ (o = "fail" /\ t = MaxAttempts)
    BY DeliveryAssumption DEF AttemptsAllowed
<1>2. Attempted(m).op = o /\ Attempted(m).pc = "commit"
    BY DEF Attempted, WorkerType
<1>3. y.op = o /\ y.pc = "commit"
    BY <1>2, AttemptedType DEF WorkerType
<1> HIDE DEF o, y
<1>4. Tally(Attempted(m), t)
    BY <1>1, <1>2 DEF Tally
<1>5. Tally(y, t)
    BY <1>1, <1>3 DEF Tally
<1> QED  BY <1>4, <1>5 DEF y

LEMMA HandleLease ==
    ASSUME Inv, Lease, NEW w \in Workers, Handle(w)
    PROVE  Lease' /\ LifeStep
<1> DEFINE t == Tries(wk[w].id)
<1>1. /\ wk[w] \in WorkerType /\ Holds(w) /\ wk[w].pc = "handling" /\ wk[w].id \in Ids
      /\ UNCHANGED storeVars /\ UNCHANGED <<now, prod, fwd, mgr, gone>>
    BY DEF Handle, Holds, envVars, Inv, TypeOK
<1>2. t \in Nat /\ wk[w].attempts = t /\ t <= MaxAttempts
    <2>1. t \in Nat
        BY TriesType DEF Inv, TypeOK
    <2>2. Tally(wk[w], t) /\ t <= MaxAttempts
        BY <1>1 DEF Lease, Tallied
    <2> HIDE DEF t
    <2> QED  BY <1>1, <2>1, <2>2 DEF Tally
<1> HIDE DEF t
<1>3. ASSUME NEW r \in WorkerType, Goto(w, r), r.pc = "commit", r.id = wk[w].id, Tally(r, t)
      PROVE  Lease' /\ LifeStep
    BY <1>1, <1>3, LocalLease DEF t
<1>4. PICK res \in Results :
        Goto(w, CASE res = "ACK"     -> [wk[w] EXCEPT !.pc = "commit", !.op = "ack"]
                  [] res = "DROP"    -> [wk[w] EXCEPT !.pc = "commit", !.op = "drop"]
                  [] res = "REQUEUE" -> [wk[w] EXCEPT !.pc = "commit", !.op = "requeue"]
                  [] res = "RETRY"   -> Attempted(wk[w])
                  [] res = "ERROR"   -> Attempted(wk[w])
                  [] res = "PANIC"   -> [Attempted(wk[w]) EXCEPT !.rec = TRUE])
    BY DEF Handle
<1>5. res \in Outcomes
    BY DeliveryAssumption
<1>6. CASE res \in {"ACK", "DROP", "REQUEUE"}
    <2>1. PICK o \in {"ack", "drop", "requeue"} :
            /\ Goto(w, [wk[w] EXCEPT !.pc = "commit", !.op = o])
            /\ o = "requeue" => "REQUEUE" \in Results
        BY <1>4, <1>6
    <2> DEFINE y == [wk[w] EXCEPT !.pc = "commit", !.op = o]
    <2>2. y \in WorkerType /\ y.pc = "commit" /\ y.id = wk[w].id /\ y.op = o
        BY <1>1 DEF WorkerType
    <2>3. Goto(w, y)
        BY <2>1
    <2> HIDE DEF y
    <2>4. Tally(y, t)
        BY <2>1, <2>2 DEF Tally
    <2> QED  BY <1>3, <2>2, <2>3, <2>4
<1>7. CASE res \in {"RETRY", "ERROR"}
    <2>1. Goto(w, Attempted(wk[w]))
        BY <1>4, <1>7
    <2> QED  BY <1>1, <1>2, <1>3, <2>1, AttemptedType, AttemptedTally
<1>8. CASE res = "PANIC"
    <2> DEFINE y == [Attempted(wk[w]) EXCEPT !.rec = TRUE]
    <2>1. Goto(w, y)
        BY <1>4, <1>8
    <2>2. y \in WorkerType /\ y.pc = "commit" /\ y.id = wk[w].id /\ Tally(y, t)
        BY <1>1, <1>2, AttemptedType, AttemptedTally
    <2> HIDE DEF y
    <2> QED  BY <1>3, <2>1, <2>2
<1> QED  BY <1>5, <1>6, <1>7, <1>8 DEF Outcomes

\* A commit takes the message of w, and of nobody else, from its reservation.
LEMMA CommitFrame ==
    ASSUME Inv, Lease, Agrees', NEW w \in Workers, Holds(w), NEW x, x = wk[w].id,
           NEW to, Shift({x}, "reserved", to), Tries(x)' <= MaxAttempts,
           NEW r \in WorkerType, r.pc = "hook", Goto(w, r),
           UNCHANGED <<now, prod, fwd, mgr, gone>>
    PROVE  Lease'
<1>1. \A v \in Workers \ {w} : Holds(v) => wk[v].id \notin {x}
    BY DEF Lease, Exclusive
<1>2. \A t : Tally(r, t)
    BY DEF Tally
<1>3. r.pc \notin Holding
    BY DEF Holding
<1>4. \A y \in {x} : Tries(y)' <= MaxAttempts
    OBVIOUS
<1> QED  BY <1>1, <1>2, <1>3, <1>4, WorkerLease

LEMMA CommitLease ==
    ASSUME Regular, Inv, Lease, NEW w \in Workers, Commit(w)
    PROVE  Lease' /\ LifeStep
<1>1. PICK x : x = wk[w].id
    OBVIOUS
<1>2. /\ wk[w] \in WorkerType /\ Holds(w) /\ wk[w].pc = "commit" /\ x \in Ids
      /\ x \in DOMAIN reserved /\ StoreTypeOK
    BY <1>1 DEF Commit, Holds, Inv, TypeOK, Lease, Leased
<1>3. PICK st : \/ wk[w].op = "ack"     /\ ackScript(x)     /\ st = "done"
                \/ wk[w].op = "drop"    /\ dropScript(x)    /\ st = "dropped"
                \/ wk[w].op = "requeue" /\ requeueScript(x) /\ st = "waiting"
                \/ wk[w].op = "fail"    /\ failScript(x)    /\ st = "failed"
    BY <1>1 DEF Commit
<1>4. Agrees' /\ Shift({x}, "reserved", st) /\ KeepsTries({x})
    BY <1>2, <1>3, CommitShifts DEF Lease
<1>5. Goto(w, Committed(w)) /\ UNCHANGED <<now, prod, fwd, mgr, gone>>
    BY DEF Commit, envVars, ReplyOrResend, Fault, Regular
<1>6. Committed(w) \in WorkerType /\ Committed(w).pc = "hook"
    BY <1>2, CommittedType
<1>7. Tries(x)' <= MaxAttempts /\ Tries(x)' = Tries(x)
    BY <1>2, <1>4 DEF KeepsTries, Lease, Tallied
<1>8. Lease'
    BY <1>1, <1>2, <1>4, <1>5, <1>6, <1>7, CommitFrame
<1>9. Tally(wk[w], Tries(x))
    BY <1>1 DEF Lease, Tallied
<1>10. LifeStep
    <2>1. CASE st \in {"done", "dropped"}
        BY <1>2, <1>4, <2>1 DEF LifeStep, One
    <2>2. CASE st = "waiting"
        <3>1. "REQUEUE" \in Results
            BY <1>2, <1>3, <1>9, <2>2 DEF Tally
        <3> QED  BY <1>2, <1>4, <2>2, <3>1 DEF LifeStep, One
    <2>3. CASE st = "failed"
        <3>1. Tries(x) = MaxAttempts
            BY <1>2, <1>3, <1>9, <2>3 DEF Tally
        <3> QED  BY <1>2, <1>4, <2>3, <3>1 DEF LifeStep, GivenUp
    <2> QED  BY <1>3, <2>1, <2>2, <2>3
<1> QED  BY <1>8, <1>10

LEMMA RetryLoadLease ==
    ASSUME Inv, Lease, NEW w \in Workers, RetryLoad(w)
    PROVE  Lease' /\ LifeStep
<1> DEFINE id == wk[w].id
           delay == RetrySeconds(wk[w].attempts)
           t == Tries(id)
<1>1. /\ wk[w] \in WorkerType /\ Holds(w) /\ wk[w].pc = "commit" /\ wk[w].op = "retry"
      /\ StoreTypeOK /\ UNCHANGED storeVars /\ UNCHANGED <<now, prod, fwd, mgr, gone>>
    BY DEF RetryLoad, Holds, envVars, Inv, TypeOK
<1>2. id \in DOMAIN msg
    BY <1>1, AgreesPlaces DEF Lease, Leased
<1> DEFINE b == RetryBody(id, delay)
           s == now + delay
           r == [wk[w] EXCEPT !.pc = "retry", !.body = b, !.score = s]
<1>3. Goto(w, r)
    BY <1>2 DEF RetryLoad
<1>4. b \in Bodies
    BY <1>1, <1>2, RetryBodyType
<1>5. s \in Int
    <2>1. wk[w].attempts \in Nat
        BY <1>1 DEF WorkerType
    <2>2. delay \in Int
        BY <2>1, RetrySecondsType
    <2> QED  BY <2>2 DEF Inv, TypeOK
<1>6. t < MaxAttempts /\ t = msg[id].attempts
    <2>1. Tally(wk[w], t)
        BY DEF Lease, Tallied
    <2>2. t < MaxAttempts
        BY <1>1, <2>1 DEF Tally
    <2> QED  BY <1>2, <2>2 DEF Tries
<1>7. b.attempts = t + 1
    BY <1>1, <1>2, <1>6, StoredEntity DEF RetryBody, Entity
<1> HIDE DEF b, s, t, delay
<1>8. r \in WorkerType /\ r.pc = "retry" /\ r.id = wk[w].id /\ r.body = b
    BY <1>1, <1>4, <1>5 DEF WorkerType
<1> HIDE DEF r
<1>9. Tally(r, t)
    BY <1>6, <1>7, <1>8 DEF Tally
<1> QED  BY <1>1, <1>3, <1>8, <1>9, LocalLease DEF t

LEMMA RetryCommitLease ==
    ASSUME Regular, Inv, Lease, NEW w \in Workers, RetryCommit(w)
    PROVE  Lease' /\ LifeStep
<1>1. PICK x, body, score : x = wk[w].id /\ body = wk[w].body /\ score = wk[w].score
    OBVIOUS
<1>2. /\ wk[w] \in WorkerType /\ Holds(w) /\ wk[w].pc = "retry" /\ x \in Ids
      /\ x \in DOMAIN reserved /\ StoreTypeOK
    BY <1>1 DEF RetryCommit, Holds, Inv, TypeOK, Lease, Leased
<1>3. body \in Entity /\ body.status \in {"waiting", "delayed"} /\ score \in Int
    BY <1>1, <1>2, BodiesAreEntities DEF WorkerType
<1>4. retryFinds(x)
    BY <1>2 DEF retryFinds
<1> DEFINE c == [Committed(w) EXCEPT !.body = NoBody, !.score = 0]
<1>5. /\ retryByIDScript(x, body, body.status, score) /\ Goto(w, c)
      /\ UNCHANGED <<now, prod, fwd, mgr, gone>>
    BY <1>1, <1>4 DEF RetryCommit, envVars, ReplyOrResend, Fault, Regular
<1>6. c \in WorkerType /\ c.pc = "hook"
    <2>1. NoBody \in Bodies
        BY DEF NoBody, Bodies
    <2> DEFINE d == Committed(w)
    <2>2. d \in WorkerType /\ d.pc = "hook"
        BY <1>2, CommittedType
    <2> HIDE DEF NoBody, d
    <2>3. /\ [d EXCEPT !.body = NoBody, !.score = 0] \in WorkerType
          /\ [d EXCEPT !.body = NoBody, !.score = 0].pc = d.pc
        BY <2>1, <2>2, ForgetBody
    <2> QED  BY <2>2, <2>3 DEF d
<1> HIDE DEF c
<1>7. /\ Agrees' /\ Shift({x}, "reserved", body.status) /\ Tries(x)' = body.attempts
    BY <1>2, <1>3, <1>5, RetryShifts DEF Lease
<1>8. body.attempts = Tries(x) + 1 /\ Tries(x) < MaxAttempts
    <2>1. Tally(wk[w], Tries(x))
        BY <1>1 DEF Lease, Tallied
    <2> QED  BY <1>1, <1>2, <2>1 DEF Tally
<1>9. Tries(x)' <= MaxAttempts
    <2>1. Tries(x) \in Nat
        BY <1>2, TriesType
    <2> QED  BY <1>7, <1>8, <2>1, DeliveryAssumption
<1>10. Lease'
    BY <1>1, <1>2, <1>5, <1>6, <1>7, <1>9, CommitFrame
<1>11. LifeStep
    BY <1>2, <1>3, <1>7, <1>8 DEF LifeStep, Retried
<1> QED  BY <1>10, <1>11

\* The hook returned or the process died; the lease of a crashed holder runs on.
LEMMA LeaveLease ==
    ASSUME Regular, Inv, Lease, NEW w \in Workers, HookReturns(w) \/ Crash(w)
    PROVE  Lease' /\ LifeStep
<1>1. /\ Goto(w, IdleWorker) /\ UNCHANGED storeVars
      /\ UNCHANGED <<now, prod, fwd, mgr, gone>>
    BY DEF HookReturns, Crash, envVars
<1>2. IdleWorker \in WorkerType /\ IdleWorker.pc \notin Holding
    BY IdleWorkerType DEF Holding
<1>3. \A t : Tally(IdleWorker, t)
    BY IdleWorkerType DEF Tally
<1> QED  BY <1>1, <1>2, <1>3, LocalLease

\* What Regular rules out: nothing vanishes, no hook panics, no script is sent
\* twice, nothing expires and nobody retries by id or flushes.
LEMMA RuledOut ==
    ASSUME Regular, Inv, ExpiryKnown, NoRetry, Lease
    PROVE  /\ \A w \in Workers : ~PopForget(w) /\ ~HookPanics(w)
           /\ \A id \in Ids : ~PushResend(id) /\ ~TtlRunsDown(id) /\ ~KeyExpires(id)
           /\ \A id \in Ids, d \in Delays : ~MgrRetryLoad(id, d)
           /\ ~MgrRetryScript
           /\ \A name \in Buckets : ~Flush(name)
<1>1. \A w \in Workers : ~PopForget(w)
    BY DEF PopForget, Inv, VanishedIsGone, Lease, Calm
<1>2. \A w \in Workers : ~HookPanics(w)
    BY DEF HookPanics, Fault, Regular
<1>3. \A id \in Ids : ~PushResend(id)
    BY DEF PushResend, Lease, Calm
<1>4. \A id \in Ids : ~TtlRunsDown(id) /\ ~KeyExpires(id)
    BY DEF TtlRunsDown, KeyExpires, ttlRunsDown, keyExpires, ExpiryKnown, Regular
<1>5. \A id \in Ids, d \in Delays : ~MgrRetryLoad(id, d)
    BY DEF MgrRetryLoad, Regular
<1>6. ~MgrRetryScript
    BY DEF MgrRetryScript, NoRetry
<1>7. \A name \in Buckets : ~Flush(name)
    BY DEF Flush, Regular
<1> QED  BY <1>1, <1>2, <1>3, <1>4, <1>5, <1>6, <1>7

\* A batch that meets nobody's message moves without counting a retry.
LEMMA BatchLease ==
    ASSUME Inv, Lease, Agrees', Calm', NEW S \in SUBSET Ids, NEW from, NEW to,
           Shift(S, from, to), KeepsTries(S), UNCHANGED <<now, wk>>,
           from # "reserved" \/ \A v \in Workers : Holds(v) => wk[v].id \notin S
    PROVE  Lease'
<1>1. \A x \in S : Tries(x)' <= MaxAttempts
    BY DEF KeepsTries, Lease, Tallied
<1>2. \A v \in Workers : Holds(v) => wk[v].id \notin S
    BY HeldPlace DEF Shift, Lease
<1> QED  BY <1>1, <1>2, StoreLease

\* A forwarder's reading of the clock may be old, so no running lease is over
\* by it: it takes no message from its holder.
LEMMA ForwardLease ==
    ASSUME Inv, Lease, NEW f \in Forwarders,
           ForwardDelayed(f) \/ ForwardTimeout(f) \/ ForwardFails(f)
    PROVE  Lease' /\ LifeStep
<1>1. /\ StoreTypeOK /\ Agrees /\ now \in Nat /\ fwd[f].now \in Nat /\ fwd[f].now <= now
      /\ fwd \in [Forwarders -> [pc : {"idle", "timeout"}, now : Nat]]
    BY DEF Inv, TypeOK, Lease, Calm
<1>2. PICK r \in [pc : {"idle", "timeout"}, now : Nat] :
        fwd' = [fwd EXCEPT ![f] = r] /\ r.now <= now
    <2>1. /\ [pc |-> "timeout", now |-> now] \in [pc : {"idle", "timeout"}, now : Nat]
          /\ [pc |-> "timeout", now |-> now].now <= now
        BY <1>1
    <2>2. [pc |-> "idle", now |-> 0] \in [pc : {"idle", "timeout"}, now : Nat]
        OBVIOUS
    <2>3. CASE ForwardDelayed(f)
        BY <1>1, <2>1, <2>3 DEF ForwardDelayed
    <2>4. CASE ForwardTimeout(f) \/ ForwardFails(f)
        BY <1>1, <2>2, <2>4 DEF ForwardTimeout, ForwardFails
    <2> QED  BY <2>3, <2>4
<1>3. UNCHANGED <<now, wk, prod, mgr, gone>>
    BY DEF ForwardDelayed, ForwardTimeout, ForwardFails, envVars
<1>4. Calm'
    <2>1. \A g \in Forwarders : fwd'[g].now <= now'
        BY <1>1, <1>2, <1>3 DEF Lease, Calm
    <2> QED  BY <1>3, <2>1 DEF Lease, Calm
<1>5. CASE ForwardDelayed(f)
    <2>1. moveScript(now + 1) /\ now + 1 \in Int
        BY <1>1, <1>5 DEF ForwardDelayed
    <2>2. Agrees' /\ \E S \in SUBSET Ids : Shift(S, "delayed", "waiting") /\ KeepsTries(S)
        BY <1>1, <2>1, MoveShifts
    <2>3. PICK S \in SUBSET Ids : Shift(S, "delayed", "waiting") /\ KeepsTries(S)
        BY <2>2
    <2>4. Lease'
        BY <1>3, <1>4, <2>2, <2>3, BatchLease
    <2> QED  BY <2>3, <2>4 DEF LifeStep, Many
<1>6. CASE ForwardTimeout(f)
    <2> DEFINE t == fwd[f].now
    <2>1. moveTimeoutScript(t) /\ t \in Int
        BY <1>1, <1>6 DEF ForwardTimeout
    <2> HIDE DEF t
    <2>2. /\ Agrees'
          /\ \E S \in SUBSET Ids : /\ Shift(S, "reserved", "timeout") /\ KeepsTries(S)
                                   /\ \A x \in S : x \in DOMAIN reserved /\ reserved[x] <= t
        BY <1>1, <2>1, MoveTimeoutShifts
    <2>3. PICK S \in SUBSET Ids : /\ Shift(S, "reserved", "timeout") /\ KeepsTries(S)
                                  /\ \A x \in S : x \in DOMAIN reserved /\ reserved[x] <= t
        BY <2>2
    <2>4. ASSUME NEW v \in Workers, Holds(v) PROVE wk[v].id \notin S
        <3>1. wk[v].id \in DOMAIN reserved /\ reserved[wk[v].id] > now
            BY <2>4 DEF Lease, Leased
        <3>2. reserved[wk[v].id] \in Int
            BY <1>1, <3>1 DEF StoreTypeOK, IsZset
        <3> QED  BY <1>1, <2>3, <3>1, <3>2 DEF t
    <2>5. Lease'
        BY <1>3, <1>4, <2>2, <2>3, <2>4, BatchLease
    <2> QED  BY <2>3, <2>5 DEF LifeStep, Many
<1>7. CASE ForwardFails(f)
    <2>1. Agrees' /\ Quiet
        BY <1>1, <1>7, QuietStore DEF ForwardFails
    <2>2. Lease'
        BY <1>3, <1>4, <2>1, StoreLease DEF Quiet
    <2> QED  BY <2>1, <2>2 DEF LifeStep
<1> QED  BY <1>5, <1>6, <1>7

LEMMA CancelLease ==
    ASSUME Inv, Lease, NEW id \in Ids, Cancel(id)
    PROVE  Lease' /\ LifeStep
<1>1. /\ StoreTypeOK /\ Agrees /\ cancelByIDScript(id)
      /\ UNCHANGED <<now, wk, prod, fwd, mgr, gone>>
    BY DEF Cancel, envVars, Inv, TypeOK, Lease
<1>2. Calm'
    BY <1>1 DEF Lease, Calm
<1>3. CASE id \in DOMAIN delayed
    <2>1. Agrees' /\ Shift({id}, "delayed", "canceled") /\ KeepsTries({id})
        BY <1>1, <1>3, CancelShifts
    <2>2. {id} \in SUBSET Ids
        OBVIOUS
    <2>3. Lease'
        BY <1>1, <1>2, <2>1, <2>2, BatchLease
    <2> QED  BY <2>1, <2>3 DEF LifeStep, One
<1>4. CASE id \notin DOMAIN delayed
    <2>1. Agrees' /\ Quiet
        BY <1>1, <1>4, QuietStore DEF cancelByIDScript
    <2>2. Lease'
        BY <1>1, <1>2, <2>1, StoreLease DEF Quiet
    <2> QED  BY <2>1, <2>2 DEF LifeStep
<1> QED  BY <1>3, <1>4

LEMMA ReloadLease ==
    ASSUME Inv, Lease, ReloadStep
    PROVE  Lease' /\ LifeStep
<1>1. /\ StoreTypeOK /\ Agrees /\ (reloadTimeoutScript \/ reloadFailedScript)
      /\ UNCHANGED <<now, wk, prod, fwd, gone>> /\ mgr' \in {mgr, IdleManager}
    BY DEF ReloadStep, envVars, Inv, TypeOK, Lease
<1>2. "reload" \in Mgmt
    BY DEF ReloadStep, Lease, Calm
<1>3. Calm'
    BY <1>1, <1>2 DEF Lease, Calm
<1>4. /\ Agrees'
      /\ \E S \in SUBSET Ids, from \in {"timeout", "failed"} :
            Shift(S, from, "waiting") /\ KeepsTries(S)
    BY <1>1, ReloadShifts
<1>5. PICK S \in SUBSET Ids, from \in {"timeout", "failed"} :
            Shift(S, from, "waiting") /\ KeepsTries(S)
    BY <1>4
<1>6. Lease'
    BY <1>1, <1>3, <1>4, <1>5, BatchLease
<1>7. LifeStep
    BY <1>2, <1>5 DEF LifeStep, Many
<1> QED  BY <1>6, <1>7

LEMMA ManagerLease ==
    ASSUME Inv, Lease, NEW name, ReloadStart(name) \/ ManagerCrash
    PROVE  Lease' /\ LifeStep
<1>1. /\ UNCHANGED storeVars /\ UNCHANGED <<now, wk, prod, fwd, gone>> /\ Agrees
      /\ "reload" \in Mgmt \/ mgr' = IdleManager
    BY DEF ReloadStart, ManagerCrash, envVars, Lease
<1>2. mgr'.pc = "reload" => "reload" \in Mgmt
    BY <1>1, IdleManagerType
<1>3. Calm'
    BY <1>1, <1>2 DEF Lease, Calm
<1>4. Agrees' /\ Quiet
    BY <1>1, QuietStore
<1>5. Lease'
    BY <1>1, <1>3, <1>4, StoreLease DEF Quiet
<1> QED  BY <1>4, <1>5 DEF LifeStep

\* Time passes while every lease in use outlasts it.
LEMMA TickLease ==
    ASSUME Regular, Inv, Lease, Tick
    PROVE  Lease' /\ LifeStep
<1>1. /\ UNCHANGED storeVars /\ UNCHANGED <<wk, prod, fwd, mgr, gone>>
      /\ now \in Nat /\ now' = now + 1 /\ Agrees
    BY DEF Tick, Inv, TypeOK, Lease
<1>2. Agrees' /\ Quiet
    BY <1>1, QuietStore
<1>3. Calm'
    <2>1. \A f \in Forwarders : fwd[f].now <= now + 1
        BY <1>1 DEF Lease, Calm, Inv, TypeOK
    <2> QED  BY <1>1, <2>1 DEF Lease, Calm
<1>4. \A v \in Workers : Holds(v)' <=> Holds(v)
    BY <1>1 DEF Holds
<1>5. Leased'
    BY <1>1, <1>4 DEF Tick, Regular, Lease, Leased, storeVars
<1>6. Exclusive'
    BY <1>1, <1>4 DEF Lease, Exclusive
<1>7. Tallied'
    BY <1>1 DEF Lease, Tallied, Tries, storeVars
<1>8. Lease'
    BY <1>2, <1>3, <1>5, <1>6, <1>7 DEF Lease
<1> QED  BY <1>2, <1>8 DEF LifeStep

LEMMA StutterLease ==
    ASSUME Inv, Lease, UNCHANGED vars
    PROVE  Lease' /\ LifeStep
<1>1. UNCHANGED storeVars /\ UNCHANGED <<now, wk, prod, fwd, mgr, gone>> /\ Agrees
    BY DEF vars, storeVars, Lease
<1>2. Agrees' /\ Quiet
    BY <1>1, QuietStore
<1>3. Calm'
    BY <1>1 DEF Lease, Calm
<1>4. Lease'
    BY <1>1, <1>2, <1>3, StoreLease DEF Quiet
<1> QED  BY <1>2, <1>4 DEF LifeStep
-----------------------------------------------------------------------------
(* Every step keeps the invariant and is a row of the matrix. *)

LEMMA NextLease ==
    ASSUME Regular, LeaseInv, [Next]_vars
    PROVE  LeaseInv' /\ LifeStep
<1> USE DEF LeaseInv
<1>1. Inv' /\ ExpiryKnown'
    BY NextInv, ExpiryStep
<1>2. NoRetry'
    BY NoRetryStep DEF Regular
<1>3. Lease' /\ LifeStep
    <2>1. ASSUME NEW id \in Ids, NEW d \in Delays, Push(id, d) PROVE Lease' /\ LifeStep
        BY <2>1, PushLease
    <2>2. ASSUME NEW w \in Workers, Worker(w) \/ Crash(w) PROVE Lease' /\ LifeStep
        <3>1. ~PopForget(w) /\ ~HookPanics(w)
            BY RuledOut
        <3> QED  BY <2>2, <3>1, PopLease, PopNilLease, LoadLease, HandleLease, CommitLease,
                    RetryLoadLease, RetryCommitLease, LeaveLease DEF Worker
    <2>3. ASSUME NEW f \in Forwarders, Forward(f) \/ ForwardFails(f) PROVE Lease' /\ LifeStep
        BY <2>3, ForwardLease DEF Forward
    <2>4. CASE Manage
        <3>1. /\ \A id \in Ids, d \in Delays : ~MgrRetryLoad(id, d)
              /\ ~MgrRetryScript /\ \A name \in Buckets : ~Flush(name)
            BY RuledOut
        <3> QED  BY <2>4, <3>1, CancelLease, ReloadLease, ManagerLease DEF Manage
    <2>5. CASE Tick
        BY <2>5, TickLease
    <2>6. CASE UNCHANGED vars
        BY <2>6, StutterLease
    <2>7. \A id \in Ids : ~PushResend(id) /\ ~TtlRunsDown(id) /\ ~KeyExpires(id)
        BY RuledOut
    <2> QED  BY <2>1, <2>2, <2>3, <2>4, <2>5, <2>6, <2>7 DEF Next
<1> QED  BY <1>1, <1>2, <1>3

LEMMA InitLease == Init => LeaseInv
<1> SUFFICES ASSUME Init PROVE LeaseInv
    OBVIOUS
<1>1. /\ Range(<<>>) = {} /\ IsInjective(<<>>)
    BY DEF Range, IsInjective
<1>2. /\ waiting = <<>> /\ timeout = <<>> /\ failed = <<>>
      /\ DOMAIN delayed = {} /\ DOMAIN reserved = {} /\ DOMAIN msg = {}
    BY DEF Init, StoreInit, EmptyMap
<1>3. Agrees
    BY <1>1, <1>2 DEF Agrees, Placed
<1>4. ExpiryKnown
    BY <1>2 DEF ExpiryKnown
<1>5. mgr.pc = "idle" /\ \A w \in Workers : wk[w] = IdleWorker /\ wk[w].pc = "idle"
    <2> HIDE DEF IdleWorker, IdleManager
    <2> QED  BY IdleManagerType, IdleWorkerType DEF Init
<1>6. NoRetry /\ Calm
    BY <1>5 DEF NoRetry, Calm, Init
<1>7. Leased /\ Exclusive
    BY <1>5 DEF Leased, Exclusive, Holds
<1>8. Tallied
    BY <1>2, <1>5, DeliveryAssumption DEF Tallied, Tally, Tries
<1> QED  BY <1>3, <1>4, <1>6, <1>7, <1>8, InitInv DEF LeaseInv, Lease

\* The invariant holds in every behaviour of a regular queue: what a goroutine
\* holds is reserved until after now, and status, buckets and counters agree.
THEOREM LeaseHolds ==
    ASSUME Regular
    PROVE  Spec => []LeaseInv
<1>1. LeaseInv /\ [Next]_vars => LeaseInv'
    BY NextLease
<1> QED  BY <1>1, InitLease, PTL DEF Spec

\* As long as handlers finish before their lease ends, a message is in the
\* hands of one goroutine: no interleaving of pops, forwarders with an old
\* reading of the clock, reloads, retries and crashes hands it out twice.
THEOREM OneHolder ==
    ASSUME Regular
    PROVE  Spec => []Exclusive
<1>1. LeaseInv => Exclusive
    BY DEF LeaseInv, Lease
<1> QED  BY <1>1, LeaseHolds, PTL
-----------------------------------------------------------------------------
(* Status and position. *)

\* A list without repetition holds an id once or not at all.
LEMMA OccursOnce ==
    ASSUME NEW q \in Seq(Ids), IsInjective(q), NEW id
    PROVE  Occurrences(q, id) = IF id \in Range(q) THEN 1 ELSE 0
<1> DEFINE I == {i \in DOMAIN q : q[i] = id}
<1>1. CASE id \in Range(q)
    <2>1. PICK k \in DOMAIN q : q[k] = id
        BY <1>1 DEF Range
    <2>2. I = {k}
        BY <2>1 DEF IsInjective
    <2>3. Cardinality(I) = 1
        BY <2>2, FS_Singleton
    <2> QED  BY <1>1, <2>3 DEF Occurrences
<1>2. CASE id \notin Range(q)
    <2>1. I = {}
        BY <1>2 DEF Range
    <2>2. Cardinality(I) = 0
        BY <2>1, FS_EmptySet
    <2> QED  BY <1>2, <2>2 DEF Occurrences
<1> QED  BY <1>1, <1>2

LEMMA AgreesTells == LeaseInv => StatusTellsPosition
<1> SUFFICES ASSUME LeaseInv, NEW id \in Pushed
             PROVE  IF msg[id].status \in Terminal THEN Copies(id) = 0
                    ELSE /\ Copies(id) = 1
                         /\ \/ msg[id].status \in Buckets /\ id \in Bucket(msg[id].status)
                            \/ msg[id].status = "reserved" /\ id \in Range(timeout)
    BY DEF StatusTellsPosition
<1> DEFINE st == msg[id].status
<1>1. StoreTypeOK /\ Agrees /\ gone = {}
    BY DEF LeaseInv, Inv, TypeOK, Lease, Calm
<1>2. Accounted(id) /\ id \in DOMAIN msg
    BY <1>1 DEF LeaseInv, Inv, NoSilentLoss, Accounted
<1>3. /\ id \in Range(waiting)  <=> st = "waiting"
      /\ id \in DOMAIN delayed  <=> st = "delayed"
      /\ id \in Range(failed)   <=> st = "failed"
      /\ id \in DOMAIN reserved <=> st = "reserved" /\ id \notin Range(timeout)
      /\ id \in Range(timeout)  => st = "reserved"
    BY <1>1, <1>2 DEF Agrees
<1>4. Copies(id) = (IF id \in Range(waiting) THEN 1 ELSE 0)
                     + (IF id \in Range(timeout) THEN 1 ELSE 0)
                     + (IF id \in Range(failed) THEN 1 ELSE 0)
                     + (IF id \in DOMAIN delayed THEN 1 ELSE 0)
                     + (IF id \in DOMAIN reserved THEN 1 ELSE 0)
    BY <1>1, OccursOnce DEF Copies, ZOccurrences, StoreTypeOK, Agrees
<1>5. st \in Terminal \/ id \in Placed
    BY <1>2 DEF Accounted
<1> HIDE DEF st
<1>6. CASE st \in Terminal
    <2>1. Copies(id) = 0
        BY <1>3, <1>4, <1>6 DEF Terminal
    <2> QED  BY <1>6, <2>1 DEF st
<1>7. CASE st \notin Terminal
    <2>1. st \in {"waiting", "delayed", "failed", "reserved"}
        BY <1>3, <1>5, <1>7 DEF Placed
    <2>2. Copies(id) = 1
        BY <1>3, <1>4, <2>1
    <2>3. \/ st \in Buckets /\ id \in Bucket(st)
          \/ st = "reserved" /\ id \in Range(timeout)
        BY <1>3, <2>1 DEF Buckets, Bucket
    <2> QED  BY <1>7, <2>2, <2>3 DEF st
<1> QED  BY <1>6, <1>7

\* As long as handlers finish before their lease ends, a message is in the one
\* bucket its status names, once, or in none and terminal: this is the claim of
\* the documentation on status and position, for any number of messages.
THEOREM StatusNamesBucket ==
    ASSUME Regular
    PROVE  Spec => []StatusTellsPosition
<1> QED  BY AgreesTells, LeaseHolds, PTL

-----------------------------------------------------------------------------
(* The documented life cycle. *)

PositionsArePlaces == \A id \in Ids : Position(id) = Place(id)

LEMMA AgreesPositions == Agrees => PositionsArePlaces
<1> SUFFICES ASSUME Agrees, NEW id \in Ids PROVE Position(id) = Place(id)
    BY DEF PositionsArePlaces
<1>1. CASE id \notin DOMAIN msg
    BY <1>1 DEF Agrees, Position, Place, Placed
<1>2. CASE id \in DOMAIN msg
    BY <1>2 DEF Agrees, Position, Place, Placed
<1> QED  BY <1>1, <1>2

LEMMA ShiftIsMove ==
    ASSUME Agrees, Agrees', NEW S \in SUBSET Ids, S # {}, NEW from, NEW to, Shift(S, from, to)
    PROVE  Lifecycle!Move(S, from, to)
<1>1. PositionsArePlaces /\ PositionsArePlaces'
    BY AgreesPositions, PTL
<1>2. \A x \in S : Position(x) = from
    BY <1>1 DEF Shift, PositionsArePlaces
<1>3. \A x \in Ids : Position(x)' = IF x \in S THEN to ELSE Position(x)
    BY <1>1 DEF Shift, PositionsArePlaces
<1> QED  BY <1>2, <1>3 DEF Lifecycle!Move

LEMMA TriesKept ==
    ASSUME NEW S \in SUBSET Ids, NEW from, NEW to, Shift(S, from, to), KeepsTries(S)
    PROVE  [id \in Ids |-> Tries(id)]' = [id \in Ids |-> Tries(id)]
<1>1. \A x \in Ids : Tries(x)' = Tries(x)
    BY DEF Shift, KeepsTries
<1> QED  BY <1>1

\* A step that moves nothing is a stuttering step of the life cycle.
LEMMA QuietStutters ==
    ASSUME Agrees, Agrees', NEW from, NEW to, Shift({}, from, to)
    PROVE  UNCHANGED Lifecycle!vars
<1>1. PositionsArePlaces /\ PositionsArePlaces'
    BY AgreesPositions, PTL
<1>2. \A x \in Ids : Position(x)' = Position(x) /\ Tries(x)' = Tries(x)
    BY <1>1 DEF Shift, PositionsArePlaces
<1> QED  BY <1>2 DEF Lifecycle!vars

LEMMA StepFollows ==
    ASSUME Agrees, Agrees', LifeStep
    PROVE  [Lifecycle!Next]_(Lifecycle!vars)
<1>1. ASSUME NEW id \in Ids, NEW from, NEW to, Shift({id}, from, to)
      PROVE  Lifecycle!Move({id}, from, to)
    <2>1. {id} \in SUBSET Ids /\ {id} # {}
        OBVIOUS
    <2> QED  BY <1>1, <2>1, ShiftIsMove
<1>2. ASSUME NEW id \in Ids, NEW from, NEW to, Shift({id}, from, to), KeepsTries({id})
      PROVE  [i \in Ids |-> Tries(i)]' = [i \in Ids |-> Tries(i)]
    <2>1. {id} \in SUBSET Ids
        OBVIOUS
    <2> QED  BY <1>2, <2>1, TriesKept
<1>3. ASSUME NEW id \in Ids, NEW to \in {"waiting", "delayed"},
             Shift({id}, "none", to), KeepsTries({id})
      PROVE  Lifecycle!Push(id)
    BY <1>1, <1>2, <1>3 DEF Lifecycle!Push
<1>4. ASSUME NEW id \in Ids, Shift({id}, "waiting", "reserved"), KeepsTries({id})
      PROVE  Lifecycle!Acquire(id)
    BY <1>1, <1>2, <1>4 DEF Lifecycle!Acquire
<1>5. ASSUME NEW id \in Ids, NEW to \in {"done", "dropped", "waiting"},
             Shift({id}, "reserved", to), KeepsTries({id})
      PROVE  Lifecycle!Commit(id)
    BY <1>1, <1>2, <1>5 DEF Lifecycle!Commit
<1>6. ASSUME NEW id \in Ids, NEW to \in {"waiting", "delayed"},
             Shift({id}, "reserved", to), Tries(id) < MaxAttempts,
             Tries(id)' = Tries(id) + 1
      PROVE  Lifecycle!Retry(id)
    <2>1. \A x \in Ids : Tries(x)' = IF x = id THEN Tries(x) + 1 ELSE Tries(x)
        BY <1>6 DEF Shift
    <2>2. Lifecycle!Move({id}, "reserved", to)
        BY <1>1, <1>6
    <2> QED  BY <1>6, <2>1, <2>2 DEF Lifecycle!Retry
<1>7. ASSUME NEW id \in Ids, Shift({id}, "reserved", "failed"), KeepsTries({id}),
             Tries(id) = MaxAttempts
      PROVE  Lifecycle!Fail(id)
    BY <1>1, <1>2, <1>7 DEF Lifecycle!Fail
<1>8. ASSUME NEW id \in Ids, Shift({id}, "delayed", "canceled"), KeepsTries({id})
      PROVE  Lifecycle!Cancel(id)
    BY <1>1, <1>2, <1>8 DEF Lifecycle!Cancel
<1>9. ASSUME NEW S \in SUBSET Ids, NEW from, NEW to, Shift(S, from, to), KeepsTries(S),
             S # {}
      PROVE  /\ Lifecycle!Move(S, from, to)
             /\ [i \in Ids |-> Tries(i)]' = [i \in Ids |-> Tries(i)]
    BY <1>9, ShiftIsMove, TriesKept
<1>10. ASSUME NEW S \in SUBSET Ids, S # {}, KeepsTries(S),
              Shift(S, "delayed", "waiting") \/ Shift(S, "reserved", "timeout")
       PROVE  Lifecycle!Forward
    BY <1>9, <1>10 DEF Lifecycle!Forward
<1>11. ASSUME NEW S \in SUBSET Ids, S # {}, KeepsTries(S),
              NEW from \in {"timeout", "failed"}, Shift(S, from, "waiting")
       PROVE  Lifecycle!Reload
    BY <1>9, <1>11 DEF Lifecycle!Reload
<1>12. ASSUME NEW S \in SUBSET Ids, NEW from, NEW to, Shift(S, from, to), S = {}
       PROVE  UNCHANGED Lifecycle!vars
    BY <1>12, QuietStutters
<1>13. CASE \/ One("none", "waiting") \/ One("none", "delayed") \/ One("waiting", "reserved")
            \/ One("reserved", "done") \/ One("reserved", "dropped") \/ One("reserved", "waiting")
            \/ Retried \/ GivenUp \/ One("delayed", "canceled")
    BY <1>3, <1>4, <1>5, <1>6, <1>7, <1>8, <1>13 DEF One, Retried, GivenUp, Lifecycle!Next
<1>14. CASE \/ Many("delayed", "waiting") \/ Many("reserved", "timeout")
            \/ Many("timeout", "waiting") \/ Many("failed", "waiting")
    BY <1>10, <1>11, <1>12, <1>14 DEF Many, Lifecycle!Next
<1>15. CASE Quiet
    BY <1>15, QuietStutters DEF Quiet
<1> QED  BY <1>13, <1>14, <1>15 DEF LifeStep

\* As long as handlers finish before their lease ends, every step of producers,
\* consumers, forwarders and managers, with any batch a script takes and any
\* crash, is a row of the documented transition matrix or moves no message, and
\* a message fails only when its retries are used up.
THEOREM ImplementsLifecycle ==
    ASSUME Regular
    PROVE  Spec => FollowsLifecycle
<1>1. Init => Lifecycle!Init
    <2> SUFFICES ASSUME Init PROVE Lifecycle!Init
        OBVIOUS
    <2>1. DOMAIN msg = {} /\ Agrees
        BY InitLease DEF Init, StoreInit, EmptyMap, LeaseInv, Lease
    <2>2. \A x \in Ids : Position(x) = "none" /\ Tries(x) = 0
        BY <2>1, AgreesPositions DEF PositionsArePlaces, Place, Tries
    <2> QED  BY <2>2 DEF Lifecycle!Init
<1>2. LeaseInv /\ LeaseInv' /\ [Next]_vars => [Lifecycle!Next]_(Lifecycle!vars)
    <2> SUFFICES ASSUME LeaseInv, LeaseInv', [Next]_vars
                 PROVE  [Lifecycle!Next]_(Lifecycle!vars)
        OBVIOUS
    <2>1. LifeStep
        BY NextLease
    <2>2. Agrees /\ Agrees'
        BY DEF LeaseInv, Lease
    <2> QED  BY <2>1, <2>2, StepFollows
<1> QED  BY <1>1, <1>2, LeaseHolds, PTL DEF Spec, FollowsLifecycle, Lifecycle!Spec
-----------------------------------------------------------------------------
(* How often the handler of a message is called. *)

\* Places from which a message may still be delivered.
Ahead == {"none", "waiting", "delayed"}

\* Every call of the handler but the last was answered by a retry, which the
\* stored entity counts; a message that is ahead of its next call, or claimed
\* for it, has used up no call that its retries did not pay for.
Budget ==
    /\ \A id \in Ids : /\ runs[id] <= Tries(id) + 1
                       /\ Place(id) \in Ahead => runs[id] <= Tries(id)
    /\ \A w \in Workers : wk[w].pc = "claimed" => runs[wk[w].id] <= Tries(wk[w].id)

\* Only a retry, which is counted, brings a message back.
LEMMA ComesBackCounted ==
    ASSUME StoreTypeOK, LifeStep, "reload" \notin Mgmt, "REQUEUE" \notin Results,
           NEW x \in Ids
    PROVE  /\ Tries(x)' >= Tries(x)
           /\ Place(x)' \in Ahead => Place(x) \in Ahead \/ Tries(x)' = Tries(x) + 1
<1>1. Tries(x) \in Nat
    BY TriesType
<1>2. ASSUME NEW S, NEW from, NEW to, Shift(S, from, to), KeepsTries(S),
             from \in Ahead \/ to \notin Ahead
      PROVE  Tries(x)' = Tries(x) /\ (Place(x)' \in Ahead => Place(x) \in Ahead)
    BY <1>2 DEF Shift, KeepsTries
<1>3. ASSUME NEW from, NEW to, One(from, to) \/ Many(from, to), from \in Ahead \/ to \notin Ahead
      PROVE  Tries(x)' = Tries(x) /\ (Place(x)' \in Ahead => Place(x) \in Ahead)
    BY <1>2, <1>3 DEF One, Many
<1>4. ASSUME Retried
      PROVE  \/ Tries(x)' = Tries(x) + 1
             \/ Tries(x)' = Tries(x) /\ Place(x)' = Place(x)
    BY <1>4 DEF Retried, Shift
<1>5. ASSUME GivenUp
      PROVE  Tries(x)' = Tries(x) /\ (Place(x)' \in Ahead => Place(x) \in Ahead)
    <2>1. "failed" \notin Ahead
        BY DEF Ahead
    <2> QED  BY <1>2, <1>5, <2>1 DEF GivenUp
<1>6. ASSUME Quiet PROVE Tries(x)' = Tries(x) /\ Place(x)' = Place(x)
    BY <1>6 DEF Quiet, Shift
<1>7. /\ {"none", "waiting", "delayed"} \subseteq Ahead
      /\ \A to \in {"done", "dropped", "timeout"} : to \notin Ahead
    BY DEF Ahead
<1>8. \/ Retried
      \/ /\ Tries(x)' = Tries(x)
         /\ Place(x)' \in Ahead => Place(x) \in Ahead
    BY <1>3, <1>5, <1>6, <1>7 DEF LifeStep
<1> QED  BY <1>1, <1>4, <1>8

\* Only loadMessage leads to a call of the handler.
LEMMA OnlyLoadRuns ==
    ASSUME [Next]_vars, \A w \in Workers : ~Load(w)
    PROVE  UNCHANGED runs
BY DEF Next, vars, envVars, Push, PushResend, PushCall, Worker, Crash, Pop, PopNil,
   PopForget, Handle, Commit, RetryLoad, RetryCommit, HookReturns, HookPanics, Forward,
   ForwardDelayed, ForwardTimeout, ForwardFails, Manage, Cancel, MgrRetryLoad,
   MgrRetryScript, ReloadStart, ReloadStep, Flush, ManagerCrash, Tick, TtlRunsDown,
   KeyExpires

\* Having loaded the body, a worker has claimed nothing any more.
LEMMA LoadHandles ==
    ASSUME wk \in [Workers -> WorkerType], NEW w \in Workers, Load(w)
    PROVE  \E r : Goto(w, r) /\ r.pc # "claimed"
<1>1. CASE wk[w].id \in DOMAIN msg
    <2> DEFINE r == [wk[w] EXCEPT !.pc = "handling", !.attempts = msg[wk[w].id].attempts]
    <2>1. Goto(w, r)
        BY <1>1 DEF Load
    <2>2. r.pc = "handling"
        BY DEF WorkerType
    <2> HIDE DEF r
    <2> QED  BY <2>1, <2>2
<1>2. CASE wk[w].id \notin DOMAIN msg
    <2> DEFINE r == [wk[w] EXCEPT !.pc = "vanished"]
    <2>1. Goto(w, r)
        BY <1>2 DEF Load
    <2>2. r.pc = "vanished"
        BY DEF WorkerType
    <2> HIDE DEF r
    <2> QED  BY <2>1, <2>2
<1> QED  BY <1>1, <1>2

\* A worker that has claimed a message keeps it or has just taken it from waiting.
LEMMA ClaimsFromWaiting ==
    ASSUME LeaseInv, [Next]_vars, NEW v \in Workers, wk'[v].pc = "claimed"
    PROVE  wk'[v] = wk[v] \/ \E x \in Ids : x = wk'[v].id /\ Place(x) = "waiting"
<1>1. wk \in [Workers -> WorkerType] /\ StoreTypeOK /\ Agrees
    BY DEF LeaseInv, Inv, TypeOK, Lease
<1>2. ASSUME NEW w \in Workers, NEW r, Goto(w, r), r.pc # "claimed"
      PROVE  wk'[v] = wk[v]
    BY <1>1, <1>2 DEF Goto
<1>3. IdleWorker \in WorkerType /\ IdleWorker.pc = "idle"
    BY IdleWorkerType
<1>4. ASSUME NEW w \in Workers, Pop(w)
      PROVE  wk'[v] = wk[v] \/ \E x \in Ids : x = wk'[v].id /\ Place(x) = "waiting"
    <2>1. PICK id \in Ids : /\ popScript(id, now + HandleTimeout)
                           /\ Goto(w, [IdleWorker EXCEPT !.pc = "claimed", !.id = id])
        BY <1>4 DEF Pop
    <2>2. id \in Range(waiting) /\ id \in DOMAIN msg
        BY <2>1 DEF popScript, Range
    <2>3. Place(id) = "waiting"
        BY <1>1, <2>2 DEF Agrees, Place
    <2>4. [IdleWorker EXCEPT !.pc = "claimed", !.id = id].id = id
        BY DEF IdleWorker
    <2> DEFINE r == [IdleWorker EXCEPT !.pc = "claimed", !.id = id]
    <2>5. wk' = [wk EXCEPT ![w] = r] /\ r.id = id
        BY <2>1, <2>4 DEF Goto
    <2> HIDE DEF r
    <2> QED  BY <1>1, <2>3, <2>5
<1>5. ASSUME NEW w \in Workers, Load(w) PROVE wk'[v] = wk[v]
    BY <1>1, <1>2, <1>5, LoadHandles
<1>6. ASSUME NEW w \in Workers, PopForget(w) \/ HookReturns(w) \/ Crash(w)
      PROVE  wk'[v] = wk[v]
    BY <1>2, <1>3, <1>6 DEF PopForget, HookReturns, Crash
<1>7. ASSUME NEW w \in Workers
      PROVE  /\ Attempted(wk[w]).pc # "claimed"
             /\ [Attempted(wk[w]) EXCEPT !.rec = TRUE].pc # "claimed"
             /\ \A o : [wk[w] EXCEPT !.pc = "commit", !.op = o].pc # "claimed"
             /\ Committed(w).pc # "claimed"
             /\ [Committed(w) EXCEPT !.body = NoBody, !.score = 0].pc # "claimed"
             /\ \A b, s : [wk[w] EXCEPT !.pc = "retry", !.body = b, !.score = s].pc # "claimed"
    BY <1>1 DEF WorkerType, Attempted, Committed
<1>8. ASSUME NEW w \in Workers, Handle(w) PROVE wk'[v] = wk[v]
    <2>1. PICK r : Goto(w, r) /\ r.pc # "claimed"
        <3>1. Results \subseteq Outcomes
            BY DeliveryAssumption
        <3> QED  BY <1>7, <1>8, <3>1 DEF Handle, Outcomes
    <2> QED  BY <1>2, <2>1
<1>9. ASSUME NEW w \in Workers, Commit(w) PROVE wk'[v] = wk[v]
    <2>1. Goto(w, Committed(w)) \/ UNCHANGED wk
        BY <1>9 DEF Commit, ReplyOrResend
    <2> QED  BY <1>2, <1>7, <2>1
<1>10. ASSUME NEW w \in Workers, RetryLoad(w) PROVE wk'[v] = wk[v]
    <2>1. \/ \E b, s : Goto(w, [wk[w] EXCEPT !.pc = "retry", !.body = b, !.score = s])
          \/ Goto(w, IdleWorker)
        BY <1>10 DEF RetryLoad
    <2> QED  BY <1>2, <1>3, <1>7, <2>1
<1>11. ASSUME NEW w \in Workers, RetryCommit(w) PROVE wk'[v] = wk[v]
    <2>1. \/ Goto(w, [Committed(w) EXCEPT !.body = NoBody, !.score = 0])
          \/ Goto(w, IdleWorker) \/ UNCHANGED wk
        BY <1>11 DEF RetryCommit, ReplyOrResend
    <2> QED  BY <1>2, <1>3, <1>7, <2>1
<1>12. ASSUME NEW w \in Workers, HookPanics(w) PROVE wk'[v] = wk[v]
    <2>1. Goto(w, IdleWorker) \/ Goto(w, [Attempted(wk[w]) EXCEPT !.rec = TRUE])
        BY <1>12 DEF HookPanics
    <2> QED  BY <1>2, <1>3, <1>7, <2>1
<1>13. ASSUME \A w \in Workers : ~(Worker(w) \/ Crash(w)) PROVE wk' = wk
    BY <1>13 DEF Next, vars, envVars, Push, PushResend, PushCall, Forward,
       ForwardDelayed, ForwardTimeout, ForwardFails, Manage, Cancel, MgrRetryLoad,
       MgrRetryScript, ReloadStart, ReloadStep, Flush, ManagerCrash, Tick, TtlRunsDown,
       KeyExpires
<1>14. ASSUME NEW w \in Workers, PopNil(w) PROVE wk' = wk
    BY <1>14 DEF PopNil
<1> QED  BY <1>4, <1>5, <1>6, <1>8, <1>9, <1>10, <1>11, <1>12, <1>13, <1>14 DEF Worker

LEMMA LoadCounts ==
    ASSUME LeaseInv, NEW w \in Workers, Load(w)
    PROVE  /\ wk[w].id \in Ids /\ wk[w].id \in DOMAIN reserved
           /\ \A x \in Ids \ {wk[w].id} : runs'[x] = runs[x]
           /\ runs'[wk[w].id] <= runs[wk[w].id] + 1
<1> DEFINE x == wk[w].id
<1>1. x \in Ids /\ x \in DOMAIN reserved /\ x \in DOMAIN msg /\ runs \in [Ids -> Nat]
    BY AgreesPlaces DEF Load, Holds, LeaseInv, Inv, TypeOK, Lease, Leased
<1>2. runs' = [runs EXCEPT ![x] = IF @ < MaxRuns THEN @ + 1 ELSE @]
    BY <1>1 DEF Load
<1> QED  BY <1>1, <1>2

LEMMA BudgetStep ==
    ASSUME Regular, "reload" \notin Mgmt, "REQUEUE" \notin Results,
           LeaseInv, LeaseInv', Budget, [Next]_vars
    PROVE  Budget'
<1>1. /\ StoreTypeOK /\ StoreTypeOK' /\ runs \in [Ids -> Nat] /\ runs' \in [Ids -> Nat]
    BY DEF LeaseInv, Inv, TypeOK
<1>2. \A x \in Ids : Tries(x) \in Nat /\ Tries(x)' \in Nat
    <2>1. \A x \in Ids : Tries(x) \in Nat
        BY <1>1, TriesType
    <2>2. \A x \in Ids : Tries(x)' \in Nat
        BY <1>1 DEF StoreTypeOK, Tries, Entity
    <2> QED  BY <2>1, <2>2
<1>3. \A x \in Ids : /\ Tries(x)' >= Tries(x)
                     /\ Place(x)' \in Ahead => Place(x) \in Ahead \/ Tries(x)' = Tries(x) + 1
    BY <1>1, NextLease, ComesBackCounted
<1>4. \A v \in Workers : wk'[v].pc = "claimed" => wk'[v].id \in Ids
    BY DEF LeaseInv, Inv, TypeOK
<1>5. CASE \A w \in Workers : ~Load(w)
    <2>1. runs' = runs
        BY <1>5, OnlyLoadRuns
    <2>2. \A x \in Ids : /\ runs'[x] <= Tries(x)' + 1
                         /\ Place(x)' \in Ahead => runs'[x] <= Tries(x)'
        BY <1>1, <1>2, <1>3, <2>1 DEF Budget
    <2>3. ASSUME NEW v \in Workers, wk'[v].pc = "claimed", NEW x \in Ids, x = wk'[v].id
          PROVE  runs'[x] <= Tries(x)'
        <3>1. wk'[v] = wk[v] \/ Place(x) = "waiting"
            BY <2>3, ClaimsFromWaiting
        <3>2. runs[x] <= Tries(x)
            BY <2>3, <3>1 DEF Budget, Ahead
        <3> QED  BY <1>1, <1>2, <1>3, <2>1, <3>2
    <2> QED  BY <1>4, <2>2, <2>3 DEF Budget
<1>6. ASSUME NEW w \in Workers, Load(w)
      PROVE  Budget'
    <2>1. PICK x : x = wk[w].id
        OBVIOUS
    <2>2. /\ x \in Ids /\ x \in DOMAIN reserved
          /\ \A y \in Ids \ {x} : runs'[y] = runs[y]
          /\ runs'[x] <= runs[x] + 1
        BY <1>6, <2>1, LoadCounts
    <2>3. UNCHANGED storeVars /\ wk[w].pc = "claimed"
        BY <1>6 DEF Load
    <2>4. \A y \in Ids : Tries(y)' = Tries(y) /\ Place(y)' = Place(y)
        BY <2>3 DEF storeVars, Tries, Place
    <2>5. Place(x) = "reserved" /\ runs[x] <= Tries(x)
        BY <2>1, <2>2, <2>3, AgreesPlaces DEF LeaseInv, Lease, Budget
    <2>6. \A y \in Ids : /\ runs'[y] <= Tries(y)' + 1
                         /\ Place(y)' \in Ahead => runs'[y] <= Tries(y)'
        BY <1>1, <1>2, <2>2, <2>4, <2>5 DEF Budget, Ahead
    <2>7. ASSUME NEW v \in Workers, wk'[v].pc = "claimed", NEW y \in Ids, y = wk'[v].id
          PROVE  runs'[y] <= Tries(y)'
        <3>1. wk'[v] = wk[v] \/ Place(y) = "waiting"
            BY <2>7, ClaimsFromWaiting
        <3>2. CASE y # x
            <4>1. runs[y] <= Tries(y)
                BY <2>7, <3>1 DEF Budget, Ahead
            <4> QED  BY <2>2, <2>4, <3>2, <4>1
        <3>3. CASE y = x
            <4>1. wk'[v] = wk[v]
                BY <2>5, <3>1, <3>3
            <4>2. v = w
                BY <2>1, <2>3, <2>7, <3>3, <4>1 DEF LeaseInv, Lease, Exclusive, Holds
            <4>3. wk'[w].pc # "claimed"
                <5>1. wk \in [Workers -> WorkerType]
                    BY DEF LeaseInv, Inv, TypeOK
                <5>2. PICK r : Goto(w, r) /\ r.pc # "claimed"
                    BY <1>6, <5>1, LoadHandles
                <5> QED  BY <5>1, <5>2 DEF Goto
            <4> QED  BY <2>7, <4>2, <4>3
        <3> QED  BY <3>2, <3>3
    <2> QED  BY <1>4, <2>6, <2>7 DEF Budget
<1> QED  BY <1>5, <1>6

\* As long as handlers finish before their lease ends and nobody requeues or
\* reloads, the handler of a message is called at most MaxAttempts + 1 times:
\* the count that AttemptsAllowed reads back after a crash, a late forwarder or
\* a pop by another process is never behind the calls that were made.
THEOREM CallsBounded ==
    ASSUME Regular, "reload" \notin Mgmt, "REQUEUE" \notin Results
    PROVE  Spec => []RunsBounded
<1>1. Init => Budget
    <2> SUFFICES ASSUME Init PROVE Budget
        OBVIOUS
    <2>1. DOMAIN msg = {} /\ \A x \in Ids : runs[x] = 0
        BY DEF Init, StoreInit, EmptyMap
    <2>2. \A w \in Workers : wk[w].pc # "claimed"
        <3> HIDE DEF IdleWorker
        <3> QED  BY IdleWorkerType DEF Init
    <2> QED  BY <2>1, <2>2 DEF Budget, Tries
<1>2. LeaseInv /\ LeaseInv' /\ Budget /\ [Next]_vars => Budget'
    BY BudgetStep
<1>3. LeaseInv /\ Budget => RunsBounded
    <2> SUFFICES ASSUME LeaseInv, Budget, NEW id \in Ids PROVE runs[id] <= MaxAttempts + 1
        BY DEF RunsBounded
    <2>1. Tries(id) \in Nat /\ Tries(id) <= MaxAttempts /\ runs[id] \in Nat
        BY TriesType DEF LeaseInv, Inv, TypeOK, Lease, Tallied
    <2> QED  BY <2>1, DeliveryAssumption DEF Budget
<1> QED  BY <1>1, <1>2, <1>3, LeaseHolds, PTL DEF Spec
=============================================================================
