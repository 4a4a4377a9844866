----------------------------- MODULE QueueStore -----------------------------
(***************************************************************************)
(* One channel of the Redis keyspace and the Lua scripts that change it    *)
(* (pkg/queue/lua.go).  Redis runs a script atomically, so each script is  *)
(* one operator that constrains every variable of the store; the modules   *)
(* that extend this one decide who runs which script, and when.            *)
(*                                                                         *)
(* A list is kept in service order: Head is the element RPOP takes and     *)
(* Append is LPUSH.  A sorted set is a function from its members to their  *)
(* scores.  The message keys are a function too: a key that was deleted or *)
(* has expired is not in its domain.  Of a message only what the scripts   *)
(* and the consumer decide on is kept: its status, its attempts and        *)
(* whether the key carries an expiry.  Every stored body is one that       *)
(* Message.Encode or cjson.encode wrote, so the scripts' branches for a    *)
(* body that does not decode are left out.                                 *)
(***************************************************************************)
EXTENDS Integers, Sequences, FiniteSets, Functions

CONSTANTS
    Ids,    \* message ids, as GenerateID hands them out
    Batch   \* ids one script call moves at most (100 in lua.go)

ASSUME BatchAssumption == Batch \in Nat \ {0}

\* md5 sums in hexadecimal
ASSUME IdsAssumption == IsFiniteSet(Ids)

VARIABLES
    waiting, timeout, failed,   \* lists
    delayed, reserved,          \* sorted sets: id -> due time, id -> lease end
    msg                         \* message keys: id -> entity

storeVars == <<waiting, timeout, failed, delayed, reserved, msg>>

Statuses == {"waiting", "reserved", "delayed", "timeout",
             "failed", "canceled", "dropped", "done"}

\* The statuses reloadScript takes for a message that needs no more work.
Terminal == {"done", "dropped", "canceled"}

\* What is left of a key's time to live: it has none, more than half a
\* second, or so little that the TTL command rounds it down to 0.
Expiries == {"none", "far", "near"}

Entity == [status : Statuses, attempts : Nat, exp : Expiries]

-----------------------------------------------------------------------------
(* Redis data types. *)

\* SET, ZADD
Put(f, k, v) == [x \in DOMAIN f \cup {k} |-> IF x = k THEN v ELSE f[x]]

\* DEL of message keys, ZREM
Del(f, S) == [x \in DOMAIN f \ S |-> f[x]]

\* The j-th smallest member of the finite set of numbers K.
Nth(K, j) == CHOOSE i \in K : Cardinality({x \in K : x <= i}) = j

\* LREM of every occurrence of every member of S, order kept.
LRem(q, S) ==
    LET K == {i \in 1..Len(q) : q[i] \notin S}
    IN  [j \in 1..Cardinality(K) |-> q[Nth(K, j)]]

\* A sorted set: members drawn from Ids, integer scores.
IsZset(z) == DOMAIN z \subseteq Ids /\ z \in [DOMAIN z -> Int]

\* Mutant: the last index taken for a length.
LimitOffByOne(n) == IF n < Batch THEN n ELSE Batch - 1

\* How many of n candidates one call takes.
Limit(n) == IF n < Batch THEN n ELSE Batch

\* ZRANGEBYSCORE z -inf t LIMIT 0 Batch: the lowest scores first.  Members
\* with one score are ordered by their ids, which are md5 sums: any order.
DueBatches(z, t) ==
    LET due == {x \in DOMAIN z : z[x] <= t}
        n   == Limit(Cardinality(due))
    IN  {s \in [1..n -> due] :
            /\ IsInjective(s)
            /\ \A i, j \in 1..n : i < j => z[s[i]] <= z[s[j]]
            /\ \A x \in due \ Range(s) : \A i \in 1..n : z[s[i]] <= z[x]}

-----------------------------------------------------------------------------
(* Rewriting an entity: TTL is read, SET clears it, EXPIRE restores it     *)
(* `if ttl > 0'.                                                           *)

\* The expiry SET leaves behind: a TTL that reads 0 is not put back.
Kept(exp) == IF exp = "near" THEN "none" ELSE exp

\* The ids of S that still have an entity get status st.
Rewrite(S, st) ==
    [x \in DOMAIN msg |->
        IF x \in S THEN [msg[x] EXCEPT !.status = st, !.exp = Kept(@)]
                   ELSE msg[x]]

\* Mutant: SET without looking at the TTL first.
OverwriteForGood(id, body) == Put(msg, id, body)

\* SET of a whole body by retryByIDScript; a key that has expired comes back
\* without one.
Overwrite(id, body) ==
    Put(msg, id, [body EXCEPT !.exp =
                    IF id \in DOMAIN msg THEN Kept(msg[id].exp) ELSE "none"])

Missing(S) == S \ DOMAIN msg

-----------------------------------------------------------------------------
(* The scripts. *)

\* mode is "waiting" or "delayed"
Enqueue(id, mode, score, wait, del) ==
    IF mode = "waiting"
    THEN waiting' = Append(wait, id) /\ delayed' = del
    ELSE waiting' = wait /\ delayed' = Put(del, id, score)

pushScript(id, entity, mode, score) ==
    /\ msg' = Put(msg, id, entity)
    /\ Enqueue(id, mode, score, waiting, delayed)
    /\ UNCHANGED <<timeout, failed, reserved>>

\* delayed -> waiting for one batch of members due by t.
moveScript(t) ==
    \E s \in DueBatches(delayed, t) :
        /\ delayed' = Del(delayed, Range(s))
        /\ msg' = Rewrite(Range(s), "waiting")
        /\ waiting' = LRem(waiting, Missing(Range(s)))
                        \o LRem(s, Missing(Range(s)))
        /\ UNCHANGED <<timeout, failed, reserved>>

\* reserved -> timeout for one batch of leases that ended by t; the status
\* stays as it is.
moveTimeoutScript(t) ==
    \E s \in DueBatches(reserved, t) :
        /\ reserved' = Del(reserved, Range(s))
        /\ timeout' = timeout \o LRem(s, Missing(Range(s)))
        /\ UNCHANGED <<waiting, failed, delayed, msg>>

\* Nothing in waiting has an entity: the loop empties the list.
popScriptNil ==
    /\ Range(waiting) \cap DOMAIN msg = {}
    /\ waiting' = <<>>
    /\ UNCHANGED <<timeout, failed, delayed, reserved, msg>>

\* The oldest id that has an entity is claimed, dead ids before it are lost.
popScript(id, deadline) ==
    \E k \in 1..Len(waiting) :
        /\ waiting[k] = id
        /\ id \in DOMAIN msg
        /\ \A j \in 1..(k - 1) : waiting[j] \notin DOMAIN msg
        /\ waiting' = SubSeq(waiting, k + 1, Len(waiting))
        /\ msg' = Rewrite({id}, "reserved")
        /\ reserved' = Put(reserved, id, deadline)
        /\ UNCHANGED <<timeout, failed, delayed>>

\* The four commits.  None looks at whether ZREM removed anything.
ackScript(id) ==
    /\ reserved' = Del(reserved, {id})
    /\ msg' = Rewrite({id}, "done")
    /\ UNCHANGED <<waiting, timeout, failed, delayed>>

dropScript(id) ==
    /\ reserved' = Del(reserved, {id})
    /\ msg' = Rewrite({id}, "dropped")
    /\ UNCHANGED <<waiting, timeout, failed, delayed>>

failScript(id) ==
    /\ reserved' = Del(reserved, {id})
    /\ msg' = Rewrite({id}, "failed")
    /\ failed' = IF id \in DOMAIN msg THEN Append(failed, id) ELSE failed
    /\ UNCHANGED <<waiting, timeout, delayed>>

\* Mutant: the id is pushed, the entity is not rewritten.
requeueWithoutStatus(id) ==
    /\ reserved' = Del(reserved, {id})
    /\ waiting' = IF id \in DOMAIN msg THEN Append(waiting, id) ELSE waiting
    /\ UNCHANGED <<timeout, failed, delayed, msg>>

requeueScript(id) ==
    /\ reserved' = Del(reserved, {id})
    /\ msg' = Rewrite({id}, "waiting")
    /\ waiting' = IF id \in DOMAIN msg THEN Append(waiting, id) ELSE waiting
    /\ UNCHANGED <<timeout, failed, delayed>>

\* Is the id in one of the buckets the script removes it from?
retryFinds(id) ==
    id \in DOMAIN reserved \cup Range(waiting) \cup DOMAIN delayed
             \cup Range(timeout) \cup Range(failed)

\* Mutant: the id is pushed to waiting before LREM clears the lists of it.
retryPushesFirst(id, body, mode, score) ==
    /\ retryFinds(id)
    /\ msg' = Overwrite(id, body)
    /\ reserved' = Del(reserved, {id})
    /\ delayed' = IF mode = "delayed" THEN Put(delayed, id, score)
                                      ELSE Del(delayed, {id})
    /\ waiting' = LRem(waiting, {id})
    /\ timeout' = LRem(timeout, {id})
    /\ failed' = LRem(failed, {id})

\* Returns 1: `body', written by the caller from an earlier read, replaces
\* the entity.  A leased id is taken from reserved alone (the fast path).
retryByIDScript(id, body, mode, score) ==
    /\ retryFinds(id)
    /\ msg' = Overwrite(id, body)
    /\ IF id \in DOMAIN reserved
       THEN /\ reserved' = Del(reserved, {id})
            /\ Enqueue(id, mode, score, waiting, delayed)
            /\ UNCHANGED <<timeout, failed>>
       ELSE /\ timeout' = LRem(timeout, {id})
            /\ failed' = LRem(failed, {id})
            /\ Enqueue(id, mode, score, LRem(waiting, {id}), Del(delayed, {id}))
            /\ UNCHANGED reserved

\* PTTL and PEXPIRE keep the expiry exactly.
cancelByIDScript(id) ==
    IF id \in DOMAIN delayed
    THEN /\ delayed' = Del(delayed, {id})
         /\ msg' = [x \in DOMAIN msg |->
                        IF x = id THEN [msg[x] EXCEPT !.status = "canceled"]
                                  ELSE msg[x]]
         /\ UNCHANGED <<waiting, timeout, failed, reserved>>
    ELSE UNCHANGED storeVars

\* The oldest ids of the source list, as many as one call takes.
reloadBatch(source) == SubSeq(source, 1, Limit(Len(source)))

reloadRest(source) == SubSeq(source, Len(reloadBatch(source)) + 1, Len(source))

\* Mutant: stale entries of the timeout list are reloaded like the others.
reloadSkipsMissing(name, S) == Missing(S)

\* The ids of S that reloadScript takes out of waiting again: their entity is
\* gone or, from the timeout list only, says the work is over.
reloadSkips(name, S) ==
    Missing(S) \cup
        IF name = "timeout"
        THEN {x \in S \cap DOMAIN msg : msg[x].status \in Terminal}
        ELSE {}

\* Number of ids the call counts as moved.
reloadCount(name, source) ==
    LET s == reloadBatch(source)
    IN  Len(LRem(s, reloadSkips(name, Range(s))))

reloadScript(name, source) ==
    LET s    == reloadBatch(source)
        skip == reloadSkips(name, Range(s))
    IN  /\ waiting' = LRem(waiting \o s, skip)
        /\ msg' = Rewrite(Range(s) \ skip, "waiting")

reloadTimeoutScript ==
    /\ reloadScript("timeout", timeout)
    /\ timeout' = reloadRest(timeout)
    /\ UNCHANGED <<failed, delayed, reserved>>

reloadFailedScript ==
    /\ reloadScript("failed", failed)
    /\ failed' = reloadRest(failed)
    /\ UNCHANGED <<timeout, delayed, reserved>>

-----------------------------------------------------------------------------
(* Plain commands the driver sends. *)

\* ZREM of one id from reserved.
zremReserved(id) ==
    /\ reserved' = Del(reserved, {id})
    /\ UNCHANGED <<waiting, timeout, failed, delayed, msg>>

EmptyMap == [x \in {} |-> 0]

\* DEL of one bucket key.
delBucket(name) ==
    /\ waiting'  = IF name = "waiting"  THEN <<>> ELSE waiting
    /\ timeout'  = IF name = "timeout"  THEN <<>> ELSE timeout
    /\ failed'   = IF name = "failed"   THEN <<>> ELSE failed
    /\ delayed'  = IF name = "delayed"  THEN EmptyMap ELSE delayed
    /\ reserved' = IF name = "reserved" THEN EmptyMap ELSE reserved
    /\ UNCHANGED msg

\* Redis lets the expiry of a message key come closer, then drops the key.
ttlRunsDown(id) ==
    /\ id \in DOMAIN msg
    /\ msg[id].exp = "far"
    /\ msg' = [msg EXCEPT ![id].exp = "near"]
    /\ UNCHANGED <<waiting, timeout, failed, delayed, reserved>>

keyExpires(id) ==
    /\ id \in DOMAIN msg
    /\ msg[id].exp = "near"
    /\ msg' = Del(msg, {id})
    /\ UNCHANGED <<waiting, timeout, failed, delayed, reserved>>

-----------------------------------------------------------------------------
StoreInit ==
    /\ waiting = <<>> /\ timeout = <<>> /\ failed = <<>>
    /\ delayed = EmptyMap /\ reserved = EmptyMap
    /\ msg = EmptyMap

StoreTypeOK ==
    /\ waiting \in Seq(Ids) /\ timeout \in Seq(Ids) /\ failed \in Seq(Ids)
    /\ IsZset(delayed) /\ IsZset(reserved)
    /\ DOMAIN msg \subseteq Ids /\ msg \in [DOMAIN msg -> Entity]

\* The members of one bucket, by the name Flush and Info use.
Bucket(name) ==
    CASE name = "waiting"  -> Range(waiting)
      [] name = "timeout"  -> Range(timeout)
      [] name = "failed"   -> Range(failed)
      [] name = "delayed"  -> DOMAIN delayed
      [] name = "reserved" -> DOMAIN reserved

Buckets == {"waiting", "reserved", "delayed", "timeout", "failed"}

Placed == Range(waiting) \cup Range(timeout) \cup Range(failed)
            \cup DOMAIN delayed \cup DOMAIN reserved

\* The work on a message is over or its id is still in a bucket.
Accounted(id) ==
    id \in DOMAIN msg /\ (msg[id].status \in Terminal \/ id \in Placed)
=============================================================================
