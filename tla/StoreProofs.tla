---------------------------- MODULE StoreProofs ----------------------------
(***************************************************************************)
(* Facts about the Redis data types of QueueStore and, per script, what it *)
(* does to the type of the store and to the messages in it.                *)
(***************************************************************************)
EXTENDS QueueStore, FiniteSetTheorems, SequenceTheorems, TLAPS

-----------------------------------------------------------------------------
(* Lists. *)

\* The numbering Nth of a finite set of numbers reaches each member once:
\* LREM keeps every index that it is meant to keep.
LEMMA NthEnumerates ==
    ASSUME NEW n \in Nat, NEW K \in SUBSET (1..n)
    PROVE  /\ Cardinality(K) \in Nat
           /\ \A j \in 1..Cardinality(K) : Nth(K, j) \in K
           /\ \A i \in K : \E j \in 1..Cardinality(K) : Nth(K, j) = i
           /\ \A i, j \in 1..Cardinality(K) : Nth(K, i) = Nth(K, j) => i = j
<1> DEFINE Below(i) == {x \in K : x <= i}
           R == [i \in K |-> Cardinality(Below(i))]
           c == Cardinality(K)
<1>1. IsFiniteSet(K) /\ c \in Nat
    <2>1. IsFiniteSet(1..n)
        BY FS_Interval
    <2>2. IsFiniteSet(K)
        BY <2>1, FS_Subset
    <2> QED  BY <2>2, FS_CardinalityType
<1>2. ASSUME NEW i \in K
      PROVE  IsFiniteSet(Below(i)) /\ Cardinality(Below(i)) \in 1..c
    <2>1. Below(i) \in SUBSET K /\ i \in Below(i)
        OBVIOUS
    <2>2. IsFiniteSet(Below(i)) /\ Cardinality(Below(i)) <= c
        BY <1>1, <2>1, FS_Subset
    <2>3. Cardinality(Below(i)) \in Nat /\ Cardinality(Below(i)) # 0
        BY <2>1, <2>2, FS_CardinalityType, FS_EmptySet
    <2> QED  BY <1>1, <2>2, <2>3
<1>3. ASSUME NEW a \in K, NEW b \in K, a < b
      PROVE  Cardinality(Below(a)) # Cardinality(Below(b))
    <2>1. \A x \in K : x \in Int /\ (x <= a => x <= b)
        BY <1>3
    <2>2. Below(a) \in SUBSET Below(b)
        BY <2>1
    <2>3. b \in Below(b) /\ b \notin Below(a)
        BY <1>3, <2>1
    <2> QED  BY <1>2, <2>2, <2>3, FS_Subset
<1>4. R \in Injection(K, 1..c)
    <2>1. R \in [K -> 1..c]
        BY <1>2
    <2>2. \A a, b \in K : R[a] = R[b] => a = b
        <3> SUFFICES ASSUME NEW a \in K, NEW b \in K, R[a] = R[b], a # b
                     PROVE  FALSE
            OBVIOUS
        <3>1. a < b \/ b < a
            OBVIOUS
        <3> QED  BY <1>3, <3>1
    <2> QED  BY <2>1, <2>2 DEF Injection, IsInjective
<1>5. IsFiniteSet(1..c) /\ Cardinality(1..c) = c
    BY <1>1, FS_Interval
<1>6. R \in Surjection(K, 1..c)
    BY <1>4, <1>5, FS_Injection
<1>7. ASSUME NEW j \in 1..c
      PROVE  Nth(K, j) \in K /\ R[Nth(K, j)] = j
    <2>1. \E i \in K : Cardinality(Below(i)) = j
        BY <1>6 DEF Surjection
    <2> QED  BY <2>1 DEF Nth
<1>8. ASSUME NEW i \in K
      PROVE  \E j \in 1..c : Nth(K, j) = i
    <2>1. R[i] \in 1..c
        BY <1>2
    <2>2. Nth(K, R[i]) \in K /\ R[Nth(K, R[i])] = R[i]
        BY <1>7, <2>1
    <2>3. Nth(K, R[i]) = i
        BY <1>4, <2>2 DEF Injection, IsInjective
    <2> QED  BY <2>1, <2>3
<1>9. \A i, j \in 1..c : Nth(K, i) = Nth(K, j) => i = j
    BY <1>7
<1> QED  BY <1>1, <1>7, <1>8, <1>9

\* LREM leaves a list of exactly the other members.
LEMMA LRemRange ==
    ASSUME NEW T, NEW q \in Seq(T), NEW S
    PROVE  LRem(q, S) \in Seq(T) /\ Range(LRem(q, S)) = Range(q) \ S
<1> DEFINE K == {i \in 1..Len(q) : q[i] \notin S}
           c == Cardinality(K)
<1>1. Len(q) \in Nat /\ K \in SUBSET (1..Len(q)) /\ DOMAIN q = 1..Len(q)
    OBVIOUS
<1>2. /\ c \in Nat
      /\ \A j \in 1..c : Nth(K, j) \in K
      /\ \A i \in K : \E j \in 1..c : Nth(K, j) = i
    BY <1>1, NthEnumerates
<1> DEFINE r == [j \in 1..c |-> q[Nth(K, j)]]
<1>3. LRem(q, S) = r
    BY DEF LRem
<1> HIDE DEF c
<1>4. \A i \in K : q[i] \in T
    BY ElementOfSeq
<1>5. r \in [1..c -> T]
    BY <1>2, <1>4
<1>6. r \in Seq(T)
    BY <1>2, <1>5, SeqDef
<1>7. Range(r) = {q[i] : i \in K}
    <2>1. ASSUME NEW j \in 1..c  PROVE r[j] \in {q[i] : i \in K}
        BY <1>2
    <2>2. ASSUME NEW i \in K  PROVE \E j \in 1..c : r[j] = q[i]
        BY <1>2
    <2>3. DOMAIN r = 1..c
        OBVIOUS
    <2> HIDE DEF r, K
    <2> QED  BY <2>1, <2>2, <2>3 DEF Range
<1>8. {q[i] : i \in K} = Range(q) \ S
    BY <1>1 DEF Range
<1> QED  BY <1>3, <1>6, <1>7, <1>8

\* LPUSH adds one member.
LEMMA AppendRange ==
    ASSUME NEW T, NEW q \in Seq(T), NEW e \in T
    PROVE  Append(q, e) \in Seq(T) /\ Range(Append(q, e)) = Range(q) \cup {e}
<1>1. /\ Append(q, e) \in Seq(T)
      /\ Append(q, e) = q \o <<e>>
    BY AppendProperties, AppendIsConcat
<1>2. <<e>> \in Seq(T) /\ Range(<<e>>) = {e}
    BY DEF Range
<1>3. Range(q \o <<e>>) = Range(q) \cup Range(<<e>>)
    BY <1>2, RangeConcatenation
<1> QED  BY <1>1, <1>2, <1>3

\* A list cut in two has its members in one of the pieces.
LEMMA CutRange ==
    ASSUME NEW T, NEW q \in Seq(T), NEW k \in 0..Len(q)
    PROVE  /\ SubSeq(q, 1, k) \in Seq(T)
           /\ SubSeq(q, k + 1, Len(q)) \in Seq(T)
           /\ Len(SubSeq(q, 1, k)) = k
           /\ Range(SubSeq(q, 1, k)) = {q[i] : i \in 1..k}
           /\ Range(q) = Range(SubSeq(q, 1, k))
                            \cup Range(SubSeq(q, k + 1, Len(q)))
<1>1. \A i \in 1..Len(q) : q[i] \in T
    BY ElementOfSeq
<1>2. /\ SubSeq(q, 1, k) \in Seq(T)
      /\ Len(SubSeq(q, 1, k)) = k
      /\ \A i \in 1..k : SubSeq(q, 1, k)[i] = q[i]
    <2>1. \A i \in 1..k : q[i] \in T
        BY <1>1
    <2> QED  BY <2>1, SubSeqProperties
<1>3. SubSeq(q, k + 1, Len(q)) \in Seq(T)
    <2>1. \A i \in (k + 1)..Len(q) : q[i] \in T
        BY <1>1
    <2> QED  BY <2>1, SubSeqProperties
<1>4. q = SubSeq(q, 1, k) \o SubSeq(q, k + 1, Len(q))
    <2>1. /\ 1 \in 1..(Len(q) + 1) /\ k \in (1 - 1)..Len(q)
          /\ Len(q) \in k..Len(q)
        OBVIOUS
    <2> QED  BY <2>1, ConcatAdjacentSubSeq, SubSeqFull
<1>5. Range(q) = Range(SubSeq(q, 1, k)) \cup Range(SubSeq(q, k + 1, Len(q)))
    BY <1>2, <1>3, <1>4, RangeConcatenation
<1>6. Range(SubSeq(q, 1, k)) = {q[i] : i \in 1..k}
    BY <1>2 DEF Range
<1> QED  BY <1>2, <1>3, <1>5, <1>6

-----------------------------------------------------------------------------
(* Lists that hold no id twice. *)

\* LREM leaves no id twice where there was none.
LEMMA LRemOnce ==
    ASSUME NEW T, NEW q \in Seq(T), IsInjective(q), NEW S
    PROVE  IsInjective(LRem(q, S))
<1> DEFINE K == {i \in 1..Len(q) : q[i] \notin S}
           c == Cardinality(K)
           r == [j \in 1..c |-> q[Nth(K, j)]]
<1>1. Len(q) \in Nat /\ K \in SUBSET (1..Len(q)) /\ DOMAIN q = 1..Len(q)
    OBVIOUS
<1>2. /\ \A j \in 1..c : Nth(K, j) \in K
      /\ \A i, j \in 1..c : Nth(K, i) = Nth(K, j) => i = j
    BY <1>1, NthEnumerates
<1>3. LRem(q, S) = r
    BY DEF LRem
<1>4. ASSUME NEW i \in 1..c, NEW j \in 1..c, r[i] = r[j]
      PROVE  i = j
    <2>1. q[Nth(K, i)] = q[Nth(K, j)]
        BY <1>4
    <2>2. Nth(K, i) \in DOMAIN q /\ Nth(K, j) \in DOMAIN q
        BY <1>1, <1>2
    <2>3. Nth(K, i) = Nth(K, j)
        BY <2>1, <2>2 DEF IsInjective
    <2> QED  BY <1>2, <2>3
<1>5. DOMAIN r = 1..c
    OBVIOUS
<1> HIDE DEF r
<1> QED  BY <1>3, <1>4, <1>5 DEF IsInjective

\* Two such lists without a common id make one.
LEMMA ConcatOnce ==
    ASSUME NEW T, NEW q \in Seq(T), NEW r \in Seq(T),
           IsInjective(q), IsInjective(r), Range(q) \cap Range(r) = {}
    PROVE  IsInjective(q \o r)
<1>1. /\ q \o r \in Seq(T) /\ Len(q \o r) = Len(q) + Len(r)
      /\ \A i \in 1..(Len(q) + Len(r)) :
            (q \o r)[i] = IF i <= Len(q) THEN q[i] ELSE r[i - Len(q)]
    BY ConcatProperties
<1>2. /\ Len(q) \in Nat /\ Len(r) \in Nat
      /\ DOMAIN q = 1..Len(q) /\ DOMAIN r = 1..Len(r)
      /\ DOMAIN (q \o r) = 1..(Len(q) + Len(r))
    BY <1>1
<1>3. ASSUME NEW i \in 1..Len(q), NEW j \in 1..Len(r)
      PROVE  q[i] # r[j]
    BY <1>2 DEF Range
<1>4. ASSUME NEW i \in 1..(Len(q) + Len(r)), NEW j \in 1..(Len(q) + Len(r)),
             (q \o r)[i] = (q \o r)[j]
      PROVE  i = j
    <2>1. CASE i <= Len(q) /\ j <= Len(q)
        <3>1. i \in DOMAIN q /\ j \in DOMAIN q /\ q[i] = q[j]
            BY <1>1, <1>2, <1>4, <2>1
        <3> QED  BY <3>1 DEF IsInjective
    <2>2. CASE i > Len(q) /\ j > Len(q)
        <3>1. /\ i - Len(q) \in DOMAIN r /\ j - Len(q) \in DOMAIN r
              /\ r[i - Len(q)] = r[j - Len(q)]
            BY <1>1, <1>2, <1>4, <2>2
        <3>2. i - Len(q) = j - Len(q)
            BY <3>1 DEF IsInjective
        <3> QED  BY <1>2, <3>2
    <2>3. CASE i <= Len(q) /\ j > Len(q)
        <3>1. i \in 1..Len(q) /\ j - Len(q) \in 1..Len(r)
            BY <1>2, <2>3
        <3>2. q[i] = r[j - Len(q)]
            BY <1>1, <1>2, <1>4, <2>3
        <3> QED  BY <1>3, <3>1, <3>2
    <2>4. CASE i > Len(q) /\ j <= Len(q)
        <3>1. j \in 1..Len(q) /\ i - Len(q) \in 1..Len(r)
            BY <1>2, <2>4
        <3>2. q[j] = r[i - Len(q)]
            BY <1>1, <1>2, <1>4, <2>4
        <3> QED  BY <1>3, <3>1, <3>2
    <2> QED  BY <1>2, <2>1, <2>2, <2>3, <2>4
<1> QED  BY <1>2, <1>4 DEF IsInjective

LEMMA AppendOnce ==
    ASSUME NEW T, NEW q \in Seq(T), NEW e \in T \ Range(q), IsInjective(q)
    PROVE  IsInjective(Append(q, e))
<1>1. <<e>> \in Seq(T) /\ Range(<<e>>) = {e} /\ IsInjective(<<e>>)
    <2>1. <<e>> \in Seq(T) /\ Range(<<e>>) = {e}
        BY DEF Range
    <2>2. DOMAIN <<e>> = {1}
        OBVIOUS
    <2> QED  BY <2>1, <2>2 DEF IsInjective
<1>2. Append(q, e) = q \o <<e>>
    BY AppendIsConcat
<1>3. Range(q) \cap Range(<<e>>) = {}
    BY <1>1
<1> QED  BY <1>1, <1>2, <1>3, ConcatOnce

\* A list without repetition falls into two that share no id.
LEMMA CutOnce ==
    ASSUME NEW T, NEW q \in Seq(T), NEW k \in 0..Len(q), IsInjective(q)
    PROVE  /\ IsInjective(SubSeq(q, 1, k)) /\ IsInjective(SubSeq(q, k + 1, Len(q)))
           /\ Range(SubSeq(q, 1, k)) \cap Range(SubSeq(q, k + 1, Len(q))) = {}
<1> DEFINE a == SubSeq(q, 1, k)
           b == SubSeq(q, k + 1, Len(q))
<1>1. Len(q) \in Nat /\ k \in Nat /\ k <= Len(q) /\ DOMAIN q = 1..Len(q)
    OBVIOUS
<1>2. \A i \in 1..Len(q) : q[i] \in T
    BY ElementOfSeq
<1>3. a \in Seq(T) /\ Len(a) = k /\ \A i \in 1..k : a[i] = q[i]
    <2>1. \A i \in 1..k : q[i] \in T
        BY <1>2
    <2> QED  BY <2>1, SubSeqProperties
<1>4. b \in Seq(T) /\ Len(b) = Len(q) - k /\ \A i \in 1..(Len(q) - k) : b[i] = q[k + i]
    <2>1. \A i \in (k + 1)..Len(q) : q[i] \in T
        BY <1>2
    <2>2. /\ b \in Seq(T)
          /\ Len(b) = IF k + 1 <= Len(q) THEN Len(q) - (k + 1) + 1 ELSE 0
          /\ \A i \in 1..(Len(q) - (k + 1) + 1) : b[i] = q[(k + 1) + i - 1]
        BY <2>1, SubSeqProperties
    <2> HIDE DEF b
    <2>3. Len(b) = Len(q) - k
        <3>1. CASE k + 1 <= Len(q)
            <4>1. Len(b) = Len(q) - (k + 1) + 1
                BY <2>2, <3>1
            <4>2. Len(q) - (k + 1) + 1 = Len(q) - k
                BY <1>1
            <4> QED  BY <4>1, <4>2
        <3>2. CASE ~(k + 1 <= Len(q))
            <4>1. Len(b) = 0
                BY <2>2, <3>2
            <4>2. \A m, n \in Nat : m <= n /\ ~(m + 1 <= n) => n - m = 0
                OBVIOUS
            <4>3. Len(q) - k = 0
                BY <1>1, <3>2, <4>2
            <4> QED  BY <4>1, <4>3
        <3> QED  BY <3>1, <3>2
    <2>4. ASSUME NEW i \in 1..(Len(q) - k)  PROVE b[i] = q[k + i]
        <3>1. i \in 1..(Len(q) - (k + 1) + 1) /\ (k + 1) + i - 1 = k + i
            BY <1>1
        <3> QED  BY <2>2, <3>1
    <2> QED  BY <2>2, <2>3, <2>4
<1>5. DOMAIN a = 1..k /\ DOMAIN b = 1..(Len(q) - k)
    BY <1>3, <1>4
<1> HIDE DEF a, b
<1>6. IsInjective(a)
    BY <1>1, <1>3, <1>5 DEF IsInjective
<1>7. IsInjective(b)
    <2> SUFFICES ASSUME NEW i \in 1..(Len(q) - k), NEW j \in 1..(Len(q) - k), b[i] = b[j]
                 PROVE  i = j
        BY <1>5 DEF IsInjective
    <2>1. k + i \in DOMAIN q /\ k + j \in DOMAIN q /\ q[k + i] = q[k + j]
        BY <1>1, <1>4
    <2>2. k + i = k + j
        BY <2>1 DEF IsInjective
    <2> QED  BY <1>1, <2>2
<1>8. ASSUME NEW i \in 1..k, NEW j \in 1..(Len(q) - k)
      PROVE  a[i] # b[j]
    <2>1. i \in DOMAIN q /\ k + j \in DOMAIN q /\ i # k + j
        BY <1>1
    <2> QED  BY <1>3, <1>4, <2>1 DEF IsInjective
<1>9. Range(a) \cap Range(b) = {}
    BY <1>5, <1>8 DEF Range
<1> QED  BY <1>6, <1>7, <1>9 DEF a, b

-----------------------------------------------------------------------------
(* Sorted sets and message keys. *)

LEMMA ZPut ==
    ASSUME NEW z, IsZset(z), NEW id \in Ids, NEW score \in Int
    PROVE  IsZset(Put(z, id, score)) /\ DOMAIN Put(z, id, score) = DOMAIN z \cup {id}
BY DEF IsZset, Put

LEMMA ZDel ==
    ASSUME NEW z, IsZset(z), NEW S
    PROVE  IsZset(Del(z, S)) /\ DOMAIN Del(z, S) = DOMAIN z \ S
BY DEF IsZset, Del

\* What ZRANGEBYSCORE returns is a list of members.
LEMMA DueBatchType ==
    ASSUME NEW z, IsZset(z), NEW t \in Int, NEW s \in DueBatches(z, t)
    PROVE  s \in Seq(Ids) /\ Range(s) \subseteq DOMAIN z
<1> DEFINE due == {x \in DOMAIN z : z[x] <= t}
           n == Limit(Cardinality(due))
<1>1. due \in SUBSET Ids
    BY DEF IsZset
<1>2. Cardinality(due) \in Nat
    BY <1>1, IdsAssumption, FS_Subset, FS_CardinalityType
<1>3. n \in Nat
    BY <1>2, BatchAssumption DEF Limit
<1>4. s \in [1..n -> due]
    BY DEF DueBatches
<1> HIDE DEF n, due
<1>5. s \in [1..n -> Ids]
    BY <1>1, <1>4
<1>6. s \in Seq(Ids)
    BY <1>3, <1>5, SeqDef
<1>7. Range(s) \subseteq due
    BY <1>4 DEF Range
<1> QED  BY <1>6, <1>7 DEF due

\* A rewrite keeps the keys and changes only the ids it is given.
LEMMA RewriteKeys ==
    ASSUME DOMAIN msg \subseteq Ids, msg \in [DOMAIN msg -> Entity],
           NEW S, NEW st \in Statuses
    PROVE  /\ DOMAIN Rewrite(S, st) = DOMAIN msg
           /\ Rewrite(S, st) \in [DOMAIN msg -> Entity]
           /\ \A x \in DOMAIN msg :
                 Rewrite(S, st)[x].status = IF x \in S THEN st ELSE msg[x].status
<1>1. ASSUME NEW x \in DOMAIN msg
      PROVE  /\ [msg[x] EXCEPT !.status = st, !.exp = Kept(@)] \in Entity
             /\ [msg[x] EXCEPT !.status = st, !.exp = Kept(@)].status = st
    BY DEF Entity, Kept, Expiries
<1> QED  BY <1>1 DEF Rewrite

-----------------------------------------------------------------------------
(* The scripts.  Each keeps the store well-typed and keeps every message   *)
(* accounted for.                                                          *)

KeepsAccount(S) == \A i \in S : Accounted(i) => Accounted(i)'

LEMMA EnqueueOk ==
    ASSUME NEW id \in Ids, NEW mode \in {"waiting", "delayed"},
           NEW score \in Int, NEW q \in Seq(Ids), NEW z, IsZset(z),
           Enqueue(id, mode, score, q, z)
    PROVE  /\ waiting' \in Seq(Ids) /\ IsZset(delayed')
           /\ Range(waiting') \cup DOMAIN delayed'
                 = Range(q) \cup DOMAIN z \cup {id}
<1>1. CASE mode = "waiting"
    <2>1. waiting' = Append(q, id) /\ delayed' = z
        BY <1>1 DEF Enqueue
    <2>2. Append(q, id) \in Seq(Ids) /\ Range(Append(q, id)) = Range(q) \cup {id}
        BY AppendRange
    <2>3. IsZset(delayed')
        BY <2>1
    <2> QED  BY <2>1, <2>2, <2>3
<1>2. CASE mode = "delayed"
    <2>1. waiting' = q /\ delayed' = Put(z, id, score)
        BY <1>2 DEF Enqueue
    <2>2. /\ IsZset(Put(z, id, score))
          /\ DOMAIN Put(z, id, score) = DOMAIN z \cup {id}
        BY ZPut
    <2>3. IsZset(delayed')
        BY <2>1, <2>2
    <2> QED  BY <2>1, <2>2, <2>3
<1> QED  BY <1>1, <1>2

LEMMA PushOk ==
    ASSUME StoreTypeOK, NEW id \in Ids, NEW e \in Entity,
           NEW mode \in {"waiting", "delayed"}, NEW score \in Int,
           pushScript(id, e, mode, score)
    PROVE  StoreTypeOK' /\ KeepsAccount(Ids) /\ Accounted(id)'
<1>1. /\ waiting' \in Seq(Ids) /\ IsZset(delayed)'
      /\ Range(waiting') \cup DOMAIN delayed'
            = Range(waiting) \cup DOMAIN delayed \cup {id}
    BY EnqueueOk DEF pushScript, StoreTypeOK, IsZset
<1>2. /\ DOMAIN msg' = DOMAIN msg \cup {id}
      /\ msg' \in [DOMAIN msg' -> Entity]
      /\ \A x \in DOMAIN msg : x # id => msg'[x] = msg[x]
    BY DEF pushScript, StoreTypeOK, Put
<1>3. StoreTypeOK'
    BY <1>1, <1>2 DEF pushScript, StoreTypeOK, IsZset
<1>4. Placed' = Placed \cup {id}
    BY <1>1 DEF pushScript, Placed
<1> QED  BY <1>2, <1>3, <1>4 DEF KeepsAccount, Accounted

LEMMA MoveOk ==
    ASSUME StoreTypeOK, NEW t \in Int, moveScript(t)
    PROVE  StoreTypeOK' /\ KeepsAccount(Ids)
<1>1. PICK s \in DueBatches(delayed, t) :
        /\ delayed' = Del(delayed, Range(s))
        /\ msg' = Rewrite(Range(s), "waiting")
        /\ waiting' = LRem(waiting, Missing(Range(s)))
                        \o LRem(s, Missing(Range(s)))
        /\ UNCHANGED <<timeout, failed, reserved>>
    BY DEF moveScript
<1>2. s \in Seq(Ids) /\ Range(s) \subseteq DOMAIN delayed
    BY DueBatchType DEF StoreTypeOK
<1>3. /\ waiting' \in Seq(Ids)
      /\ Range(waiting') = (Range(waiting) \cup Range(s)) \ Missing(Range(s))
    BY <1>1, <1>2, LRemRange, RangeConcatenation, ConcatProperties DEF StoreTypeOK
<1>4. IsZset(delayed)' /\ DOMAIN delayed' = DOMAIN delayed \ Range(s)
    BY <1>1, ZDel DEF StoreTypeOK, IsZset
<1>5. /\ DOMAIN msg' = DOMAIN msg /\ msg' \in [DOMAIN msg' -> Entity]
      /\ \A x \in DOMAIN msg : x \notin Range(s) => msg'[x].status = msg[x].status
    BY <1>1, RewriteKeys DEF StoreTypeOK, Statuses
<1>6. StoreTypeOK'
    BY <1>1, <1>3, <1>4, <1>5 DEF StoreTypeOK, IsZset
<1>7. ASSUME NEW i \in Ids, Accounted(i)
      PROVE  Accounted(i)'
    <2>1. i \in DOMAIN msg /\ i \in DOMAIN msg'
        BY <1>5, <1>7 DEF Accounted
    <2>2. CASE i \in Range(s)
        BY <1>3, <2>1, <2>2 DEF Accounted, Placed, Missing
    <2>3. CASE i \notin Range(s)
        BY <1>1, <1>3, <1>4, <1>5, <1>7, <2>1, <2>3 DEF Accounted, Placed, Missing
    <2> QED  BY <2>2, <2>3
<1> QED  BY <1>6, <1>7 DEF KeepsAccount

LEMMA MoveTimeoutOk ==
    ASSUME StoreTypeOK, NEW t \in Int, moveTimeoutScript(t)
    PROVE  StoreTypeOK' /\ KeepsAccount(Ids)
<1>1. PICK s \in DueBatches(reserved, t) :
        /\ reserved' = Del(reserved, Range(s))
        /\ timeout' = timeout \o LRem(s, Missing(Range(s)))
        /\ UNCHANGED <<waiting, failed, delayed, msg>>
    BY DEF moveTimeoutScript
<1>2. s \in Seq(Ids) /\ Range(s) \subseteq DOMAIN reserved
    BY DueBatchType DEF StoreTypeOK
<1>3. /\ timeout' \in Seq(Ids)
      /\ Range(timeout') = Range(timeout) \cup (Range(s) \ Missing(Range(s)))
    BY <1>1, <1>2, LRemRange, RangeConcatenation, ConcatProperties DEF StoreTypeOK
<1>4. IsZset(reserved)' /\ DOMAIN reserved' = DOMAIN reserved \ Range(s)
    BY <1>1, ZDel DEF StoreTypeOK, IsZset
<1>5. StoreTypeOK'
    BY <1>1, <1>3, <1>4 DEF StoreTypeOK, IsZset
<1>6. Placed \cap DOMAIN msg \subseteq Placed'
    BY <1>1, <1>3, <1>4 DEF Placed, Missing
<1> QED  BY <1>1, <1>5, <1>6 DEF KeepsAccount, Accounted

LEMMA PopNilOk ==
    ASSUME StoreTypeOK, popScriptNil
    PROVE  StoreTypeOK' /\ KeepsAccount(Ids)
<1>1. Range(<<>>) = {} /\ <<>> \in Seq(Ids)
    BY DEF Range
<1> QED  BY <1>1 DEF popScriptNil, StoreTypeOK, IsZset, KeepsAccount, Accounted, Placed

LEMMA PopOk ==
    ASSUME StoreTypeOK, NEW id \in Ids, NEW deadline \in Int,
           popScript(id, deadline)
    PROVE  StoreTypeOK' /\ KeepsAccount(Ids)
<1>1. PICK k \in 1..Len(waiting) :
        /\ waiting[k] = id
        /\ id \in DOMAIN msg
        /\ \A j \in 1..(k - 1) : waiting[j] \notin DOMAIN msg
        /\ waiting' = SubSeq(waiting, k + 1, Len(waiting))
        /\ msg' = Rewrite({id}, "reserved")
        /\ reserved' = Put(reserved, id, deadline)
        /\ UNCHANGED <<timeout, failed, delayed>>
    BY DEF popScript
<1>2. /\ waiting' \in Seq(Ids)
      /\ Range(waiting) = {waiting[i] : i \in 1..k} \cup Range(waiting')
    <2>1. k \in 0..Len(waiting)
        BY DEF StoreTypeOK
    <2> QED  BY <1>1, <2>1, CutRange DEF StoreTypeOK
<1>3. {waiting[i] : i \in 1..k} \cap DOMAIN msg \subseteq {id}
    <2> SUFFICES ASSUME NEW i \in 1..k, waiting[i] \in DOMAIN msg
                 PROVE  waiting[i] = id
        OBVIOUS
    <2>1. i = k \/ i \in 1..(k - 1)
        OBVIOUS
    <2> QED  BY <1>1, <2>1
<1>4. IsZset(reserved)' /\ DOMAIN reserved' = DOMAIN reserved \cup {id}
    BY <1>1, ZPut DEF StoreTypeOK, IsZset
<1>5. /\ DOMAIN msg' = DOMAIN msg /\ msg' \in [DOMAIN msg' -> Entity]
      /\ \A x \in DOMAIN msg : x # id => msg'[x].status = msg[x].status
    BY <1>1, RewriteKeys DEF StoreTypeOK, Statuses
<1>6. StoreTypeOK'
    BY <1>1, <1>2, <1>4, <1>5 DEF StoreTypeOK, IsZset
<1>7. Placed \cap DOMAIN msg \subseteq Placed' /\ id \in Placed'
    BY <1>1, <1>2, <1>3, <1>4 DEF Placed
<1> QED  BY <1>5, <1>6, <1>7 DEF KeepsAccount, Accounted

\* The commits that end the work on a message.
LEMMA FinishOk ==
    ASSUME StoreTypeOK, NEW id \in Ids, ackScript(id) \/ dropScript(id)
    PROVE  StoreTypeOK' /\ KeepsAccount(Ids)
<1>1. PICK st \in {"done", "dropped"} : msg' = Rewrite({id}, st)
    BY DEF ackScript, dropScript
<1>2. /\ reserved' = Del(reserved, {id})
      /\ UNCHANGED <<waiting, timeout, failed, delayed>>
    BY DEF ackScript, dropScript
<1>3. IsZset(reserved)' /\ DOMAIN reserved' = DOMAIN reserved \ {id}
    BY <1>2, ZDel DEF StoreTypeOK, IsZset
<1>4. /\ DOMAIN msg' = DOMAIN msg /\ msg' \in [DOMAIN msg' -> Entity]
      /\ \A x \in DOMAIN msg :
            msg'[x].status = IF x = id THEN st ELSE msg[x].status
    BY <1>1, RewriteKeys DEF StoreTypeOK, Statuses
<1>5. StoreTypeOK'
    BY <1>2, <1>3, <1>4 DEF StoreTypeOK, IsZset
<1>6. Placed \ {id} \subseteq Placed'
    BY <1>2, <1>3 DEF Placed
<1> QED  BY <1>4, <1>5, <1>6 DEF KeepsAccount, Accounted, Terminal

\* The commits that put the id into a list.
LEMMA ReturnOk ==
    ASSUME StoreTypeOK, NEW id \in Ids, failScript(id) \/ requeueScript(id)
    PROVE  StoreTypeOK' /\ KeepsAccount(Ids)
<1>1. PICK st \in {"failed", "waiting"} : msg' = Rewrite({id}, st)
    BY DEF failScript, requeueScript
<1>2. reserved' = Del(reserved, {id}) /\ UNCHANGED <<timeout, delayed>>
    BY DEF failScript, requeueScript
<1>3. IsZset(reserved)' /\ DOMAIN reserved' = DOMAIN reserved \ {id}
    BY <1>2, ZDel DEF StoreTypeOK, IsZset
<1>4. /\ DOMAIN msg' = DOMAIN msg /\ msg' \in [DOMAIN msg' -> Entity]
      /\ \A x \in DOMAIN msg : x # id => msg'[x].status = msg[x].status
    BY <1>1, RewriteKeys DEF StoreTypeOK, Statuses
<1>5. /\ waiting' \in Seq(Ids) /\ failed' \in Seq(Ids)
      /\ Range(waiting) \subseteq Range(waiting')
      /\ Range(failed) \subseteq Range(failed')
      /\ id \in DOMAIN msg => id \in Range(waiting') \cup Range(failed')
    <2>1. /\ waiting \in Seq(Ids) /\ failed \in Seq(Ids)
          /\ waiting' \in {waiting, Append(waiting, id)}
          /\ failed' \in {failed, Append(failed, id)}
          /\ id \in DOMAIN msg => \/ waiting' = Append(waiting, id)
                                  \/ failed' = Append(failed, id)
        BY DEF failScript, requeueScript, StoreTypeOK
    <2>2. \A q \in Seq(Ids) : /\ Append(q, id) \in Seq(Ids)
                              /\ Range(Append(q, id)) = Range(q) \cup {id}
        BY AppendRange
    <2> QED  BY <2>1, <2>2
<1>6. StoreTypeOK'
    BY <1>2, <1>3, <1>4, <1>5 DEF StoreTypeOK, IsZset
<1>7. Placed \ {id} \subseteq Placed' /\ (id \in DOMAIN msg => id \in Placed')
    BY <1>2, <1>3, <1>5 DEF Placed
<1> QED  BY <1>4, <1>6, <1>7 DEF KeepsAccount, Accounted

LEMMA RetryOk ==
    ASSUME StoreTypeOK, NEW id \in Ids, NEW body \in Entity,
           NEW mode \in {"waiting", "delayed"}, NEW score \in Int,
           retryByIDScript(id, body, mode, score)
    PROVE  StoreTypeOK' /\ KeepsAccount(Ids)
<1>1. /\ DOMAIN msg' = DOMAIN msg \cup {id} /\ msg' \in [DOMAIN msg' -> Entity]
      /\ \A x \in DOMAIN msg : x # id => msg'[x].status = msg[x].status
    <2> DEFINE e == IF id \in DOMAIN msg THEN Kept(msg[id].exp) ELSE "none"
    <2>1. e \in Expiries
        BY DEF Kept, Expiries, StoreTypeOK, Entity
    <2>2. msg' = Put(msg, id, [body EXCEPT !.exp = e])
        BY DEF retryByIDScript, Overwrite
    <2> HIDE DEF e
    <2>3. [body EXCEPT !.exp = e] \in Entity
        BY <2>1 DEF Entity
    <2> QED  BY <2>2, <2>3 DEF Put, StoreTypeOK
<1>2. CASE id \in DOMAIN reserved
    <2>1. /\ reserved' = Del(reserved, {id}) /\ UNCHANGED <<timeout, failed>>
          /\ Enqueue(id, mode, score, waiting, delayed)
        BY <1>2 DEF retryByIDScript
    <2>2. IsZset(reserved)' /\ DOMAIN reserved' = DOMAIN reserved \ {id}
        BY <2>1, ZDel DEF StoreTypeOK, IsZset
    <2>3. /\ waiting' \in Seq(Ids) /\ IsZset(delayed)'
          /\ Range(waiting') \cup DOMAIN delayed'
                = Range(waiting) \cup DOMAIN delayed \cup {id}
        BY <2>1, EnqueueOk DEF StoreTypeOK, IsZset
    <2>4. StoreTypeOK'
        BY <1>1, <2>1, <2>2, <2>3 DEF StoreTypeOK, IsZset
    <2>5. Placed \subseteq Placed' /\ id \in Placed'
        BY <2>1, <2>2, <2>3 DEF Placed
    <2> QED  BY <1>1, <2>4, <2>5 DEF KeepsAccount, Accounted
<1>3. CASE id \notin DOMAIN reserved
    <2>1. /\ timeout' = LRem(timeout, {id}) /\ failed' = LRem(failed, {id})
          /\ Enqueue(id, mode, score, LRem(waiting, {id}), Del(delayed, {id}))
          /\ UNCHANGED reserved
        BY <1>3 DEF retryByIDScript
    <2>2. /\ timeout' \in Seq(Ids) /\ Range(timeout') = Range(timeout) \ {id}
          /\ failed' \in Seq(Ids) /\ Range(failed') = Range(failed) \ {id}
        BY <2>1, LRemRange DEF StoreTypeOK
    <2>3. /\ LRem(waiting, {id}) \in Seq(Ids)
          /\ Range(LRem(waiting, {id})) = Range(waiting) \ {id}
          /\ IsZset(Del(delayed, {id}))
          /\ DOMAIN Del(delayed, {id}) = DOMAIN delayed \ {id}
        BY LRemRange, ZDel DEF StoreTypeOK
    <2>4. /\ waiting' \in Seq(Ids) /\ IsZset(delayed)'
          /\ Range(waiting') \cup DOMAIN delayed'
                = (Range(waiting) \ {id}) \cup (DOMAIN delayed \ {id}) \cup {id}
        <3> DEFINE q == LRem(waiting, {id})
                   z == Del(delayed, {id})
        <3>1. Enqueue(id, mode, score, q, z) /\ q \in Seq(Ids) /\ IsZset(z)
            BY <2>1, <2>3
        <3> HIDE DEF q, z
        <3>2. /\ waiting' \in Seq(Ids) /\ IsZset(delayed')
              /\ Range(waiting') \cup DOMAIN delayed'
                    = Range(q) \cup DOMAIN z \cup {id}
            BY <3>1, EnqueueOk
        <3> QED  BY <2>3, <3>2 DEF q, z, IsZset
    <2>5. StoreTypeOK'
        BY <1>1, <2>1, <2>2, <2>4 DEF StoreTypeOK, IsZset
    <2>6. Placed \subseteq Placed' /\ id \in Placed'
        BY <2>1, <2>2, <2>4 DEF Placed
    <2> QED  BY <1>1, <2>5, <2>6 DEF KeepsAccount, Accounted
<1> QED  BY <1>2, <1>3

LEMMA CancelOk ==
    ASSUME StoreTypeOK, NEW id \in Ids, cancelByIDScript(id)
    PROVE  StoreTypeOK' /\ KeepsAccount(Ids)
<1>1. CASE id \in DOMAIN delayed
    <2>1. /\ delayed' = Del(delayed, {id})
          /\ msg' = [x \in DOMAIN msg |->
                        IF x = id THEN [msg[x] EXCEPT !.status = "canceled"]
                                  ELSE msg[x]]
          /\ UNCHANGED <<waiting, timeout, failed, reserved>>
        BY <1>1 DEF cancelByIDScript
    <2>2. IsZset(delayed)' /\ DOMAIN delayed' = DOMAIN delayed \ {id}
        BY <2>1, ZDel DEF StoreTypeOK, IsZset
    <2>3. /\ DOMAIN msg' = DOMAIN msg /\ msg' \in [DOMAIN msg' -> Entity]
          /\ \A x \in DOMAIN msg : msg'[x].status =
                IF x = id THEN "canceled" ELSE msg[x].status
        <3>1. \A x \in DOMAIN msg :
                 /\ [msg[x] EXCEPT !.status = "canceled"] \in Entity
                 /\ [msg[x] EXCEPT !.status = "canceled"].status = "canceled"
            BY DEF StoreTypeOK, Entity, Statuses
        <3> QED  BY <2>1, <3>1 DEF StoreTypeOK
    <2>4. StoreTypeOK'
        BY <2>1, <2>2, <2>3 DEF StoreTypeOK, IsZset
    <2>5. Placed \ {id} \subseteq Placed'
        BY <2>1, <2>2 DEF Placed
    <2> QED  BY <2>3, <2>4, <2>5 DEF KeepsAccount, Accounted, Terminal
<1>2. CASE id \notin DOMAIN delayed
    BY <1>2 DEF cancelByIDScript, storeVars, StoreTypeOK, IsZset,
                KeepsAccount, Accounted, Placed
<1> QED  BY <1>1, <1>2

\* What a reload leaves of the list and adds to waiting.
LEMMA ReloadLists ==
    ASSUME StoreTypeOK, NEW name, NEW q \in Seq(Ids), reloadScript(name, q)
    PROVE  /\ waiting' \in Seq(Ids) /\ reloadRest(q) \in Seq(Ids)
           /\ DOMAIN msg' = DOMAIN msg /\ msg' \in [DOMAIN msg' -> Entity]
           /\ \A x \in DOMAIN msg :
                 msg'[x].status = msg[x].status \/ x \in Range(waiting')
           /\ \A x \in DOMAIN msg : x \in Range(waiting) \cup Range(q) =>
                 \/ x \in Range(waiting') \cup Range(reloadRest(q))
                 \/ msg'[x].status \in Terminal
<1> DEFINE s == reloadBatch(q)
           skip == reloadSkips(name, Range(s))
<1>1. /\ s \in Seq(Ids) /\ reloadRest(q) \in Seq(Ids)
      /\ Range(q) = Range(s) \cup Range(reloadRest(q))
    <2> DEFINE k == Limit(Len(q))
    <2>1. k \in 0..Len(q)
        BY BatchAssumption DEF Limit
    <2>2. s = SubSeq(q, 1, k)
        BY DEF reloadBatch
    <2> HIDE DEF k, s
    <2>3. Len(s) = k
        BY <2>1, <2>2, CutRange
    <2>4. reloadRest(q) = SubSeq(q, k + 1, Len(q))
        BY <2>3 DEF reloadRest, s
    <2> QED  BY <2>1, <2>2, <2>4, CutRange
<1>2. /\ waiting' = LRem(waiting \o s, skip)
      /\ msg' = Rewrite(Range(s) \ skip, "waiting")
    BY DEF reloadScript
<1>3. \A x \in skip \cap DOMAIN msg : msg[x].status \in Terminal
    BY DEF reloadSkips, Missing
<1> HIDE DEF s, skip
<1>4. waiting' \in Seq(Ids) /\ Range(waiting') = (Range(waiting) \cup Range(s)) \ skip
    <2>1. waiting \in Seq(Ids)
        BY DEF StoreTypeOK
    <2>2. /\ waiting \o s \in Seq(Ids)
          /\ Range(waiting \o s) = Range(waiting) \cup Range(s)
        BY <1>1, <2>1, ConcatProperties, RangeConcatenation
    <2> DEFINE all == waiting \o s
    <2>3. /\ LRem(all, skip) \in Seq(Ids)
          /\ Range(LRem(all, skip)) = Range(all) \ skip
        BY <2>2, LRemRange
    <2> QED  BY <1>2, <2>2, <2>3
<1>5. /\ DOMAIN msg' = DOMAIN msg /\ msg' \in [DOMAIN msg' -> Entity]
      /\ \A x \in DOMAIN msg :
            msg'[x].status = IF x \in Range(s) \ skip THEN "waiting" ELSE msg[x].status
    BY <1>2, RewriteKeys DEF StoreTypeOK, Statuses
<1> QED  BY <1>1, <1>3, <1>4, <1>5

LEMMA ReloadOk ==
    ASSUME StoreTypeOK, reloadTimeoutScript \/ reloadFailedScript
    PROVE  StoreTypeOK' /\ KeepsAccount(Ids)
<1>1. CASE reloadTimeoutScript
    <2>1. /\ reloadScript("timeout", timeout) /\ timeout' = reloadRest(timeout)
          /\ UNCHANGED <<failed, delayed, reserved>> /\ timeout \in Seq(Ids)
        BY <1>1 DEF reloadTimeoutScript, StoreTypeOK
    <2>2. StoreTypeOK'
        BY <2>1, ReloadLists DEF StoreTypeOK, IsZset
    <2> QED  BY <2>1, <2>2, ReloadLists DEF KeepsAccount, Accounted, Placed
<1>2. CASE reloadFailedScript
    <2>1. /\ reloadScript("failed", failed) /\ failed' = reloadRest(failed)
          /\ UNCHANGED <<timeout, delayed, reserved>> /\ failed \in Seq(Ids)
        BY <1>2 DEF reloadFailedScript, StoreTypeOK
    <2>2. StoreTypeOK'
        BY <2>1, ReloadLists DEF StoreTypeOK, IsZset
    <2> QED  BY <2>1, <2>2, ReloadLists DEF KeepsAccount, Accounted, Placed
<1> QED  BY <1>1, <1>2

\* Pop's own ZREM hits an id whose entity it did not find.
LEMMA ZremOk ==
    ASSUME StoreTypeOK, NEW id \in Ids, zremReserved(id)
    PROVE  StoreTypeOK' /\ KeepsAccount(Ids \ {id})
<1>1. IsZset(reserved)' /\ DOMAIN reserved' = DOMAIN reserved \ {id}
    BY ZDel DEF zremReserved, StoreTypeOK, IsZset
<1> QED  BY <1>1 DEF zremReserved, StoreTypeOK, IsZset, KeepsAccount, Accounted, Placed

LEMMA FlushOk ==
    ASSUME StoreTypeOK, NEW name \in Buckets, delBucket(name)
    PROVE  StoreTypeOK' /\ KeepsAccount(Ids \ Bucket(name))
<1>1. <<>> \in Seq(Ids) /\ Range(<<>>) = {} /\ IsZset(EmptyMap) /\ DOMAIN EmptyMap = {}
    BY DEF Range, IsZset, EmptyMap
<1>2. StoreTypeOK'
    BY <1>1 DEF delBucket, StoreTypeOK, IsZset
<1>3. Placed \ Bucket(name) \subseteq Placed'
    BY <1>1 DEF delBucket, Placed, Bucket, Buckets
<1> QED  BY <1>2, <1>3 DEF delBucket, KeepsAccount, Accounted

LEMMA ExpiryOk ==
    ASSUME StoreTypeOK, NEW id \in Ids, ttlRunsDown(id) \/ keyExpires(id)
    PROVE  StoreTypeOK' /\ KeepsAccount(Ids \ {id}) /\ (ttlRunsDown(id) => KeepsAccount(Ids))
<1>1. CASE ttlRunsDown(id)
    BY <1>1 DEF ttlRunsDown, StoreTypeOK, IsZset, Entity, Expiries,
                KeepsAccount, Accounted, Placed
<1>2. CASE keyExpires(id)
    BY <1>2 DEF keyExpires, ttlRunsDown, Del, StoreTypeOK, IsZset,
                KeepsAccount, Accounted, Placed
<1> QED  BY <1>1, <1>2

\* Only a push and a retry can add a message key.
LEMMA NoNewKeys ==
    /\ \A t : moveScript(t) \/ moveTimeoutScript(t) => DOMAIN msg' \subseteq DOMAIN msg
    /\ \A id, t : popScript(id, t) => DOMAIN msg' \subseteq DOMAIN msg
    /\ \A id : \/ ackScript(id) \/ dropScript(id) \/ requeueScript(id) \/ failScript(id)
               \/ zremReserved(id) \/ ttlRunsDown(id) \/ keyExpires(id)
               => DOMAIN msg' \subseteq DOMAIN msg
    /\ \A id : cancelByIDScript(id) => DOMAIN msg' \subseteq DOMAIN msg
    /\ popScriptNil \/ reloadTimeoutScript \/ reloadFailedScript
          => DOMAIN msg' \subseteq DOMAIN msg
    /\ \A name : delBucket(name) => DOMAIN msg' \subseteq DOMAIN msg
    /\ \A id, b, m, s : retryByIDScript(id, b, m, s) \/ pushScript(id, b, m, s)
          => DOMAIN msg' = DOMAIN msg \cup {id}
<1>1. \A S, st : DOMAIN Rewrite(S, st) = DOMAIN msg
    BY DEF Rewrite
<1>2. \A id, v : DOMAIN Put(msg, id, v) = DOMAIN msg \cup {id}
    BY DEF Put
<1>3. \A S : DOMAIN Del(msg, S) \subseteq DOMAIN msg
    BY DEF Del
<1>4. \A t : moveScript(t) \/ moveTimeoutScript(t) => DOMAIN msg' \subseteq DOMAIN msg
    BY <1>1 DEF moveScript, moveTimeoutScript
<1>5. \A id, t : popScript(id, t) => DOMAIN msg' \subseteq DOMAIN msg
    BY <1>1 DEF popScript
<1>6. \A id : \/ ackScript(id) \/ dropScript(id) \/ requeueScript(id) \/ failScript(id)
             \/ zremReserved(id) \/ ttlRunsDown(id) \/ keyExpires(id)
             => DOMAIN msg' \subseteq DOMAIN msg
    BY <1>1, <1>3 DEF ackScript, dropScript, requeueScript, failScript,
                      zremReserved, ttlRunsDown, keyExpires
<1>7. \A id : cancelByIDScript(id) => DOMAIN msg' \subseteq DOMAIN msg
    BY DEF cancelByIDScript, storeVars
<1>8. popScriptNil \/ reloadTimeoutScript \/ reloadFailedScript
          => DOMAIN msg' \subseteq DOMAIN msg
    BY <1>1 DEF popScriptNil, reloadTimeoutScript, reloadFailedScript, reloadScript
<1>9. \A name : delBucket(name) => DOMAIN msg' \subseteq DOMAIN msg
    BY DEF delBucket
<1>10. \A id, b, m, s : retryByIDScript(id, b, m, s) \/ pushScript(id, b, m, s)
          => DOMAIN msg' = DOMAIN msg \cup {id}
    BY <1>2 DEF retryByIDScript, pushScript, Overwrite
<1> QED  BY <1>4, <1>5, <1>6, <1>7, <1>8, <1>9, <1>10
=============================================================================
