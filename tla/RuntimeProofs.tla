---------------------------- MODULE RuntimeProofs ----------------------------
(***************************************************************************)
(* The loops of one queue, for any finite number of messages, any options  *)
(* and any number of failed commands: what a consumer holds, when it       *)
(* returns, and how long its loops wait.                                   *)
(***************************************************************************)
EXTENDS QueueRuntime, FunctionTheorems, FiniteSetTheorems, TLAPS

LoopStates == {"top", "pop", "poll", "load", "acquire", "backoff", "drain", "returned"}

\* What newBackoff makes and Advance and Reset keep.
Backoffs ==
    {b \in [initial : Nat \ {0}, max : Nat \ {0}, current : Nat \ {0}] :
        b.initial <= b.max /\ b.current <= b.max}

RuntimeTypeOK ==
    /\ ctxDone \in BOOLEAN
    /\ at \in [Messages -> Places] /\ faults \in Nat
    /\ loop \in LoopStates
    /\ count \in Nat /\ errors \in Nat /\ popErrors \in Nat
    /\ result \in {"none", "nil", "error"}
    /\ pop \in Backoffs /\ errs \in Backoffs
    /\ fwd \in {"select", "returned"}
    /\ fwdErrors \in Nat

\* The loop has at most one message in its hands, and only between the pop and
\* the goroutine it starts.
InHand ==
    /\ \A m \in Messages : at[m] = "claimed" => loop = "load"
    /\ \A m \in Messages : at[m] = "loaded" => loop = "acquire"
    /\ \A m, n \in Messages :
        at[m] \in {"claimed", "loaded"} /\ at[n] \in {"claimed", "loaded"} => m = n

Slots == {"handling", "finished"}
SlotsBounded == Cardinality(At(Slots)) <= concurrentLimit

\* A goroutine is started by a loop that has not returned, and waited for.
Waited == loop = "returned" => At({"handling", "finished", "released"}) = {}

\* The loop takes a message only below max_messages, and a loop on its way out
\* that is neither canceled nor has an error to report has reached it.
Limited ==
    AutoRestart /\ maxMessages > 0 =>
        /\ count <= maxMessages
        /\ loop \in {"pop", "load"} => count < maxMessages
        /\ loop = "drain" /\ ~ctxDone /\ errors = 0 => count = maxMessages
        /\ loop = "returned" /\ ~ctxDone /\ result = "nil" => count = maxMessages

\* Where a message is that a goroutine of the consumer has or had.
Handled == {"finished", "released", "gone"}

RuntimeInv ==
    /\ RuntimeTypeOK /\ InHand /\ SlotsBounded /\ Waited /\ Limited
    /\ BackoffDoubles /\ ForwarderStays

-----------------------------------------------------------------------------
(* Powers of two. *)

\* 2^n counts the subsets of 1..n, and each is a subset of 1..(n + 1) with and
\* without n + 1.
LEMMA PowerOfTwo ==
    ASSUME NEW n \in Nat
    PROVE  2^n \in Nat /\ Cardinality(SUBSET (1..n)) = 2^n /\ IsFiniteSet(SUBSET (1..n))
<1>1. IsFiniteSet(1..n) /\ Cardinality(1..n) = n
    BY FS_Interval
<1>2. IsFiniteSet(SUBSET (1..n)) /\ Cardinality(SUBSET (1..n)) = 2^n
    BY <1>1, FS_SUBSET
<1> QED  BY <1>2, FS_CardinalityType

LEMMA PairHasTwo ==
    ASSUME NEW x, NEW y, x # y
    PROVE  IsFiniteSet({x, y}) /\ Cardinality({x, y}) = 2
<1> DEFINE S == {x}
<1>1. IsFiniteSet(S) /\ Cardinality(S) = 1
    BY FS_Singleton
<1>2. S \cup {y} = {x, y} /\ y \notin S
    OBVIOUS
<1> HIDE DEF S
<1>3. IsFiniteSet(S \cup {y}) /\ Cardinality(S \cup {y}) = Cardinality(S) + 1
    BY <1>1, <1>2, FS_AddElement
<1> QED  BY <1>1, <1>2, <1>3

LEMMA PowerDoubles ==
    ASSUME NEW n \in Nat
    PROVE  2^(n + 1) = 2 * 2^n
<1> DEFINE S == SUBSET (1..n)
           E == {{}, {n + 1}}
           T == SUBSET (1..(n + 1))
           f == [p \in S \X E |-> p[1] \cup p[2]]
<1>1. f \in [S \X E -> T]
    OBVIOUS
<1>2. ASSUME NEW p \in S \X E, NEW q \in S \X E, f[p] = f[q]
      PROVE  p = q
    <2>1. p[1] \subseteq 1..n /\ q[1] \subseteq 1..n /\ p[2] \in E /\ q[2] \in E
        OBVIOUS
    <2>2. p[1] \cup p[2] = q[1] \cup q[2]
        BY <1>2
    <2>3. \A x \in 1..n : x # n + 1
        OBVIOUS
    <2>4. p[1] = q[1] /\ p[2] = q[2]
        BY <2>1, <2>2, <2>3
    <2> QED  BY <2>4
<1>3. ASSUME NEW t \in T
      PROVE  \E p \in S \X E : f[p] = t
    <2>1. t \ {n + 1} \in S /\ t \cap {n + 1} \in E
        OBVIOUS
    <2>2. <<t \ {n + 1}, t \cap {n + 1}>> \in S \X E
        BY <2>1
    <2>3. f[<<t \ {n + 1}, t \cap {n + 1}>>] = (t \ {n + 1}) \cup (t \cap {n + 1})
        BY <2>2
    <2>4. (t \ {n + 1}) \cup (t \cap {n + 1}) = t
        OBVIOUS
    <2> QED  BY <2>2, <2>3, <2>4
<1>4. ExistsBijection(S \X E, T)
    <2> HIDE DEF f, S, T, E
    <2>1. f \in Injection(S \X E, T)
        BY <1>1, <1>2 DEF Injection, IsInjective
    <2>2. f \in Surjection(S \X E, T)
        BY <1>1, <1>3 DEF Surjection
    <2> QED  BY <2>1, <2>2 DEF ExistsBijection, Bijection
<1>5. IsFiniteSet(E) /\ Cardinality(E) = 2
    BY PairHasTwo
<1>6. IsFiniteSet(S) /\ Cardinality(S) = 2^n /\ 2^n \in Nat
    BY PowerOfTwo
<1>7. Cardinality(T) = 2^(n + 1)
    BY PowerOfTwo
<1> HIDE DEF S, T, E, f
<1>8. IsFiniteSet(S \X E) /\ Cardinality(S \X E) = 2^n * 2
    BY <1>5, <1>6, FS_Product
<1>9. Cardinality(T) = 2^n * 2
    BY <1>4, <1>8, FS_Bijection
<1> QED  BY <1>6, <1>7, <1>9

-----------------------------------------------------------------------------
(* The backoff. *)

LEMMA NewBackoffIs ==
    ASSUME NEW i \in Int, NEW m \in Int
    PROVE  /\ newBackoff(i, m) \in Backoffs
           /\ newBackoff(i, m).current = newBackoff(i, m).initial
<1> DEFINE j == IF i <= 0 THEN 1 ELSE i
           k == IF m < j THEN j ELSE m
<1>1. j \in Nat \ {0} /\ k \in Nat \ {0} /\ j <= k
    OBVIOUS
<1>2. newBackoff(i, m) = [initial |-> j, max |-> k, current |-> j]
    BY DEF newBackoff
<1> HIDE DEF j, k
<1> QED  BY <1>1, <1>2 DEF Backoffs

\* Without errors the waiting time is the initial one.
LEMMA NoErrorsYet ==
    ASSUME NEW b \in Backoffs
    PROVE  AfterErrors(b, 0) = b.initial
<1>1. b.initial \in Nat /\ b.max \in Nat /\ b.initial <= b.max
    BY DEF Backoffs
<1>2. b.initial * 2^0 = b.initial
    BY <1>1
<1> QED  BY <1>1, <1>2 DEF AfterErrors

LEMMA ResetIs ==
    ASSUME NEW b \in Backoffs
    PROVE  Reset(b) \in Backoffs /\ Reset(b).current = AfterErrors(Reset(b), 0)
<1>1. /\ b \in [initial : Nat \ {0}, max : Nat \ {0}, current : Nat \ {0}]
      /\ b.initial <= b.max /\ b.initial \in Nat \ {0} /\ b.max \in Nat \ {0}
    BY DEF Backoffs
<1>2. Reset(b) = [initial |-> b.initial, max |-> b.max, current |-> b.initial]
    BY <1>1 DEF Reset
<1>3. Reset(b) \in Backoffs /\ Reset(b).current = Reset(b).initial
    BY <1>1, <1>2 DEF Backoffs
<1> QED  BY <1>3, NoErrorsYet

\* One more error doubles the waiting time, up to the limit.
LEMMA AdvanceIs ==
    ASSUME NEW b \in Backoffs, NEW n \in Nat, b.current = AfterErrors(b, n)
    PROVE  /\ Advance(b) \in Backoffs
           /\ Advance(b).current = AfterErrors(Advance(b), n + 1)
           /\ AfterErrors(Advance(b), n) = b.current
<1>1. /\ b \in [initial : Nat \ {0}, max : Nat \ {0}, current : Nat \ {0}]
      /\ b.initial <= b.max /\ b.initial \in Nat \ {0} /\ b.max \in Nat \ {0}
      /\ b.current \in Nat \ {0} /\ b.current <= b.max
    BY DEF Backoffs
<1> DEFINE c == IF b.current <= 0 \/ 2 * b.current > b.max THEN b.max ELSE 2 * b.current
           full == b.initial * 2^n
<1>2. Advance(b) = [initial |-> b.initial, max |-> b.max, current |-> c]
    BY <1>1 DEF Advance
<1>3. c \in Nat \ {0} /\ c <= b.max
    BY <1>1
<1>4. full \in Nat /\ b.initial * 2^(n + 1) = 2 * full
    <2>1. 2^n \in Nat /\ 2^(n + 1) = 2 * 2^n
        BY PowerOfTwo, PowerDoubles
    <2> DEFINE x == 2^n
               i == b.initial
    <2>2. x \in Nat /\ i \in Nat
        BY <1>1, <2>1
    <2> HIDE DEF x, i
    <2>3. i * (2 * x) = 2 * (i * x) /\ i * x \in Nat
        BY <2>2
    <2> QED  BY <2>1, <2>3 DEF x, i
<1>5. b.current = IF full > b.max THEN b.max ELSE full
    BY DEF AfterErrors
<1>6. AfterErrors(Advance(b), n) = IF full > b.max THEN b.max ELSE full
    <2> HIDE DEF c
    <2> QED  BY <1>2 DEF AfterErrors
<1> HIDE DEF full
<1>7. c = IF 2 * full > b.max THEN b.max ELSE 2 * full
    BY <1>1, <1>4, <1>5
<1> HIDE DEF c
<1>8. Advance(b) \in Backoffs
    BY <1>1, <1>2, <1>3 DEF Backoffs
<1>9. AfterErrors(Advance(b), n + 1) = IF 2 * full > b.max THEN b.max ELSE 2 * full
    BY <1>2, <1>4 DEF AfterErrors
<1> QED  BY <1>2, <1>5, <1>6, <1>7, <1>8, <1>9

-----------------------------------------------------------------------------
(* Counting messages. *)

LEMMA AtFinite ==
    ASSUME NEW P
    PROVE  IsFiniteSet(At(P)) /\ Cardinality(At(P)) \in Nat
<1>1. At(P) \in SUBSET Messages
    BY DEF At
<1>2. IsFiniteSet(At(P))
    BY <1>1, EnvAssumption, FS_Subset
<1> QED  BY <1>2, FS_CardinalityType

\* How the number of messages at the places P changes when m moves to p.
LEMMA MoveCounts ==
    ASSUME at \in [Messages -> Places], NEW m \in Messages, NEW p \in Places, Move(m, p), NEW P
    PROVE  /\ at' \in [Messages -> Places]
           /\ at'[m] = p /\ \A n \in Messages : n # m => at'[n] = at[n]
           /\ (p \in P <=> at[m] \in P) => At(P)' = At(P)
           /\ p \in P /\ at[m] \notin P => Cardinality(At(P)') = Cardinality(At(P)) + 1
           /\ p \notin P /\ at[m] \in P => Cardinality(At(P)') = Cardinality(At(P)) - 1
<1>1. /\ at' \in [Messages -> Places]
      /\ at'[m] = p /\ \A n \in Messages : n # m => at'[n] = at[n]
    BY DEF Move
<1>2. (p \in P <=> at[m] \in P) => At(P)' = At(P)
    BY <1>1 DEF At
<1>3. ASSUME p \in P, at[m] \notin P
      PROVE  Cardinality(At(P)') = Cardinality(At(P)) + 1
    <2>1. At(P)' = At(P) \cup {m} /\ m \notin At(P)
        BY <1>1, <1>3 DEF At
    <2> QED  BY <2>1, AtFinite, FS_AddElement
<1>4. ASSUME p \notin P, at[m] \in P
      PROVE  Cardinality(At(P)') = Cardinality(At(P)) - 1
    <2>1. At(P)' = At(P) \ {m} /\ m \in At(P)
        BY <1>1, <1>4 DEF At
    <2> QED  BY <2>1, AtFinite, FS_RemoveElement
<1> QED  BY <1>1, <1>2, <1>3, <1>4

LEMMA AtKept ==
    ASSUME UNCHANGED at, NEW P
    PROVE  At(P)' = At(P)
BY DEF At

-----------------------------------------------------------------------------
(* The first state. *)

LEMMA OptionsOk ==
    /\ concurrentLimit \in Nat \ {0} /\ maxMessages \in Nat
    /\ popRetryBackoff \in Int /\ popRetryMaxBackoff \in Int
    /\ errorRetryBackoff \in Int /\ errorRetryMaxBackoff \in Int
BY ConsumerAssumption, ForwarderAssumption
   DEF concurrentLimit, maxMessages, popRetryBackoff, popRetryMaxBackoff, Positive,
       errorRetryBackoff, errorRetryMaxBackoff

LEMMA RuntimeInit == Init => RuntimeInv
<1> SUFFICES ASSUME Init PROVE RuntimeInv
    OBVIOUS
<1> USE DEF Init, EnvInit, ConsumerInit, ForwarderInit
<1>1. pop \in Backoffs /\ pop.current = pop.initial /\ errs \in Backoffs /\ errs.current = errs.initial
    BY OptionsOk, NewBackoffIs
<1>2. RuntimeTypeOK
    <2>1. ctxDone \in BOOLEAN
        OBVIOUS
    <2>2. at \in [Messages -> Places]
        BY DEF Places
    <2>3. loop \in LoopStates
        BY DEF LoopStates
    <2> QED  BY <1>1, <2>1, <2>2, <2>3 DEF RuntimeTypeOK
<1>3. \A m \in Messages : at[m] \in {"delayed", "waiting"}
    OBVIOUS
<1>4. At(Slots) = {}
    BY <1>3 DEF At, Slots
<1>6. InHand
    BY <1>3 DEF InHand
<1>7. SlotsBounded
    BY <1>4, FS_EmptySet, OptionsOk DEF SlotsBounded
<1>8. Waited /\ ForwarderStays
    BY DEF Waited, ForwarderStays
<1>9. Limited
    BY OptionsOk DEF Limited
<1>10. BackoffDoubles
    BY <1>1, NoErrorsYet DEF BackoffDoubles
<1> QED  BY <1>2, <1>6, <1>7, <1>8, <1>9, <1>10 DEF RuntimeInv

-----------------------------------------------------------------------------
(* Steps of the loop that move no message. *)

\* What the loop does to its backoff in a step.
PopMoves ==
    \/ UNCHANGED <<pop, popErrors>>
    \/ pop' = Reset(pop) /\ popErrors' = 0
    \/ pop' = Advance(pop) /\ popErrors' = popErrors + 1

LEMMA PopBackoff ==
    ASSUME RuntimeInv, PopMoves, UNCHANGED <<errs, timer, fwdErrors>>
    PROVE  pop' \in Backoffs /\ popErrors' \in Nat /\ BackoffDoubles'
<1>1. pop \in Backoffs /\ popErrors \in Nat /\ BackoffDoubles
    BY DEF RuntimeInv, RuntimeTypeOK
<1>2. pop' \in Backoffs /\ popErrors' \in Nat /\ pop'.current = AfterErrors(pop', popErrors')
    <2>1. CASE UNCHANGED <<pop, popErrors>>
        BY <1>1, <2>1 DEF BackoffDoubles
    <2>2. CASE pop' = Reset(pop) /\ popErrors' = 0
        BY <1>1, <2>2, ResetIs
    <2>3. CASE pop' = Advance(pop) /\ popErrors' = popErrors + 1
        BY <1>1, <2>3, AdvanceIs DEF BackoffDoubles
    <2> QED  BY <2>1, <2>2, <2>3 DEF PopMoves
<1> QED  BY <1>1, <1>2 DEF BackoffDoubles

\* The loop goes on, or on its way out, without a message in its hands.
LEMMA LoopTurns ==
    ASSUME RuntimeInv, UNCHANGED <<ctxDone, at, count, errors, result>>,
           UNCHANGED forwarderVars, PopMoves, faults' \in Nat,
           loop \in LoopStates \ {"load", "acquire", "returned"},
           loop' \in LoopStates \ {"load", "acquire", "returned"},
           Limited'
    PROVE  RuntimeInv'
<1>1. UNCHANGED <<fwd, errs, timer, fwdErrors>>
    BY DEF forwarderVars
<1>2. pop' \in Backoffs /\ popErrors' \in Nat /\ BackoffDoubles'
    BY <1>1, PopBackoff
<1>3. RuntimeTypeOK'
    <2>1. ctxDone' \in BOOLEAN
        BY DEF RuntimeInv, RuntimeTypeOK
    <2> QED  BY <1>1, <1>2, <2>1 DEF RuntimeInv, RuntimeTypeOK
<1>4. InHand'
    BY DEF RuntimeInv, InHand
<1>5. SlotsBounded' /\ Waited' /\ ForwarderStays'
    BY <1>1, AtKept DEF RuntimeInv, SlotsBounded, Waited, ForwarderStays
<1> QED  BY <1>2, <1>3, <1>4, <1>5 DEF RuntimeInv

LEMMA CommandFailsType ==
    ASSUME RuntimeTypeOK, CommandFails
    PROVE  faults' \in Nat
BY DEF RuntimeTypeOK, CommandFails

LEMMA TopInv ==
    ASSUME RuntimeInv, Top, UNCHANGED forwarderVars
    PROVE  RuntimeInv'
<1>1. UNCHANGED <<ctxDone, at, faults, pop, count, errors, result, popErrors>>
    BY DEF Top, envVars
<1>2. loop = "top" /\ loop' = IF LimitReached \/ ctxDone THEN "drain" ELSE "pop"
    BY DEF Top
<1>3. loop \in LoopStates \ {"load", "acquire", "returned"}
      /\ loop' \in LoopStates \ {"load", "acquire", "returned"}
    BY <1>2 DEF LoopStates
<1>4. Limited'
    BY <1>1, <1>2, OptionsOk DEF RuntimeInv, RuntimeTypeOK, Limited, LimitReached
<1>5. faults' \in Nat
    BY <1>1 DEF RuntimeInv, RuntimeTypeOK
<1> QED  BY <1>1, <1>3, <1>4, <1>5, LoopTurns DEF PopMoves

LEMMA PopNothingInv ==
    ASSUME RuntimeInv, PopNothing, UNCHANGED forwarderVars
    PROVE  RuntimeInv'
<1>1. UNCHANGED <<ctxDone, at, pop, count, errors, result, popErrors>>
    BY DEF PopNothing
<1>2. loop \in LoopStates \ {"load", "acquire", "returned"}
      /\ loop' \in LoopStates \ {"load", "acquire", "returned"}
    BY DEF PopNothing, LoopStates
<1>3. Limited'
    BY <1>1 DEF PopNothing, RuntimeInv, Limited
<1>4. faults' \in Nat
    BY CommandFailsType DEF PopNothing, RuntimeInv, RuntimeTypeOK
<1> QED  BY <1>1, <1>2, <1>3, <1>4, LoopTurns DEF PopMoves

LEMMA WaitsEndInv ==
    ASSUME RuntimeInv, PollEnds \/ BackoffEnds, UNCHANGED forwarderVars
    PROVE  RuntimeInv'
<1>1. UNCHANGED <<ctxDone, at, faults, count, errors, result>>
    BY DEF PollEnds, BackoffEnds, envVars
<1>2. PopMoves
    BY DEF PollEnds, BackoffEnds, PopMoves
<1>3. loop \in LoopStates \ {"load", "acquire", "returned"}
      /\ loop' \in LoopStates \ {"load", "acquire", "returned"}
    BY DEF PollEnds, BackoffEnds, LoopStates
<1>4. loop' = "top" \/ (ctxDone /\ loop' = "drain")
    BY DEF PollEnds, BackoffEnds
<1>5. Limited'
    BY <1>1, <1>4 DEF RuntimeInv, Limited
<1>6. faults' \in Nat
    BY <1>1 DEF RuntimeInv, RuntimeTypeOK
<1> QED  BY <1>1, <1>2, <1>3, <1>5, <1>6, LoopTurns

\* wg.Wait() is over: nobody is left in a handler.
LEMMA ReturnInv ==
    ASSUME RuntimeInv, Return, UNCHANGED forwarderVars
    PROVE  RuntimeInv'
<1>1. UNCHANGED <<ctxDone, at, faults, pop, count, errors, popErrors>>
    BY DEF Return, envVars
<1>2. UNCHANGED <<fwd, errs, timer, fwdErrors>>
    BY DEF forwarderVars
<1>3. /\ loop = "drain" /\ loop' = "returned"
      /\ result' = IF errors = 0 THEN "nil" ELSE "error"
      /\ At({"handling", "finished", "released"}) = {}
    BY DEF Return
<1>4. RuntimeTypeOK'
    <2>1. ctxDone' \in BOOLEAN
        BY <1>1 DEF RuntimeInv, RuntimeTypeOK
    <2>2. loop' \in LoopStates /\ result' \in {"none", "nil", "error"}
        BY <1>3 DEF LoopStates
    <2> QED  BY <1>1, <1>2, <2>1, <2>2 DEF RuntimeInv, RuntimeTypeOK
<1>5. InHand'
    BY <1>1, <1>3 DEF RuntimeInv, InHand
<1>6. SlotsBounded' /\ Waited' /\ ForwarderStays'
    BY <1>1, <1>2, <1>3, AtKept DEF RuntimeInv, SlotsBounded, Waited, ForwarderStays
<1>7. Limited'
    BY <1>1, <1>3 DEF RuntimeInv, Limited
<1>8. BackoffDoubles'
    BY <1>1, <1>2 DEF RuntimeInv, BackoffDoubles
<1> QED  BY <1>4, <1>5, <1>6, <1>7, <1>8 DEF RuntimeInv

-----------------------------------------------------------------------------
(* Steps of the loop with a message. *)

\* A step that takes m, which no goroutine has, to another such place.
LEMMA LoopMoves ==
    ASSUME RuntimeInv, NEW m \in Messages, NEW p \in Places, Move(m, p),
           at[m] \notin Slots \cup {"released"}, p \notin Slots \cup {"released"},
           \A n \in Messages : n # m => at[n] \notin {"claimed", "loaded"},
           p = "claimed" => loop' = "load", p = "loaded" => loop' = "acquire",
           UNCHANGED <<ctxDone, result>>, UNCHANGED forwarderVars,
           PopMoves, faults' \in Nat,
           loop # "returned", loop' \in LoopStates \ {"returned"},
           count' \in {count, count + 1}, errors' \in {errors, errors + 1},
           Limited'
    PROVE  RuntimeInv'
<1>1. UNCHANGED <<fwd, errs, timer, fwdErrors>>
    BY DEF forwarderVars
<1>2. pop' \in Backoffs /\ popErrors' \in Nat /\ BackoffDoubles'
    BY <1>1, PopBackoff
<1>3. at \in [Messages -> Places] /\ errors \in Nat /\ count \in Nat
    BY DEF RuntimeInv, RuntimeTypeOK
<1>4. at' \in [Messages -> Places] /\ at'[m] = p /\ \A n \in Messages : n # m => at'[n] = at[n]
    BY <1>3, MoveCounts
<1>5. At(Slots)' = At(Slots)
    BY <1>3, MoveCounts DEF Slots
<1>6. RuntimeTypeOK'
    <2>1. ctxDone' \in BOOLEAN
        BY DEF RuntimeInv, RuntimeTypeOK
    <2>2. count' \in Nat /\ errors' \in Nat
        BY <1>3
    <2> QED  BY <1>1, <1>2, <1>4, <2>1, <2>2 DEF RuntimeInv, RuntimeTypeOK
<1>7. InHand'
    BY <1>4 DEF InHand
<1>8. SlotsBounded' /\ Waited' /\ ForwarderStays'
    BY <1>1, <1>5 DEF RuntimeInv, SlotsBounded, Waited, ForwarderStays
<1> QED  BY <1>2, <1>6, <1>7, <1>8 DEF RuntimeInv

\* The message in the hands of the loop is the only one.
LEMMA OnlyOne ==
    ASSUME RuntimeInv, NEW m \in Messages,
           at[m] \in {"claimed", "loaded"} \/ loop \notin {"load", "acquire"}
    PROVE  \A n \in Messages : n # m => at[n] \notin {"claimed", "loaded"}
BY DEF RuntimeInv, InHand

LEMMA PopClaimsInv ==
    ASSUME RuntimeInv, NEW m \in Messages, PopClaims(m), UNCHANGED forwarderVars
    PROVE  RuntimeInv'
<1>1. PICK p \in {"claimed", "orphaned"} :
        /\ Move(m, p)
        /\ \/ p = "claimed" /\ loop' = "load" /\ UNCHANGED faults
           \/ p = "orphaned" /\ loop' = "poll" /\ CommandFails
    BY DEF PopClaims
<1>2. UNCHANGED <<ctxDone, pop, count, errors, result, popErrors>>
    BY DEF PopClaims
<1>3. loop = "pop" /\ at[m] = "waiting"
    BY DEF PopClaims
<1>4. faults' \in Nat
    BY <1>1, CommandFailsType DEF RuntimeInv, RuntimeTypeOK
<1>5. Limited'
    BY <1>1, <1>2, <1>3 DEF RuntimeInv, Limited
<1>6. \A n \in Messages : n # m => at[n] \notin {"claimed", "loaded"}
    BY <1>3, OnlyOne
<1>7. /\ p \in Places /\ p \notin Slots \cup {"released"}
      /\ at[m] \notin Slots \cup {"released"}
      /\ loop # "returned" /\ loop' \in LoopStates \ {"returned"}
    BY <1>1, <1>3 DEF Places, Slots, LoopStates
<1> QED  BY <1>1, <1>2, <1>4, <1>5, <1>6, <1>7, LoopMoves DEF PopMoves

LEMMA LoadOkInv ==
    ASSUME RuntimeInv, NEW m \in Messages, LoadOk(m), UNCHANGED forwarderVars
    PROVE  RuntimeInv'
<1>1. /\ loop = "load" /\ at[m] = "claimed" /\ Move(m, "loaded") /\ loop' = "acquire"
      /\ pop' = Reset(pop) /\ popErrors' = 0 /\ count' = count + 1
      /\ UNCHANGED <<ctxDone, faults, errors, result>>
    BY DEF LoadOk
<1>2. faults' \in Nat
    BY <1>1 DEF RuntimeInv, RuntimeTypeOK
<1>3. Limited'
    BY <1>1, OptionsOk DEF RuntimeInv, RuntimeTypeOK, Limited
<1>4. \A n \in Messages : n # m => at[n] \notin {"claimed", "loaded"}
    BY <1>1, OnlyOne
<1>5. /\ "loaded" \in Places /\ "loaded" \notin Slots \cup {"released"}
      /\ at[m] \notin Slots \cup {"released"}
      /\ loop # "returned" /\ loop' \in LoopStates \ {"returned"}
    BY <1>1 DEF Places, Slots, LoopStates
<1> QED  BY <1>1, <1>2, <1>3, <1>4, <1>5, LoopMoves DEF PopMoves

LEMMA LoadMissingInv ==
    ASSUME RuntimeInv, NEW m \in Messages, LoadMissing(m), UNCHANGED forwarderVars
    PROVE  RuntimeInv'
<1>1. /\ loop = "load" /\ at[m] = "claimed" /\ Move(m, "forgotten") /\ loop' = "top"
      /\ pop' = Reset(pop) /\ popErrors' = 0
      /\ UNCHANGED <<ctxDone, faults, count, errors, result>>
    BY DEF LoadMissing
<1>2. faults' \in Nat
    BY <1>1 DEF RuntimeInv, RuntimeTypeOK
<1>3. Limited'
    BY <1>1 DEF RuntimeInv, Limited
<1>4. \A n \in Messages : n # m => at[n] \notin {"claimed", "loaded"}
    BY <1>1, OnlyOne
<1>5. /\ "forgotten" \in Places /\ "forgotten" \notin Slots \cup {"released"}
      /\ at[m] \notin Slots \cup {"released"}
      /\ loop # "returned" /\ loop' \in LoopStates \ {"returned"}
    BY <1>1 DEF Places, Slots, LoopStates
<1> QED  BY <1>1, <1>2, <1>3, <1>4, <1>5, LoopMoves DEF PopMoves

LEMMA LoadFailsInv ==
    ASSUME RuntimeInv, NEW m \in Messages, LoadFails(m), UNCHANGED forwarderVars
    PROVE  RuntimeInv'
<1>1. /\ loop = "load" /\ at[m] = "claimed" /\ Move(m, "orphaned") /\ CommandFails
      /\ UNCHANGED <<ctxDone, pop, count, result, popErrors>>
    BY DEF LoadFails
<1>2. \/ ctxDone /\ loop' = "drain" /\ errors' = errors
      \/ ~ctxDone /\ loop' = "backoff" /\ errors' = errors
      \/ ~ctxDone /\ loop' = "drain" /\ errors' = errors + 1
    BY DEF LoadFails
<1>3. faults' \in Nat
    BY <1>1, CommandFailsType DEF RuntimeInv
<1>4. Limited'
    <2>1. errors \in Nat
        BY DEF RuntimeInv, RuntimeTypeOK
    <2> QED  BY <1>1, <1>2, <2>1 DEF RuntimeInv, Limited
<1>5. \A n \in Messages : n # m => at[n] \notin {"claimed", "loaded"}
    BY <1>1, OnlyOne
<1>6. /\ "orphaned" \in Places /\ "orphaned" \notin Slots \cup {"released"}
      /\ at[m] \notin Slots \cup {"released"}
      /\ loop # "returned" /\ loop' \in LoopStates \ {"returned"}
      /\ errors' \in {errors, errors + 1}
    BY <1>1, <1>2 DEF Places, Slots, LoopStates
<1> QED  BY <1>1, <1>3, <1>4, <1>5, <1>6, LoopMoves DEF PopMoves

\* sem <- struct{}{}: there is a slot.
LEMMA AcquireInv ==
    ASSUME RuntimeInv, NEW m \in Messages, Acquire(m), UNCHANGED forwarderVars
    PROVE  RuntimeInv'
<1>1. /\ loop = "acquire" /\ at[m] = "loaded" /\ Move(m, "handling") /\ loop' = "top"
      /\ Cardinality(At(Slots)) < concurrentLimit
      /\ UNCHANGED <<ctxDone, faults, pop, count, errors, result, popErrors>>
    BY DEF Acquire, Slots
<1>2. UNCHANGED <<fwd, errs, timer, fwdErrors>>
    BY DEF forwarderVars
<1>3. /\ at' \in [Messages -> Places]
      /\ at'[m] = "handling" /\ \A n \in Messages : n # m => at'[n] = at[n]
    <2>1. at \in [Messages -> Places] /\ "handling" \in Places
        BY DEF RuntimeInv, RuntimeTypeOK, Places
    <2> QED  BY <1>1, <2>1, MoveCounts
<1>4. RuntimeTypeOK'
    <2>1. ctxDone' \in BOOLEAN
        BY <1>1 DEF RuntimeInv, RuntimeTypeOK
    <2>2. loop' \in LoopStates
        BY <1>1 DEF LoopStates
    <2> QED  BY <1>1, <1>2, <1>3, <2>1, <2>2 DEF RuntimeInv, RuntimeTypeOK
<1>5. InHand'
    BY <1>1, <1>3, OnlyOne DEF InHand
<1>6. SlotsBounded'
    <2>1. at \in [Messages -> Places] /\ "handling" \in Places
        BY DEF RuntimeInv, RuntimeTypeOK, Places
    <2>2. "handling" \in Slots /\ at[m] \notin Slots
        BY <1>1 DEF Slots
    <2>3. Cardinality(At(Slots)') = Cardinality(At(Slots)) + 1
        BY <1>1, <2>1, <2>2, MoveCounts
    <2> QED  BY <1>1, <2>3, AtFinite, OptionsOk DEF SlotsBounded
<1>7. Waited' /\ ForwarderStays'
    BY <1>1, <1>2 DEF RuntimeInv, Waited, ForwarderStays
<1>8. Limited'
    BY <1>1 DEF RuntimeInv, Limited
<1>9. BackoffDoubles'
    BY <1>1, <1>2 DEF RuntimeInv, BackoffDoubles
<1> QED  BY <1>4, <1>5, <1>6, <1>7, <1>8, <1>9 DEF RuntimeInv

-----------------------------------------------------------------------------
(* The goroutine of a handler. *)

\* A loop that has returned has no goroutine.
LEMMA NotReturned ==
    ASSUME RuntimeInv, NEW m \in Messages, at[m] \in {"handling", "finished", "released"}
    PROVE  loop # "returned"
BY DEF RuntimeInv, Waited, At

\* What all three steps of a goroutine keep.
LEMMA GoroutineMoves ==
    ASSUME RuntimeInv, NEW m \in Messages, NEW p \in Handled, Move(m, p),
           at[m] \in {"handling", "finished", "released"},
           UNCHANGED <<ctxDone, faults, loop, pop, count, result, popErrors>>,
           UNCHANGED forwarderVars,
           at[m] \notin Slots => p \notin Slots
    PROVE  /\ at' \in [Messages -> Places]
           /\ at'[m] = p /\ \A n \in Messages : n # m => at'[n] = at[n]
           /\ InHand' /\ SlotsBounded' /\ Waited' /\ ForwarderStays' /\ BackoffDoubles'
<1>1. UNCHANGED <<fwd, errs, timer, fwdErrors>>
    BY DEF forwarderVars
<1>2. /\ p \in Places /\ at \in [Messages -> Places]
      /\ p \notin {"claimed", "loaded"}
    BY DEF RuntimeInv, RuntimeTypeOK, Handled, Places
<1>3. /\ at' \in [Messages -> Places]
      /\ at'[m] = p /\ \A n \in Messages : n # m => at'[n] = at[n]
    BY <1>2, MoveCounts
<1>4. InHand'
    BY <1>2, <1>3 DEF RuntimeInv, InHand
<1>5. SlotsBounded'
    <2>2. Cardinality(At(Slots)) \in Nat /\ Cardinality(At(Slots)) <= concurrentLimit
        BY AtFinite DEF RuntimeInv, SlotsBounded
    <2>3. CASE p \in Slots <=> at[m] \in Slots
        BY <1>2, <2>2, <2>3, MoveCounts DEF SlotsBounded
    <2>4. CASE p \notin Slots /\ at[m] \in Slots
        <3>1. Cardinality(At(Slots)') = Cardinality(At(Slots)) - 1
            BY <1>2, <2>4, MoveCounts
        <3> QED  BY <2>2, <3>1, OptionsOk DEF SlotsBounded
    <2> QED  BY <2>3, <2>4
<1>6. Waited' /\ ForwarderStays'
    BY <1>1, NotReturned DEF RuntimeInv, Waited, ForwarderStays
<1>7. BackoffDoubles'
    BY <1>1 DEF RuntimeInv, BackoffDoubles
<1> QED  BY <1>3, <1>4, <1>5, <1>6, <1>7

LEMMA HandleOneInv ==
    ASSUME RuntimeInv, NEW m \in Messages, HandleOne(m), UNCHANGED forwarderVars
    PROVE  RuntimeInv'
<1>1. /\ at[m] = "handling" /\ Move(m, "finished")
      /\ errors' \in {errors, errors + 1}
      /\ UNCHANGED <<ctxDone, faults, loop, pop, count, result, popErrors>>
    BY DEF HandleOne
<1>2. /\ at' \in [Messages -> Places]
      /\ InHand' /\ SlotsBounded' /\ Waited' /\ ForwarderStays' /\ BackoffDoubles'
    BY <1>1, GoroutineMoves DEF Handled, Slots
<1>3. errors \in Nat /\ errors' \in Nat
    BY <1>1 DEF RuntimeInv, RuntimeTypeOK
<1>4. RuntimeTypeOK'
    <2>1. ctxDone' \in BOOLEAN
        BY <1>1 DEF RuntimeInv, RuntimeTypeOK
    <2> QED  BY <1>1, <1>2, <1>3, <2>1 DEF RuntimeInv, RuntimeTypeOK, forwarderVars
<1>5. Limited'
    <2>1. errors' = 0 => errors = 0
        BY <1>1, <1>3
    <2> QED  BY <1>1, <2>1, NotReturned DEF RuntimeInv, Limited
<1> QED  BY <1>2, <1>4, <1>5 DEF RuntimeInv

\* The deferred calls: the slot is given back, then the WaitGroup is told.
LEMMA LeaveInv ==
    ASSUME RuntimeInv, NEW m \in Messages, ReleaseSlot(m) \/ WgDone(m), UNCHANGED forwarderVars
    PROVE  RuntimeInv'
<1>1. PICK p \in {"released", "gone"} :
        /\ Move(m, p)
        /\ at[m] = IF p = "released" THEN "finished" ELSE "released"
    BY DEF ReleaseSlot, WgDone
<1>2. UNCHANGED <<ctxDone, faults, loop, pop, count, errors, result, popErrors>>
    BY DEF ReleaseSlot, WgDone, consumerVars
<1>3. /\ p \in Handled /\ at[m] \in {"handling", "finished", "released"}
      /\ p \notin Slots
    BY <1>1 DEF Handled, Slots
<1>4. /\ at' \in [Messages -> Places]
      /\ InHand' /\ SlotsBounded' /\ Waited' /\ ForwarderStays' /\ BackoffDoubles'
    BY <1>1, <1>2, <1>3, GoroutineMoves
<1>5. RuntimeTypeOK'
    <2>1. ctxDone' \in BOOLEAN
        BY <1>2 DEF RuntimeInv, RuntimeTypeOK
    <2> QED  BY <1>2, <1>4, <2>1 DEF RuntimeInv, RuntimeTypeOK, forwarderVars
<1>6. Limited'
    BY <1>2 DEF RuntimeInv, Limited
<1> QED  BY <1>4, <1>5, <1>6 DEF RuntimeInv

-----------------------------------------------------------------------------
(* The forwarder and the context. *)

\* The forwarder moves messages that no goroutine of the consumer has.
LEMMA ForwardMoves ==
    ASSUME RuntimeInv, at' \in {at, MoveDelayed(at), MoveTimeout(MoveDelayed(at))},
           UNCHANGED consumerVars
    PROVE  /\ at' \in [Messages -> Places]
           /\ InHand' /\ SlotsBounded' /\ Waited'
<1>1. UNCHANGED <<loop, pop, count, errors, result, popErrors>>
    BY DEF consumerVars
<1> DEFINE Free == {"delayed", "waiting", "orphaned", "timeout"}
<1>2. at \in [Messages -> Places]
    BY DEF RuntimeInv, RuntimeTypeOK
<1>3. /\ at' \in [Messages -> Places]
      /\ \A m \in Messages : at'[m] = at[m] \/ (at[m] \in Free /\ at'[m] \in Free)
    BY <1>2 DEF MoveDelayed, MoveTimeout, Places
<1>4. /\ At(Slots)' = At(Slots)
      /\ At({"handling", "finished", "released"})' = At({"handling", "finished", "released"})
    BY <1>3 DEF At, Slots
<1>5. InHand'
    BY <1>1, <1>3 DEF RuntimeInv, InHand
<1>6. SlotsBounded' /\ Waited'
    BY <1>1, <1>4 DEF RuntimeInv, SlotsBounded, Waited
<1> QED  BY <1>3, <1>5, <1>6

LEMMA ForwarderInv ==
    ASSUME RuntimeInv, ForwarderNext, UNCHANGED consumerVars
    PROVE  RuntimeInv'
<1>1. UNCHANGED <<loop, pop, count, errors, result, popErrors>>
    BY DEF consumerVars
<1>2. /\ at' \in {at, MoveDelayed(at), MoveTimeout(MoveDelayed(at))}
      /\ ctxDone' = ctxDone
    BY DEF ForwarderNext, ForwardOk, ForwardFails, ForwarderStops, envVars
<1>3. /\ at' \in [Messages -> Places]
      /\ InHand' /\ SlotsBounded' /\ Waited'
    BY <1>2, ForwardMoves
<1>4. /\ faults' \in Nat /\ fwd' \in {"select", "returned"}
      /\ fwd' = "returned" => fwd = "returned" \/ ctxDone
    BY CommandFailsType
       DEF ForwarderNext, ForwardOk, ForwardFails, ForwarderStops, envVars, RuntimeInv, RuntimeTypeOK
<1>5. errs' \in Backoffs /\ fwdErrors' \in Nat /\ BackoffDoubles'
    <2>1. /\ errs \in Backoffs /\ fwdErrors \in Nat /\ BackoffDoubles
        BY DEF RuntimeInv, RuntimeTypeOK
    <2>2. CASE UNCHANGED <<errs, timer, fwdErrors>>
        BY <1>1, <2>1, <2>2 DEF BackoffDoubles
    <2>3. CASE errs' = Reset(errs) /\ fwdErrors' = 0
        BY <1>1, <2>1, <2>3, ResetIs DEF BackoffDoubles
    <2>4. CASE timer' = errs.current /\ errs' = Advance(errs) /\ fwdErrors' = fwdErrors + 1
        <3>1. /\ errs' \in Backoffs
              /\ errs'.current = AfterErrors(errs', fwdErrors')
              /\ AfterErrors(errs', fwdErrors) = errs.current
            BY <2>1, <2>4, AdvanceIs DEF BackoffDoubles
        <3>2. fwdErrors' - 1 = fwdErrors
            BY <2>1, <2>4
        <3> QED  BY <1>1, <2>1, <2>4, <3>1, <3>2 DEF BackoffDoubles
    <2> QED  BY <2>2, <2>3, <2>4 DEF ForwarderNext, ForwardOk, ForwardFails, ForwarderStops
<1>6. RuntimeTypeOK'
    <2>1. ctxDone' \in BOOLEAN
        BY <1>2 DEF RuntimeInv, RuntimeTypeOK
    <2> QED  BY <1>1, <1>3, <1>4, <1>5, <2>1 DEF RuntimeInv, RuntimeTypeOK
<1>7. ForwarderStays'
    BY <1>2, <1>4 DEF RuntimeInv, ForwarderStays
<1>8. Limited'
    BY <1>1, <1>2 DEF RuntimeInv, Limited
<1> QED  BY <1>3, <1>5, <1>6, <1>7, <1>8 DEF RuntimeInv

LEMMA CancelInv ==
    ASSUME RuntimeInv, ctxDone' \in BOOLEAN, ctxDone => ctxDone', UNCHANGED <<at, faults>>,
           UNCHANGED <<consumerVars, forwarderVars>>
    PROVE  RuntimeInv'
<1>1. /\ UNCHANGED <<loop, pop, count, errors, result, popErrors>>
      /\ UNCHANGED <<fwd, errs, timer, fwdErrors>>
    BY DEF consumerVars, forwarderVars
<1>2. RuntimeTypeOK'
    BY <1>1 DEF RuntimeInv, RuntimeTypeOK
<1>3. InHand' /\ BackoffDoubles'
    BY <1>1 DEF RuntimeInv, InHand, BackoffDoubles
<1>4. SlotsBounded' /\ Waited'
    BY <1>1, AtKept DEF RuntimeInv, SlotsBounded, Waited
<1>5. Limited'
    BY <1>1 DEF RuntimeInv, Limited
<1>6. ForwarderStays'
    BY <1>1 DEF RuntimeInv, ForwarderStays
<1> QED  BY <1>2, <1>3, <1>4, <1>5, <1>6 DEF RuntimeInv

LEMMA RuntimeNextInv == RuntimeInv /\ [Next]_vars => RuntimeInv'
<1> SUFFICES ASSUME RuntimeInv, [Next]_vars PROVE RuntimeInv'
    OBVIOUS
<1>1. ASSUME LoopStep, UNCHANGED forwarderVars
      PROVE  RuntimeInv'
    BY <1>1, TopInv, PopNothingInv, WaitsEndInv, ReturnInv, PopClaimsInv, LoadOkInv,
       LoadMissingInv, LoadFailsInv, AcquireInv DEF LoopStep
<1>2. ASSUME NEW m \in Messages, HandlerStep(m), UNCHANGED forwarderVars
      PROVE  RuntimeInv'
    BY <1>2, HandleOneInv, LeaveInv DEF HandlerStep
<1>3. CASE ForwarderNext /\ UNCHANGED consumerVars
    BY <1>3, ForwarderInv
<1>4. CASE Cancel /\ UNCHANGED <<consumerVars, forwarderVars>>
    BY <1>4, CancelInv DEF Cancel
<1>5. CASE UNCHANGED vars
    <2>1. ctxDone' \in BOOLEAN /\ (ctxDone => ctxDone')
        BY <1>5 DEF vars, envVars, RuntimeInv, RuntimeTypeOK
    <2> QED  BY <1>5, <2>1, CancelInv DEF vars, envVars
<1> QED  BY <1>1, <1>2, <1>3, <1>4, <1>5 DEF Next, ConsumerNext

LEMMA RuntimeAlways == Spec => []RuntimeInv
BY RuntimeInit, RuntimeNextInv, PTL DEF Spec

-----------------------------------------------------------------------------
(* Theorems. *)

\* Run never returns while a goroutine of it is at work, whichever way out the
\* loop takes: each message is handled to the end or is left to Redis.
THEOREM RunLeavesNothingBehind == Spec => []Drained
<1>1. RuntimeInv => Drained
    <2> SUFFICES ASSUME RuntimeInv, loop = "returned", NEW m \in Messages
                 PROVE  at[m] \in Dead \cup {"delayed", "waiting"}
        BY DEF Drained
    <2>1. at[m] \in Places
        BY DEF RuntimeInv, RuntimeTypeOK
    <2>2. at[m] # "claimed" /\ at[m] # "loaded"
        BY DEF RuntimeInv, InHand
    <2>3. at[m] \notin {"handling", "finished", "released"}
        BY DEF RuntimeInv, Waited, At
    <2> QED  BY <2>1, <2>2, <2>3 DEF Places, Dead
<1> QED  BY <1>1, RuntimeAlways, PTL

\* A consumer claims at most one message more than it has slots, and has never
\* more handlers than Concurrent allows.
THEOREM ClaimsOneAhead == Spec => []OneAhead
<1>1. RuntimeInv => OneAhead
    <2> SUFFICES ASSUME RuntimeInv PROVE OneAhead
        OBVIOUS
    <2>1. Cardinality(At({"claimed", "loaded"})) <= 1
        <3> DEFINE H == At({"claimed", "loaded"})
        <3>1. CASE H = {}
            BY <3>1, FS_EmptySet
        <3>2. CASE H # {}
            <4>1. PICK m \in Messages : m \in H
                BY <3>2 DEF At
            <4>2. H = {m}
                BY <4>1 DEF RuntimeInv, InHand, At
            <4> QED  BY <4>2, FS_Singleton
        <3> QED  BY <3>1, <3>2
    <2> QED  BY <2>1 DEF RuntimeInv, SlotsBounded, Slots, OneAhead
<1> QED  BY <1>1, RuntimeAlways, PTL

\* With auto restart a run takes exactly max_messages, unless it is canceled or
\* fails.
THEOREM TakesItsShare == Spec => []TakesMaxMessages
<1>1. RuntimeInv => TakesMaxMessages
    BY DEF RuntimeInv, Limited, TakesMaxMessages
<1> QED  BY <1>1, RuntimeAlways, PTL

\* The waiting times of both loops are the initial one, doubled with every error
\* in a row up to the limit, for any options.
THEOREM WaitsDouble == Spec => []BackoffDoubles
<1>1. RuntimeInv => BackoffDoubles
    BY DEF RuntimeInv
<1> QED  BY <1>1, RuntimeAlways, PTL

\* No error makes the forwarder give up: it returns after a cancellation only.
THEOREM ForwarderKeepsOn == Spec => []ForwarderStays
<1>1. RuntimeInv => ForwarderStays
    BY DEF RuntimeInv
<1> QED  BY <1>1, RuntimeAlways, PTL
=============================================================================
