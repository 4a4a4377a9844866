---------------------------- MODULE ManagerProofs ----------------------------
(***************************************************************************)
(* The manager, for any number of callers, queues and processes, and any   *)
(* number of starts that are made while nobody is in a call: nothing left  *)
(* behind by Stop or by a failed start, no failure lost, and no panic but  *)
(* the one that needs a goroutine which Run or Stop left in its Wait.      *)
(*                                                                         *)
(* All of it rests on two facts about the shared WaitGroup.  Attended: a   *)
(* caller stays in its call while a Wait of its own is going on.  So there *)
(* is none when a start adds goroutines, and hence WaitsEnded: a Wait that *)
(* was woken, or is over while its call has yet to go on, finds no         *)
(* goroutine.  Neither is true of a Wait that was left behind.             *)
(***************************************************************************)
EXTENDS Manager, TLAPS

UnitStates == {"none", "spawned", "running", "failed", "leaving", "ended"}
WaitStates == {"none", "called", "blocked", "woken", "done"}
CallStates == {"idle", "starting", "rollback", "cancel", "stopping", "waiting", "run"}
CallRecords == [at : CallStates, gen : Nat]

ManagerTypeOK ==
    /\ started \in BOOLEAN
    /\ cur \in Nat
    /\ unit \in [Units -> UnitStates]
    /\ ctxOf \in [Units -> Nat]
    /\ waiter \in [Waiters -> WaitStates]
    /\ call \in [Callers -> CallRecords]

\* A Wait that its call waits for, and where the caller is meanwhile.
Own(w) == w[1] \notin Behind
Awaits(w) ==
    IF w[1] = "call" THEN {"waiting", "rollback"} ELSE
    IF w[1] = "stop" THEN {"stopping"} ELSE {"run"}

Attended ==
    \A w \in Waiters : IF Own(w) THEN waiter[w] # "none" => call[w[2]].at \in Awaits(w)
                                 ELSE waiter[w] # "done"

WaitsEnded ==
    \A w \in Waiters : Own(w) /\ waiter[w] \in {"woken", "done"} => Live = {}

\* While goroutines are at work the map of errors is there.
MapMade == Live # {} => errors # NoMap

\* What failed since the start is recorded, or its goroutine is about to do so.
Recorded ==
    /\ <<>> \notin bad
    /\ \A u \in Units : unit[u] = "failed" => Key(u) \in bad
    /\ errors # NoMap =>
        /\ errors \subseteq bad
        /\ \A k \in bad \ errors : \E u \in Units : unit[u] = "failed" /\ Key(u) = k

ManagerInv ==
    /\ ManagerTypeOK /\ NoNilMapWrite /\ PanicNeedsLeftover
    /\ RestsWhenStopped /\ UnderCurrentContext
    /\ Attended /\ WaitsEnded /\ MapMade /\ Recorded

\* A state from which there are steps.
Up == ManagerInv /\ crashed = "none"

-----------------------------------------------------------------------------
(* The operators that steps are made of. *)

LEMMA AtMoves ==
    ASSUME ManagerTypeOK, NEW c \in Callers, NEW s \in CallStates, At(c, s)
    PROVE  /\ call' \in [Callers -> CallRecords]
           /\ call'[c].at = s
           /\ \A d \in Callers : d # c => call'[d] = call[d]
BY DEF ManagerTypeOK, At, CallRecords

LEMMA FinishMoves ==
    ASSUME ManagerTypeOK, NEW c \in Callers, Finish(c)
    PROVE  /\ call' \in [Callers -> CallRecords]
           /\ call'[c].at = "idle"
           /\ \A d \in Callers : d # c => call'[d] = call[d]
<1>1. Idle \in CallRecords /\ Idle.at = "idle"
    BY DEF Idle, CallRecords, CallStates
<1>2. call' = [call EXCEPT ![c] = Idle]
    BY DEF Finish
<1> HIDE DEF Idle
<1> QED  BY <1>1, <1>2 DEF ManagerTypeOK

LEMMA WaitingMoves ==
    ASSUME ManagerTypeOK, NEW w \in Waiters, NEW s \in WaitStates, Waiting(w, s)
    PROVE  /\ waiter' \in [Waiters -> WaitStates]
           /\ waiter'[w] = s
           /\ \A v \in Waiters : v # w => waiter'[v] = waiter[v]
BY DEF ManagerTypeOK, Waiting

\* The waits of a caller, and where the caller is in each of its own.
LEMMA WaitersOf ==
    ASSUME NEW c \in Callers
    PROVE  /\ \A k \in {"call", "stop", "run"} :
                <<k, c>> \in Waiters /\ Own(<<k, c>>) /\ <<k, c>>[2] = c
           /\ \A k \in Behind : <<k, c>> \in Waiters /\ ~Own(<<k, c>>)
           /\ Awaits(<<"call", c>>) = {"waiting", "rollback"}
           /\ Awaits(<<"stop", c>>) = {"stopping"}
           /\ Awaits(<<"run", c>>) = {"run"}
BY DEF Waiters, Awaits, Own, Behind

LEMMA WaiterIs ==
    ASSUME NEW w \in Waiters
    PROVE  /\ w[2] \in Callers
           /\ w = <<w[1], w[2]>>
           /\ \/ w[1] = "call" /\ Own(w) /\ Awaits(w) = {"waiting", "rollback"}
              \/ w[1] = "stop" /\ Own(w) /\ Awaits(w) = {"stopping"}
              \/ w[1] = "run" /\ Own(w) /\ Awaits(w) = {"run"}
              \/ w[1] \in Behind /\ ~Own(w)
BY DEF Waiters, Awaits, Own, Behind

\* A caller is in one wait of its own at most.
LEMMA OneWait ==
    ASSUME NEW v \in Waiters, NEW w \in Waiters, Own(v), Own(w), v[2] = w[2], v # w
    PROVE  Awaits(v) \cap Awaits(w) = {}
BY WaiterIs

LEMMA NoPanicYet ==
    ASSUME crashed' = "none"
    PROVE  NoNilMapWrite' /\ PanicNeedsLeftover'
BY DEF NoNilMapWrite, PanicNeedsLeftover

\* A step that leaves the goroutines and the record of errors alone.
LEMMA GoroutinesKept ==
    ASSUME ManagerInv, UNCHANGED <<unit, ctxOf, cur, errors, bad>>
    PROVE  Live' = Live /\ UnderCurrentContext' /\ MapMade' /\ Recorded'
<1>1. Live' = Live
    BY DEF Live
<1>2. UnderCurrentContext'
    BY <1>1 DEF ManagerInv, UnderCurrentContext
<1>3. MapMade'
    BY <1>1 DEF ManagerInv, MapMade
<1>4. Recorded'
    BY DEF ManagerInv, Recorded
<1> QED  BY <1>1, <1>2, <1>3, <1>4

-----------------------------------------------------------------------------
(* Registration and the WaitGroup. *)

LEMMA ManagerInitInv == ManagerInit => ManagerInv
<1> SUFFICES ASSUME ManagerInit PROVE ManagerInv
    OBVIOUS
<1>1. Live = {}
    BY DEF ManagerInit, Live
<1>2. ManagerTypeOK
    <2>1. Idle \in CallRecords
        BY DEF Idle, CallRecords, CallStates
    <2>2. started \in BOOLEAN
        BY DEF ManagerInit
    <2>3. cur \in Nat /\ ctxOf \in [Units -> Nat]
        BY DEF ManagerInit
    <2>4. unit \in [Units -> UnitStates] /\ waiter \in [Waiters -> WaitStates]
        BY DEF ManagerInit, UnitStates, WaitStates
    <2>5. call \in [Callers -> CallRecords]
        BY <2>1 DEF ManagerInit
    <2> QED  BY <2>2, <2>3, <2>4, <2>5 DEF ManagerTypeOK
<1>3. NoNilMapWrite /\ PanicNeedsLeftover
    BY DEF ManagerInit, NoNilMapWrite, PanicNeedsLeftover
<1>4. MapMade /\ UnderCurrentContext /\ WaitsEnded /\ Attended
    BY <1>1 DEF ManagerInit, MapMade, UnderCurrentContext, WaitsEnded, Attended
<1>5. RestsWhenStopped
    BY <1>1 DEF ManagerInit, RestsWhenStopped
<1>6. Recorded
    BY DEF ManagerInit, Recorded
<1> QED  BY <1>2, <1>3, <1>4, <1>5, <1>6 DEF ManagerInv

\* A step that changes nothing but the registrations, or nothing at all.
LEMMA RestKept ==
    ASSUME ManagerInv, UNCHANGED <<started, cur, queues, errors, canceled, unit, ctxOf,
                                   call, waiter, bad, crashed>>
    PROVE  ManagerInv'
<1>1. Live' = Live /\ UnderCurrentContext' /\ MapMade' /\ Recorded'
    BY GoroutinesKept
<1>2. ManagerTypeOK'
    BY DEF ManagerInv, ManagerTypeOK
<1>3. NoNilMapWrite' /\ PanicNeedsLeftover'
    BY DEF ManagerInv, NoNilMapWrite, PanicNeedsLeftover
<1>4. RestsWhenStopped' /\ WaitsEnded' /\ Attended'
    BY <1>1 DEF ManagerInv, RestsWhenStopped, WaitsEnded, Attended
<1> QED  BY <1>1, <1>2, <1>3, <1>4 DEF ManagerInv

LEMMA OverIs ==
    ASSUME NEW w
    PROVE  Over(w) = IF Own(w) THEN "done" ELSE "none"
BY DEF Over, Own

\* One that ends a wait, or makes a caller block.
LEMMA WaiterMoves ==
    ASSUME Up, NEW w \in Waiters, waiter[w] # "none",
           NEW s \in {"blocked", "none", "done"},
           s = "done" => Live = {} /\ Own(w), Waiting(w, s),
           UNCHANGED <<started, cur, queues, errors, canceled, unit, ctxOf, call, bad, crashed>>
    PROVE  ManagerInv'
<1>1. Live' = Live /\ UnderCurrentContext' /\ MapMade' /\ Recorded'
    BY GoroutinesKept DEF Up
<1>2. /\ waiter' \in [Waiters -> WaitStates]
      /\ waiter'[w] = s
      /\ \A v \in Waiters : v # w => waiter'[v] = waiter[v]
    BY WaitingMoves DEF Up, ManagerInv, WaitStates
<1>3. ManagerTypeOK'
    BY <1>2 DEF Up, ManagerInv, ManagerTypeOK
<1>4. RestsWhenStopped'
    BY <1>1 DEF Up, ManagerInv, RestsWhenStopped
<1>5. WaitsEnded' /\ Attended'
    BY <1>1, <1>2 DEF Up, ManagerInv, WaitsEnded, Attended
<1> QED  BY <1>1, <1>3, <1>4, <1>5, NoPanicYet DEF Up, ManagerInv

LEMMA EnterWaitInv ==
    ASSUME Up, NEW w \in Waiters, EnterWait(w)
    PROVE  ManagerInv'
<1> DEFINE s == IF Live = {} THEN Over(w) ELSE "blocked"
<1>1. s \in {"blocked", "none", "done"} /\ (s = "done" => Live = {} /\ Own(w))
    BY OverIs
<1>2. Waiting(w, s) /\ waiter[w] # "none"
    BY DEF EnterWait
<1> HIDE DEF s
<1> QED  BY <1>1, <1>2, WaiterMoves DEF EnterWait

\* A call that is woken finds no goroutine.  One that was left behind may find
\* those of a later start, and then panics.
LEMMA WaitWakesInv ==
    ASSUME Up, NEW w \in Waiters, WaitWakes(w)
    PROVE  ManagerInv'
<1>1. CASE Live = {}
    <2>1. Waiting(w, Over(w)) /\ UNCHANGED crashed /\ waiter[w] # "none"
        BY <1>1 DEF WaitWakes
    <2> QED  BY <1>1, <2>1, OverIs, WaiterMoves DEF WaitWakes
<1>2. CASE Live # {}
    <2>1. /\ crashed' = "waitgroup" /\ waiter[w] = "woken"
          /\ UNCHANGED <<started, cur, queues, errors, canceled, unit, ctxOf, call, waiter, bad>>
        BY <1>2 DEF WaitWakes
    <2>2. ~Own(w)
        BY <1>2, <2>1 DEF Up, ManagerInv, WaitsEnded
    <2>3. w[1] \in Behind /\ w[2] \in Callers /\ w = <<w[1], w[2]>>
        BY <2>2, WaiterIs
    <2>4. waiter'[<<w[1], w[2]>>] = "woken"
        BY <2>1, <2>3
    <2>5. NoNilMapWrite' /\ PanicNeedsLeftover'
        BY <2>1, <2>3, <2>4 DEF NoNilMapWrite, PanicNeedsLeftover
    <2>6. Live' = Live /\ UnderCurrentContext' /\ MapMade' /\ Recorded'
        BY <2>1, GoroutinesKept DEF Up
    <2>7. ManagerTypeOK'
        BY <2>1 DEF Up, ManagerInv, ManagerTypeOK
    <2>8. RestsWhenStopped' /\ WaitsEnded' /\ Attended'
        BY <2>1, <2>6 DEF Up, ManagerInv, RestsWhenStopped, WaitsEnded, Attended
    <2> QED  BY <2>5, <2>6, <2>7, <2>8 DEF ManagerInv
<1> QED  BY <1>1, <1>2

-----------------------------------------------------------------------------
(* Calls.  What a step of a caller c keeps is the same for all of them: the *)
(* goroutines are left alone, at most one wait of c is begun, ended or left *)
(* behind, and c attends to those of its own.                               *)

LEMMA CallerMoves ==
    ASSUME Up, NEW c \in Callers,
           UNCHANGED <<unit, ctxOf, cur, errors, bad, crashed>>,
           started' \in BOOLEAN, RestsWhenStopped',
           waiter' \in [Waiters -> WaitStates],
           \A w \in Waiters : w[2] # c => waiter'[w] = waiter[w],
           \A w \in Waiters : Own(w) => waiter'[w] \in {waiter[w], "called", "none"},
           \A w \in Waiters : ~Own(w) => waiter'[w] # "done",
           call' \in [Callers -> CallRecords],
           \A d \in Callers : d # c => call'[d] = call[d],
           \A w \in Waiters : Own(w) /\ w[2] = c /\ waiter'[w] # "none"
                                => call'[c].at \in Awaits(w)
    PROVE  ManagerInv'
<1>1. Live' = Live /\ UnderCurrentContext' /\ MapMade' /\ Recorded'
    BY GoroutinesKept DEF Up
<1>2. ManagerTypeOK'
    BY DEF Up, ManagerInv, ManagerTypeOK
<1>3. WaitsEnded'
    BY <1>1 DEF Up, ManagerInv, WaitsEnded
<1>4. Attended'
    <2> SUFFICES ASSUME NEW w \in Waiters
                 PROVE  IF Own(w) THEN waiter'[w] # "none" => call'[w[2]].at \in Awaits(w)
                                  ELSE waiter'[w] # "done"
        BY DEF Attended, Own, Awaits
    <2>1. w[2] \in Callers
        BY WaiterIs
    <2>2. CASE w[2] = c
        BY <2>2
    <2>3. CASE w[2] # c
        BY <2>1, <2>3 DEF Up, ManagerInv, Attended
    <2> QED  BY <2>2, <2>3
<1> QED  BY <1>1, <1>2, <1>3, <1>4, NoPanicYet DEF Up, ManagerInv

\* A caller that stays out of a start, or goes on in one, leaves the manager at
\* rest if it was.
LEMMA RestKeptByCaller ==
    ASSUME Up, NEW c \in Callers, UNCHANGED <<unit, started, queues>>,
           \A d \in Callers : d # c => call'[d] = call[d],
           call[c].at \in {"starting", "rollback"} => call'[c].at \in {"starting", "rollback"}
    PROVE  RestsWhenStopped'
<1>1. Live' = Live
    BY DEF Live
<1>2. (\A d \in Callers : call'[d].at \notin {"starting", "rollback"})
        => \A d \in Callers : call[d].at \notin {"starting", "rollback"}
    OBVIOUS
<1> QED  BY <1>1, <1>2 DEF Up, ManagerInv, RestsWhenStopped

\* The map of queues is cleared when no goroutine is left.
LEMMA RestReached ==
    ASSUME UNCHANGED unit, Live = {}, queues' = {}, started' = FALSE
    PROVE  RestsWhenStopped'
<1>1. Live' = {}
    BY DEF Live
<1> QED  BY <1>1 DEF RestsWhenStopped

\* A caller that was in no wait begins one: the others of its own are not there.
LEMMA BeginsWait ==
    ASSUME Up, NEW c \in Callers, call[c].at \in {"idle", "starting", "cancel"},
           NEW w \in Waiters, Own(w), w[2] = c, NEW s \in CallStates, s \in Awaits(w),
           At(c, s), call[c].at = "starting" => s = "rollback", Waiting(w, "called"),
           UNCHANGED <<started, queues, unit, ctxOf, cur, errors, bad, crashed>>
    PROVE  ManagerInv'
<1>1. /\ call' \in [Callers -> CallRecords]
      /\ call'[c].at = s
      /\ \A d \in Callers : d # c => call'[d] = call[d]
    BY AtMoves DEF Up, ManagerInv
<1>2. /\ waiter' \in [Waiters -> WaitStates]
      /\ waiter'[w] = "called"
      /\ \A v \in Waiters : v # w => waiter'[v] = waiter[v]
    BY WaitingMoves DEF Up, ManagerInv, WaitStates
<1>3. RestsWhenStopped'
    BY <1>1, RestKeptByCaller
<1>4. ASSUME NEW v \in Waiters, Own(v), v[2] = c, waiter'[v] # "none"
      PROVE  v = w
    <2> SUFFICES ASSUME v # w PROVE FALSE
        OBVIOUS
    <2>1. call[c].at \in Awaits(v)
        BY <1>2, <1>4 DEF Up, ManagerInv, Attended
    <2> QED  BY <1>4, <2>1, WaiterIs
<1>5. \A v \in Waiters : ~Own(v) => waiter'[v] # "done"
    BY <1>2 DEF Up, ManagerInv, Attended
<1>6. started' \in BOOLEAN
    BY DEF Up, ManagerInv, ManagerTypeOK
<1>7. /\ \A v \in Waiters : v[2] # c => waiter'[v] = waiter[v]
      /\ \A v \in Waiters : Own(v) => waiter'[v] \in {waiter[v], "called", "none"}
    BY <1>2
<1>8. \A v \in Waiters : Own(v) /\ v[2] = c /\ waiter'[v] # "none" => call'[c].at \in Awaits(v)
    BY <1>1, <1>4
<1> QED  BY <1>1, <1>2, <1>3, <1>5, <1>6, <1>7, <1>8, CallerMoves

LEMMA StartFailsInv ==
    ASSUME Up, NEW c \in Callers, StartFails(c)
    PROVE  ManagerInv'
BY WaitersOf, BeginsWait DEF StartFails, CallStates

LEMMA StopCancelsInv ==
    ASSUME Up, NEW c \in Callers, StopCancels(c)
    PROVE  ManagerInv'
BY WaitersOf, BeginsWait DEF StopCancels, CallStates

LEMMA WaitInv ==
    ASSUME Up, NEW c \in Callers, Wait(c)
    PROVE  ManagerInv'
BY WaitersOf, BeginsWait DEF Wait, CallStates

\* A caller in its wait w has no other: the step takes w away.
LEMMA EndsWait ==
    ASSUME Up, NEW c \in Callers, NEW w \in Waiters, Own(w), w[2] = c,
           call[c].at \in Awaits(w), waiter' \in [Waiters -> WaitStates], waiter'[w] = "none",
           \A v \in Waiters : Own(v) /\ v # w => waiter'[v] = waiter[v],
           NEW v \in Waiters, Own(v), v[2] = c
    PROVE  waiter'[v] = "none"
<1>1. CASE v = w
    BY <1>1
<1>2. CASE v # w
    <2>1. call[c].at \notin Awaits(v)
        BY <1>2, OneWait
    <2> QED  BY <1>2, <2>1 DEF Up, ManagerInv, Attended
<1> QED  BY <1>1, <1>2

\* The wait of a call that goes on is over: no goroutine is left.
LEMMA NoneLeft ==
    ASSUME Up, NEW w \in Waiters, waiter[w] = "done"
    PROVE  Own(w) /\ Live = {}
BY DEF Up, ManagerInv, WaitsEnded, Attended

LEMMA StopEndsInv ==
    ASSUME Up, NEW c \in Callers, StopEnds(c)
    PROVE  ManagerInv'
<1> DEFINE w == <<"stop", c>>
<1>1. /\ w \in Waiters /\ Own(w) /\ w[2] = c /\ Awaits(w) = {"stopping"}
    BY WaitersOf
<1>2. /\ call[c].at = "stopping" /\ waiter[w] = "done" /\ Waiting(w, "none") /\ Finish(c)
    BY DEF StopEnds
<1> HIDE DEF w
<1>3. /\ call' \in [Callers -> CallRecords]
      /\ \A d \in Callers : d # c => call'[d] = call[d]
    BY <1>2, FinishMoves DEF Up, ManagerInv
<1>4. /\ waiter' \in [Waiters -> WaitStates] /\ waiter'[w] = "none"
      /\ \A v \in Waiters : v # w => waiter'[v] = waiter[v]
    BY <1>1, <1>2, WaitingMoves DEF Up, ManagerInv, WaitStates
<1>5. RestsWhenStopped'
    BY <1>1, <1>2, NoneLeft, RestReached DEF StopEnds
<1>6. \A v \in Waiters : Own(v) /\ v[2] = c => waiter'[v] = "none"
    BY <1>1, <1>2, <1>4, EndsWait
<1>7. \A v \in Waiters : ~Own(v) => waiter'[v] # "done"
    BY <1>4 DEF Up, ManagerInv, Attended
<1>8. /\ \A v \in Waiters : v[2] # c => waiter'[v] = waiter[v]
      /\ \A v \in Waiters : Own(v) => waiter'[v] \in {waiter[v], "called", "none"}
    BY <1>1, <1>4
<1>9. UNCHANGED <<unit, ctxOf, cur, errors, bad, crashed>> /\ started' \in BOOLEAN
    BY DEF StopEnds
<1> QED  BY <1>3, <1>4, <1>5, <1>6, <1>7, <1>8, <1>9, CallerMoves

LEMMA WaitEndsInv ==
    ASSUME Up, NEW c \in Callers, WaitEnds(c)
    PROVE  ManagerInv'
<1>1. PICK w \in Waiters : /\ Own(w) /\ w[2] = c /\ call[c].at \in Awaits(w)
                           /\ Waiting(w, "none")
    BY WaitersOf DEF WaitEnds
<1>2. /\ call' \in [Callers -> CallRecords] /\ call'[c].at = "idle"
      /\ \A d \in Callers : d # c => call'[d] = call[d]
    BY FinishMoves DEF WaitEnds, Up, ManagerInv
<1>3. /\ waiter' \in [Waiters -> WaitStates] /\ waiter'[w] = "none"
      /\ \A v \in Waiters : v # w => waiter'[v] = waiter[v]
    BY <1>1, WaitingMoves DEF Up, ManagerInv, WaitStates
<1>4. RestsWhenStopped'
    BY <1>2, RestKeptByCaller DEF WaitEnds
<1>5. \A v \in Waiters : Own(v) /\ v[2] = c => waiter'[v] = "none"
    BY <1>1, <1>3, EndsWait
<1>6. \A v \in Waiters : ~Own(v) => waiter'[v] # "done"
    BY <1>1, <1>3 DEF Up, ManagerInv, Attended
<1>7. UNCHANGED <<unit, ctxOf, cur, errors, bad, crashed>> /\ started' \in BOOLEAN
    BY DEF WaitEnds, Up, ManagerInv, ManagerTypeOK
<1>8. /\ \A v \in Waiters : v[2] # c => waiter'[v] = waiter[v]
      /\ \A v \in Waiters : Own(v) => waiter'[v] \in {waiter[v], "called", "none"}
    BY <1>1, <1>3
<1> QED  BY <1>2, <1>3, <1>4, <1>5, <1>6, <1>7, <1>8, CallerMoves

\* The goroutine of Stop or Run is left in its Wait, whatever the caller does next.
LEMMA LeavesBehind ==
    ASSUME Up, NEW c \in Callers, NEW from \in Waiters, NEW to \in Waiters,
           Own(from), ~Own(to), from[2] = c, to[2] = c,
           call[c].at \in Awaits(from), call[c].at # "rollback", LeaveBehind(from, to),
           call' \in [Callers -> CallRecords],
           \A d \in Callers : d # c => call'[d] = call[d],
           UNCHANGED <<started, queues, unit, ctxOf, cur, errors, bad, crashed>>
    PROVE  ManagerInv'
<1> DEFINE s == IF waiter[from] = "done" THEN "none" ELSE waiter[from]
<1>1. /\ from # to /\ waiter' = [waiter EXCEPT ![from] = "none", ![to] = s]
    BY DEF LeaveBehind
<1>2. s \in WaitStates /\ s # "done"
    BY DEF Up, ManagerInv, ManagerTypeOK, WaitStates
<1> HIDE DEF s
<1>3. /\ waiter' \in [Waiters -> WaitStates] /\ waiter'[from] = "none" /\ waiter'[to] = s
      /\ \A v \in Waiters : v # from /\ v # to => waiter'[v] = waiter[v]
    BY <1>1, <1>2 DEF Up, ManagerInv, ManagerTypeOK, WaitStates
<1>4. RestsWhenStopped'
    <2>1. call[c].at \notin {"starting", "rollback"}
        BY WaiterIs
    <2> QED  BY <2>1, RestKeptByCaller
<1>5. \A v \in Waiters : Own(v) /\ v[2] = c => waiter'[v] = "none"
    BY <1>3, EndsWait
<1>6. \A v \in Waiters : ~Own(v) => waiter'[v] # "done"
    BY <1>2, <1>3 DEF Up, ManagerInv, Attended
<1>7. started' \in BOOLEAN
    BY DEF Up, ManagerInv, ManagerTypeOK
<1>8. /\ \A v \in Waiters : v[2] # c => waiter'[v] = waiter[v]
      /\ \A v \in Waiters : Own(v) => waiter'[v] \in {waiter[v], "called", "none"}
    BY <1>3
<1> QED  BY <1>3, <1>4, <1>5, <1>6, <1>7, <1>8, CallerMoves

LEMMA StopTimesOutInv ==
    ASSUME Up, NEW c \in Callers, StopTimesOut(c)
    PROVE  ManagerInv'
<1>1. /\ call' \in [Callers -> CallRecords]
      /\ \A d \in Callers : d # c => call'[d] = call[d]
    BY FinishMoves DEF StopTimesOut, Up, ManagerInv
<1>2. "oldstop" \in Behind /\ <<"oldstop", c>>[2] = c
    BY DEF Behind
<1> QED  BY <1>1, <1>2, WaitersOf, LeavesBehind DEF StopTimesOut

LEMMA StopReadsMoves ==
    ASSUME Up, NEW c \in Callers, StopReads(c)
    PROVE  /\ call' \in [Callers -> CallRecords]
           /\ call'[c].at \in {"idle", "cancel"}
           /\ \A d \in Callers : d # c => call'[d] = call[d]
<1> DEFINE r == IF started THEN [at |-> "cancel", gen |-> cur] ELSE Idle
<1>1. r \in CallRecords /\ r.at \in {"idle", "cancel"}
    BY DEF Up, ManagerInv, ManagerTypeOK, CallRecords, CallStates, Idle
<1>2. call' = [call EXCEPT ![c] = r]
    BY DEF StopReads
<1> HIDE DEF r
<1> QED  BY <1>1, <1>2 DEF Up, ManagerInv, ManagerTypeOK

LEMMA RunCanceledInv ==
    ASSUME Up, NEW c \in Callers, RunCanceled(c)
    PROVE  ManagerInv'
<1>1. /\ call' \in [Callers -> CallRecords]
      /\ \A d \in Callers : d # c => call'[d] = call[d]
    BY StopReadsMoves DEF RunCanceled
<1>2. "oldrun" \in Behind /\ <<"oldrun", c>>[2] = c
    BY DEF Behind
<1> QED  BY <1>1, <1>2, WaitersOf, LeavesBehind DEF RunCanceled, StopReads

LEMMA StopInv ==
    ASSUME Up, NEW c \in Callers, Stop(c)
    PROVE  ManagerInv'
<1>1. /\ call' \in [Callers -> CallRecords]
      /\ call'[c].at \in {"idle", "cancel"}
      /\ \A d \in Callers : d # c => call'[d] = call[d]
    BY StopReadsMoves DEF Stop
<1>2. RestsWhenStopped'
    BY <1>1, RestKeptByCaller DEF Stop, StopReads
<1>3. \A w \in Waiters : Own(w) /\ w[2] = c => waiter'[w] = "none"
    <2> SUFFICES ASSUME NEW w \in Waiters, Own(w), w[2] = c, waiter[w] # "none" PROVE FALSE
        BY DEF Stop
    <2>1. call[c].at \in Awaits(w)
        BY DEF Up, ManagerInv, Attended
    <2> QED  BY <2>1, WaiterIs DEF Stop
<1>4. \A w \in Waiters : ~Own(w) => waiter'[w] # "done"
    BY DEF Stop, Up, ManagerInv, Attended
<1>5. started' \in BOOLEAN /\ waiter' \in [Waiters -> WaitStates]
    BY DEF Stop, StopReads, Up, ManagerInv, ManagerTypeOK
<1>6. waiter' = waiter
    BY DEF Stop
<1> QED  BY <1>1, <1>2, <1>3, <1>4, <1>5, <1>6, CallerMoves DEF Stop, StopReads

\* The rollback forgets the map of errors when nobody is left to write to it.
LEMMA RollbackEndsInv ==
    ASSUME Up, NEW c \in Callers, RollbackEnds(c)
    PROVE  ManagerInv'
<1> DEFINE w == <<"call", c>>
<1>1. /\ w \in Waiters /\ Own(w) /\ w[2] = c /\ Awaits(w) = {"waiting", "rollback"}
    BY WaitersOf
<1>2. /\ call[c].at = "rollback" /\ waiter[w] = "done" /\ Waiting(w, "none") /\ Finish(c)
    BY DEF RollbackEnds
<1> HIDE DEF w
<1>3. /\ call' \in [Callers -> CallRecords]
      /\ \A d \in Callers : d # c => call'[d] = call[d]
    BY <1>2, FinishMoves DEF Up, ManagerInv
<1>4. /\ waiter' \in [Waiters -> WaitStates] /\ waiter'[w] = "none"
      /\ \A v \in Waiters : v # w => waiter'[v] = waiter[v]
    BY <1>1, <1>2, WaitingMoves DEF Up, ManagerInv, WaitStates
<1>5. Live = {} /\ Live' = {}
    BY <1>1, <1>2, NoneLeft DEF RollbackEnds, Live
<1>6. RestsWhenStopped'
    BY <1>5, RestReached DEF RollbackEnds
<1>7. ManagerTypeOK'
    BY <1>3, <1>4 DEF RollbackEnds, Up, ManagerInv, ManagerTypeOK
<1>8. UnderCurrentContext' /\ WaitsEnded' /\ MapMade'
    BY <1>5 DEF UnderCurrentContext, WaitsEnded, MapMade
<1>9. Attended'
    <2>1. \A v \in Waiters : Own(v) /\ v[2] = c => waiter'[v] = "none"
        BY <1>1, <1>2, <1>4, EndsWait
    <2> SUFFICES ASSUME NEW v \in Waiters
                 PROVE  IF Own(v) THEN waiter'[v] # "none" => call'[v[2]].at \in Awaits(v)
                                  ELSE waiter'[v] # "done"
        BY DEF Attended, Own, Awaits
    <2>2. CASE v[2] = c
        BY <1>1, <1>4, <2>1, <2>2 DEF Up, ManagerInv, Attended
    <2>3. CASE v[2] # c
        BY <1>1, <1>3, <1>4, <2>3, WaiterIs DEF Up, ManagerInv, Attended
    <2> QED  BY <2>2, <2>3
<1>10. Recorded'
    BY DEF RollbackEnds, Up, ManagerInv, Recorded
<1>11. crashed' = "none"
    BY DEF RollbackEnds, Up
<1> QED  BY <1>6, <1>7, <1>8, <1>9, <1>10, <1>11, NoPanicYet DEF ManagerInv

-----------------------------------------------------------------------------
(* Starts. *)

NobodyCalls == \A c \in Callers : call[c].at = "idle"

\* Before a start the manager is at rest, and no call waits.
LEMMA QuietBeforeStart ==
    ASSUME Up, NobodyCalls, ~started
    PROVE  /\ Live = {} /\ queues = {}
           /\ \A w \in Waiters : Own(w) => waiter[w] = "none"
<1>1. Live = {} /\ queues = {}
    BY DEF Up, ManagerInv, RestsWhenStopped, NobodyCalls
<1>2. ASSUME NEW w \in Waiters, Own(w), waiter[w] # "none"
      PROVE  FALSE
    <2>1. call[w[2]].at \in Awaits(w)
        BY <1>2 DEF Up, ManagerInv, Attended
    <2> QED  BY <1>2, <2>1, WaiterIs DEF NobodyCalls
<1> QED  BY <1>1, <1>2

\* A start of the queues in S: the goroutines belong to the new context.
LEMMA LaunchKeeps ==
    ASSUME Up, Live = {}, NEW S \in SUBSET Queues, Launch(S), UNCHANGED ctxOf
    PROVE  /\ cur' \in Nat /\ unit' \in [Units -> UnitStates]
           /\ UnderCurrentContext' /\ MapMade' /\ Recorded'
<1>1. cur' \in Nat /\ cur' = cur + 1
    BY DEF Launch, Up, ManagerInv, ManagerTypeOK
<1>2. unit' \in [Units -> UnitStates]
    BY DEF Launch, Up, ManagerInv, ManagerTypeOK, UnitStates
<1>3. \A u \in Units : unit'[u] \notin {"none", "ended"}
                        => u[1] = cur + 1 /\ unit'[u] = "spawned"
    BY DEF Launch, Live
<1>4. UnderCurrentContext'
    BY <1>1, <1>3 DEF UnderCurrentContext, Live
<1>5. MapMade'
    BY DEF MapMade, Launch, NoMap
<1>6. Recorded'
    BY <1>3 DEF Launch, Recorded
<1> QED  BY <1>1, <1>2, <1>4, <1>5, <1>6

LEMMA StartOkInv ==
    ASSUME Up, NEW c \in Callers, NEW next \in {"idle", "run"},
           NobodyCalls, ~started, StartOk(c, next)
    PROVE  ManagerInv'
<1>1. /\ Live = {} /\ queues = {}
      /\ \A w \in Waiters : Own(w) => waiter[w] = "none"
    BY QuietBeforeStart
<1>2. /\ cur' \in Nat /\ unit' \in [Units -> UnitStates]
      /\ UnderCurrentContext' /\ MapMade' /\ Recorded'
    BY <1>1, LaunchKeeps DEF StartOk
<1>3. /\ call' \in [Callers -> CallRecords]
      /\ call'[c].at = next
      /\ \A d \in Callers : d # c => call'[d] = call[d]
    BY AtMoves DEF StartOk, Up, ManagerInv, CallStates
<1>4. /\ waiter' \in [Waiters -> WaitStates]
      /\ \A v \in Waiters : waiter'[v] = waiter[v]
                            \/ (next = "run" /\ v = <<"run", c>> /\ waiter'[v] = "called")
    <2>1. CASE next = "run"
        <3>1. <<"run", c>> \in Waiters /\ Waiting(<<"run", c>>, "called")
            BY <2>1, WaitersOf DEF StartOk
        <3> QED  BY <2>1, <3>1, WaitingMoves DEF Up, ManagerInv, WaitStates
    <2>2. CASE next = "idle"
        BY <2>2 DEF StartOk, Up, ManagerInv, ManagerTypeOK
    <2> QED  BY <2>1, <2>2
<1>5. ManagerTypeOK'
    BY <1>2, <1>3, <1>4 DEF StartOk, Up, ManagerInv, ManagerTypeOK
<1>6. RestsWhenStopped'
    BY <1>1 DEF StartOk, Launch, RestsWhenStopped
<1>7. WaitsEnded'
    BY <1>1, <1>4 DEF WaitsEnded
<1>8. Attended'
    <2> SUFFICES ASSUME NEW w \in Waiters
                 PROVE  IF Own(w) THEN waiter'[w] # "none" => call'[w[2]].at \in Awaits(w)
                                  ELSE waiter'[w] # "done"
        BY DEF Attended, Own, Awaits
    <2>1. CASE waiter'[w] = waiter[w]
        BY <1>1, <2>1 DEF Up, ManagerInv, Attended
    <2>2. CASE next = "run" /\ w = <<"run", c>> /\ waiter'[w] = "called"
        <3>1. Own(w) /\ w[2] = c /\ Awaits(w) = {"run"}
            BY <2>2, WaitersOf
        <3> QED  BY <1>3, <2>2, <3>1
    <2> QED  BY <1>4, <2>1, <2>2
<1>9. crashed' = "none"
    BY DEF StartOk, Up
<1> QED  BY <1>2, <1>5, <1>6, <1>7, <1>8, <1>9, NoPanicYet DEF ManagerInv

LEMMA StartSomeInv ==
    ASSUME Up, NEW c \in Callers, NobodyCalls, ~started, StartSome(c)
    PROVE  ManagerInv'
<1>1. /\ Live = {} /\ queues = {}
      /\ \A w \in Waiters : Own(w) => waiter[w] = "none"
    BY QuietBeforeStart
<1>2. PICK S \in SUBSET Queues : Launch(S)
    BY DEF StartSome
<1>3. /\ cur' \in Nat /\ unit' \in [Units -> UnitStates]
      /\ UnderCurrentContext' /\ MapMade' /\ Recorded'
    BY <1>1, <1>2, LaunchKeeps DEF StartSome
<1>4. /\ call' \in [Callers -> CallRecords]
      /\ call'[c].at = "starting"
    BY AtMoves DEF StartSome, Up, ManagerInv, CallStates
<1>5. ManagerTypeOK'
    BY <1>3, <1>4 DEF StartSome, Up, ManagerInv, ManagerTypeOK
<1>6. RestsWhenStopped'
    BY <1>4 DEF StartSome, RestsWhenStopped
<1>7. waiter' = waiter /\ crashed' = "none"
    BY DEF StartSome, Up
<1>8. WaitsEnded' /\ Attended'
    BY <1>1, <1>7 DEF WaitsEnded, Attended, Own, Up, ManagerInv
<1> QED  BY <1>3, <1>5, <1>6, <1>7, <1>8, NoPanicYet DEF ManagerInv

LEMMA BeginInv ==
    ASSUME Up, NEW c \in Callers, NEW next \in {"idle", "run"}, NobodyCalls, Begin(c, next)
    PROVE  ManagerInv'
<1>1. CASE UNCHANGED managerVars
    BY <1>1, RestKept DEF managerVars, Up
<1>2. CASE ~started /\ StartOk(c, next)
    BY <1>2, StartOkInv
<1>3. CASE ~started /\ StartSome(c)
    BY <1>3, StartSomeInv
<1> QED  BY <1>1, <1>2, <1>3 DEF Begin

-----------------------------------------------------------------------------
(* The goroutines. *)

\* A step of a goroutine at work, after which it is still at work.
LEMMA UnitMoves ==
    ASSUME Up, NEW u \in Units, NEW s \in UnitStates \ {"none", "ended"},
           unit[u] \notin {"none", "ended"}, Step(u, s)
    PROVE  /\ unit' \in [Units -> UnitStates]
           /\ unit'[u] = s
           /\ \A v \in Units : v # u => unit'[v] = unit[v]
           /\ Live' = Live /\ u \in Live
BY DEF Up, ManagerInv, ManagerTypeOK, Step, Live

\* What such a step keeps as long as it leaves the callers alone.
LEMMA CallersKept ==
    ASSUME Up, Live' = Live, UNCHANGED <<started, queues, call, waiter>>
    PROVE  RestsWhenStopped' /\ WaitsEnded' /\ Attended'
BY DEF Up, ManagerInv, RestsWhenStopped, WaitsEnded, Attended, Own, Awaits

LEMMA UnitStartsInv ==
    ASSUME Up, NEW u \in Units, UnitStarts(u)
    PROVE  ManagerInv'
<1> DEFINE s == IF IsRolling(u) /\ cur \in canceled THEN "leaving" ELSE "running"
<1>1. s \in UnitStates \ {"none", "ended"} /\ Step(u, s)
    BY DEF UnitStarts, UnitStates
<1>2. /\ ctxOf' \in [Units -> Nat]
      /\ s = "running" => ctxOf'[u] = cur
      /\ \A v \in Units : v # u => ctxOf'[v] = ctxOf[v]
    BY DEF UnitStarts, Up, ManagerInv, ManagerTypeOK
<1>3. s # "failed"
    OBVIOUS
<1> HIDE DEF s
<1>4. /\ unit' \in [Units -> UnitStates]
      /\ unit'[u] = s
      /\ \A v \in Units : v # u => unit'[v] = unit[v]
      /\ Live' = Live /\ u \in Live
    BY <1>1, UnitMoves DEF UnitStarts
<1>5. ManagerTypeOK'
    <2>1. started' \in BOOLEAN
        BY DEF UnitStarts, Up, ManagerInv, ManagerTypeOK
    <2> QED  BY <1>2, <1>4, <2>1 DEF UnitStarts, Up, ManagerInv, ManagerTypeOK
<1>6. RestsWhenStopped' /\ WaitsEnded' /\ Attended'
    BY <1>4, CallersKept DEF UnitStarts
<1>7. crashed' = "none" /\ MapMade'
    BY <1>4 DEF UnitStarts, Up, ManagerInv, MapMade
<1>8. UnderCurrentContext'
    <2>1. \A v \in Live : v \in Units
        BY DEF Live
    <2>2. cur' = cur
        BY DEF UnitStarts
    <2> QED  BY <1>2, <1>4, <2>1, <2>2 DEF Up, ManagerInv, UnderCurrentContext
<1>9. Recorded'
    <2>1. unit[u] # "failed" /\ UNCHANGED <<errors, bad>>
        BY DEF UnitStarts
    <2>2. \A v \in Units : unit[v] = "failed" <=> unit'[v] = "failed"
        BY <1>3, <1>4, <2>1
    <2> QED  BY <2>1, <2>2 DEF Up, ManagerInv, Recorded
<1> QED  BY <1>5, <1>6, <1>7, <1>8, <1>9, NoPanicYet DEF ManagerInv

LEMMA AfterWorkerIs ==
    ASSUME NEW u
    PROVE  AfterWorker(u) \in {"spawned", "leaving"}
BY DEF AfterWorker

LEMMA UnitReturnsInv ==
    ASSUME Up, NEW u \in Units, UnitReturns(u)
    PROVE  ManagerInv'
<1>1. PICK s \in {"spawned", "leaving", "failed"} :
        /\ Step(u, s)
        /\ \/ s # "failed" /\ bad' = bad
           \/ s = "failed" /\ bad' = bad \cup {Key(u)}
    BY AfterWorkerIs DEF UnitReturns
<1>2. /\ unit' \in [Units -> UnitStates]
      /\ unit'[u] = s
      /\ \A v \in Units : v # u => unit'[v] = unit[v]
      /\ Live' = Live /\ u \in Live
    BY <1>1, UnitMoves DEF UnitReturns, UnitStates
<1>3. ManagerTypeOK'
    <2>1. started' \in BOOLEAN
        BY DEF UnitReturns, Up, ManagerInv, ManagerTypeOK
    <2> QED  BY <1>2, <2>1 DEF UnitReturns, Up, ManagerInv, ManagerTypeOK
<1>4. RestsWhenStopped' /\ WaitsEnded' /\ Attended'
    BY <1>2, CallersKept DEF UnitReturns
<1>5. crashed' = "none" /\ MapMade'
    BY <1>2 DEF UnitReturns, Up, ManagerInv, MapMade
<1>6. UnderCurrentContext'
    <2>1. \A v \in Live : v \in Units
        BY DEF Live
    <2>2. cur' = cur /\ ctxOf' = ctxOf
        BY DEF UnitReturns
    <2> QED  BY <1>1, <1>2, <2>1, <2>2 DEF Up, ManagerInv, UnderCurrentContext
<1>7. Recorded'
    <2>1. errors' = errors /\ unit[u] = "running"
        BY DEF UnitReturns
    <2>2. \A v \in Units : v # u => (unit[v] = "failed" <=> unit'[v] = "failed")
        BY <1>2
    <2>3. CASE s # "failed" /\ bad' = bad
        BY <1>2, <2>1, <2>2, <2>3 DEF Up, ManagerInv, Recorded
    <2>4. CASE s = "failed" /\ bad' = bad \cup {Key(u)}
        <3>1. Key(u) # <<>>
            BY DEF Key
        <3> QED  BY <1>2, <2>1, <2>2, <2>4, <3>1 DEF Up, ManagerInv, Recorded
    <2> QED  BY <1>1, <2>3, <2>4
<1> QED  BY <1>3, <1>4, <1>5, <1>6, <1>7, NoPanicYet DEF ManagerInv

\* The map is there when a failure is recorded: the write does not panic.
LEMMA UnitRecordsInv ==
    ASSUME Up, NEW u \in Units, UnitRecords(u)
    PROVE  ManagerInv'
<1>1. unit[u] = "failed" /\ errors # NoMap
    BY DEF UnitRecords, Up, ManagerInv, MapMade, Live
<1>2. PICK s \in {"spawned", "leaving"} : Step(u, s)
    BY <1>1, AfterWorkerIs DEF UnitRecords
<1>3. errors' = errors \cup {Key(u)} /\ UNCHANGED crashed
    BY <1>1 DEF UnitRecords
<1>4. /\ unit' \in [Units -> UnitStates]
      /\ unit'[u] = s
      /\ \A v \in Units : v # u => unit'[v] = unit[v]
      /\ Live' = Live /\ u \in Live
    BY <1>1, <1>2, UnitMoves DEF UnitStates
<1>5. ManagerTypeOK'
    <2>1. started' \in BOOLEAN
        BY <1>3 DEF UnitRecords, Up, ManagerInv, ManagerTypeOK
    <2> QED  BY <1>4, <2>1 DEF UnitRecords, Up, ManagerInv, ManagerTypeOK
<1>6. RestsWhenStopped' /\ WaitsEnded' /\ Attended'
    BY <1>4, CallersKept DEF UnitRecords
<1>7. crashed' = "none" /\ MapMade'
    <2>1. Key(u) # <<>>
        BY DEF Key
    <2> QED  BY <1>3, <2>1 DEF Up, ManagerInv, MapMade, NoMap
<1>8. UnderCurrentContext'
    <2>1. \A v \in Live : v \in Units
        BY DEF Live
    <2>2. cur' = cur /\ ctxOf' = ctxOf
        BY DEF UnitRecords
    <2> QED  BY <1>2, <1>4, <2>1, <2>2 DEF Up, ManagerInv, UnderCurrentContext
<1>9. Recorded'
    <2>1. bad' = bad
        BY DEF UnitRecords
    <2>2. errors \subseteq bad /\ <<>> \notin bad
          /\ \A k \in bad \ errors : \E v \in Units : unit[v] = "failed" /\ Key(v) = k
        BY <1>1 DEF Up, ManagerInv, Recorded
    <2>3. Key(u) \in bad
        BY <1>1 DEF Up, ManagerInv, Recorded
    <2>4. \A k \in bad \ errors' : \E v \in Units : unit'[v] = "failed" /\ Key(v) = k
        BY <1>3, <1>4, <2>2
    <2>5. \A v \in Units : unit'[v] = "failed" => Key(v) \in bad
        BY <1>2, <1>4 DEF Up, ManagerInv, Recorded
    <2> QED  BY <1>3, <2>1, <2>2, <2>3, <2>4, <2>5 DEF Recorded
<1> QED  BY <1>5, <1>6, <1>7, <1>8, <1>9, NoPanicYet DEF ManagerInv

\* The last one to leave wakes those who wait.
LEMMA UnitDoneInv ==
    ASSUME Up, NEW u \in Units, UnitDone(u)
    PROVE  ManagerInv'
<1>1. /\ unit' \in [Units -> UnitStates]
      /\ unit'[u] = "ended"
      /\ \A v \in Units : v # u => unit'[v] = unit[v]
    BY DEF UnitDone, Step, Up, ManagerInv, ManagerTypeOK, UnitStates
<1>2. Live' = Live \ {u} /\ unit[u] = "leaving"
    BY <1>1 DEF UnitDone, Live
<1>3. /\ waiter' \in [Waiters -> WaitStates]
      /\ \A w \in Waiters : waiter'[w] = waiter[w] \/ (waiter'[w] = "woken" /\ Live = {u})
    BY DEF UnitDone, Up, ManagerInv, ManagerTypeOK, WaitStates
<1>4. /\ ctxOf' \in [Units -> Nat]
      /\ \A v \in Units : v # u => ctxOf'[v] = ctxOf[v]
    BY DEF UnitDone, Up, ManagerInv, ManagerTypeOK
<1>5. ManagerTypeOK'
    <2>1. started' \in BOOLEAN
        BY DEF UnitDone, Up, ManagerInv, ManagerTypeOK
    <2> QED  BY <1>1, <1>3, <1>4, <2>1 DEF UnitDone, Up, ManagerInv, ManagerTypeOK
<1>6. RestsWhenStopped'
    <2>1. Live = {} => Live' = {}
        BY <1>2
    <2> QED  BY <2>1 DEF UnitDone, Up, ManagerInv, RestsWhenStopped
<1>7. WaitsEnded' /\ Attended'
    <2>1. \A w \in Waiters : /\ waiter'[w] = "none" <=> waiter[w] = "none"
                             /\ waiter'[w] = "done" <=> waiter[w] = "done"
        BY DEF UnitDone, Up, ManagerInv, ManagerTypeOK
    <2>2. Attended'
        BY <2>1 DEF UnitDone, Up, ManagerInv, Attended, Own, Awaits
    <2>3. ASSUME NEW w \in Waiters, Own(w), waiter'[w] \in {"woken", "done"}
          PROVE  Live' = {}
        <3>1. CASE waiter'[w] = waiter[w]
            BY <1>2, <2>3, <3>1 DEF Up, ManagerInv, WaitsEnded
        <3>2. CASE Live = {u}
            BY <1>2, <3>2
        <3> QED  BY <1>3, <3>1, <3>2
    <2> QED  BY <2>2, <2>3 DEF WaitsEnded, Own
<1>8. crashed' = "none" /\ MapMade'
    BY <1>2 DEF UnitDone, Up, ManagerInv, MapMade
<1>9. UnderCurrentContext'
    <2>1. \A v \in Live' : v \in Units /\ v # u /\ v \in Live
        BY <1>2 DEF Live
    <2>2. cur' = cur
        BY DEF UnitDone
    <2> QED  BY <1>1, <1>4, <2>1, <2>2 DEF Up, ManagerInv, UnderCurrentContext
<1>10. Recorded'
    <2>1. \A v \in Units : unit[v] = "failed" <=> unit'[v] = "failed"
        BY <1>1, <1>2
    <2> QED  BY <2>1 DEF UnitDone, Up, ManagerInv, Recorded
<1> QED  BY <1>5, <1>6, <1>7, <1>8, <1>9, <1>10, NoPanicYet DEF ManagerInv

-----------------------------------------------------------------------------
(* The next-state relation. *)

LEMMA ProgressInv ==
    ASSUME Up, Progress
    PROVE  ManagerInv'
<1>1. CASE \E q \in Queues : Handle(q) \/ RegisterDriver(q)
    BY <1>1, RestKept DEF Handle, RegisterDriver, Up
<1>2. ASSUME NEW c \in Callers, CallStep(c) \/ StopTimesOut(c) \/ Wait(c) \/ RunCanceled(c)
      PROVE  ManagerInv'
    BY <1>2, StartFailsInv, RollbackEndsInv, StopCancelsInv, StopEndsInv,
       WaitEndsInv, StopTimesOutInv, WaitInv, RunCanceledInv DEF CallStep
<1>3. CASE \E w \in Waiters : WaiterStep(w)
    BY <1>3, EnterWaitInv, WaitWakesInv DEF WaiterStep
<1>4. CASE \E u \in Units : UnitStep(u)
    BY <1>4, UnitStartsInv, UnitReturnsInv, UnitRecordsInv, UnitDoneInv DEF UnitStep
<1> QED  BY <1>1, <1>2, <1>3, <1>4 DEF Progress

LEMMA ManagerNextInv == ManagerInv /\ [ManagerNext]_managerVars => ManagerInv'
<1> SUFFICES ASSUME ManagerInv, [ManagerNext]_managerVars PROVE ManagerInv'
    OBVIOUS
<1>1. CASE ManagerNext
    <2>1. Up
        BY <1>1 DEF ManagerNext, Up
    <2>2. CASE Progress
        BY <2>1, <2>2, ProgressInv
    <2>3. ASSUME NobodyCalls, NEW c \in Callers, StartWorker(c) \/ Run(c)
          PROVE  ManagerInv'
        BY <2>1, <2>3, BeginInv DEF StartWorker, Run
    <2>4. CASE \E c \in Callers : Stop(c)
        BY <2>1, <2>4, StopInv
    <2> QED  BY <1>1, <2>2, <2>3, <2>4 DEF ManagerNext, NobodyCalls
<1>2. CASE UNCHANGED managerVars
    BY <1>2, RestKept DEF managerVars
<1> QED  BY <1>1, <1>2

\* With no goroutine left, all that failed is in the map.
LEMMA AllRecorded ==
    ASSUME ManagerInv, Live = {}, errors # NoMap
    PROVE  runErrors = bad
<1>1. \A u \in Units : unit[u] # "failed"
    BY DEF Live
<1> QED  BY <1>1 DEF ManagerInv, Recorded, runErrors, NoMap

-----------------------------------------------------------------------------
(* Theorems. *)

LEMMA ManagerAlways == ManagerSpec => []ManagerInv
BY ManagerInitInv, ManagerNextInv, PTL DEF ManagerSpec

\* No goroutine writes its error to a nil map, for any number of starts that
\* fail half way: the rollback waits for all it has started before it forgets
\* the map, and a start makes a new one first.
THEOREM NoWriteToNilMap == ManagerSpec => []NoNilMapWrite
<1>1. ManagerInv => NoNilMapWrite
    BY DEF ManagerInv
<1> QED  BY <1>1, ManagerAlways, PTL

\* The WaitGroup panics only in a goroutine that a canceled Run or a Stop at its
\* timeout left in its Wait; calls that have returned otherwise leave nothing
\* behind that a new start could disturb.
THEOREM OnlyLeftoversPanic == ManagerSpec => []PanicNeedsLeftover
<1>1. ManagerInv => PanicNeedsLeftover
    BY DEF ManagerInv
<1> QED  BY <1>1, ManagerAlways, PTL

\* A manager that is stopped, or whose start was rolled back, has no goroutine
\* and no queue left; one that is started has all its queues.
THEOREM StoppedIsAtRest == ManagerSpec => []RestsWhenStopped
<1>1. ManagerInv => RestsWhenStopped
    BY DEF ManagerInv
<1> QED  BY <1>1, ManagerAlways, PTL

\* No goroutine outlives the context of its start, so that the one context Stop
\* cancels reaches all of them.
THEOREM OneContext == ManagerSpec => []UnderCurrentContext
<1>1. ManagerInv => UnderCurrentContext
    BY DEF ManagerInv
<1> QED  BY <1>1, ManagerAlways, PTL

\* Stop, Wait and Run return an error for every process that failed since the
\* start and for no other.
THEOREM NoFailureLost == ManagerSpec => FailuresReported
<1>1. ManagerInv =>
        [\A w \in Waiters : ReturnsErrors(w) /\ errors # NoMap => runErrors = bad]_managerVars
    <2> SUFFICES ASSUME ManagerInv, NEW w \in Waiters, ReturnsErrors(w), errors # NoMap
                 PROVE  runErrors = bad
        OBVIOUS
    <2>1. Live = {}
        BY DEF ReturnsErrors, ManagerInv, Attended, WaitsEnded
    <2> QED  BY <2>1, AllRecorded
<1> QED  BY <1>1, ManagerAlways, PTL DEF FailuresReported
=============================================================================
