---------------------------- MODULE WorkerProofs ----------------------------
(***************************************************************************)
(* Worker under the use WorkerNext allows: for any number of callers and   *)
(* of runs no channel is closed twice, the Runner runs once at a time, and *)
(* no failure is forgotten before it was told.                             *)
(***************************************************************************)
EXTENDS Worker, TLAPS

WorkerTypeOK ==
    /\ runs \in 0..MaxRuns
    /\ started \in BOOLEAN
    /\ err \in Results
    /\ closed \subseteq Runs
    /\ go \in [Runs -> {"none", "spawned", "running", "returned", "recorded", "ended"}]
    /\ res \in [Runs -> Results]
    /\ call \in [Callers -> [at : {"idle", "wait", "cancel", "stop"}, run : 0..MaxRuns]]
    /\ ans \in [Callers -> [is : Answers, run : 0..MaxRuns]]
    /\ told \subseteq Runs

\* The fields point to the latest run or to none.
FieldsLatest ==
    /\ ctx = done
    /\ done \in {0, runs}
    /\ started <=> done # 0
    /\ done = 0 => err = "nil"

\* Every run but the one the fields point to is over, and a run is over once
\* its own channel is closed.
OthersOver ==
    \A n \in Runs : /\ n > runs => go[n] = "none" /\ res[n] = "nil"
                    /\ n <= runs /\ n # done => go[n] = "ended"
                    /\ n \in closed <=> go[n] = "ended"

\* Whoever waits waits for the latest run.
CallsLatest ==
    \A c \in Callers : call[c].at # "idle" => call[c].run = runs /\ runs # 0

\* The error field is that of the run that ended last.
ErrLatest ==
    done # 0 /\ go[done] \in {"recorded", "ended"} => err = res[done]

\* A caller that was told of a failure waited for a run that failed and is over.
ToldTruth ==
    \A c \in Callers : ans[c].is = "error" =>
        /\ ans[c].run \in Runs
        /\ res[ans[c].run] = "error"
        /\ go[ans[c].run] = "ended"

FailuresKept == \A n \in Runs : res[n] = "error" /\ n # done => n \in told

WorkerInv ==
    /\ WorkerTypeOK /\ FieldsLatest /\ OthersOver /\ CallsLatest
    /\ ErrLatest /\ ToldTruth /\ FailuresKept /\ NoCrash

LEMMA WorkerInitInv == WorkerInit => WorkerInv
<1> SUFFICES ASSUME WorkerInit PROVE WorkerInv
    OBVIOUS
<1> USE WorkerAssumption DEF WorkerInit
<1>1. WorkerTypeOK
    <2>0. started \in BOOLEAN
        OBVIOUS
    <2>1. /\ runs \in 0..MaxRuns /\ err \in Results
          /\ closed \subseteq Runs /\ told \subseteq Runs
          /\ res \in [Runs -> Results]
        BY DEF Results
    <2>2. go \in [Runs -> {"none", "spawned", "running", "returned", "recorded", "ended"}]
        OBVIOUS
    <2>3. Idle \in [at : {"idle", "wait", "cancel", "stop"}, run : 0..MaxRuns]
        BY DEF Idle
    <2>4. [is |-> "none", run |-> 0] \in [is : Answers, run : 0..MaxRuns]
        BY DEF Answers
    <2>5. call \in [Callers -> [at : {"idle", "wait", "cancel", "stop"}, run : 0..MaxRuns]]
        BY <2>3
    <2>6. ans \in [Callers -> [is : Answers, run : 0..MaxRuns]]
        BY <2>4
    <2> QED  BY <2>0, <2>1, <2>2, <2>5, <2>6 DEF WorkerTypeOK
<1>2. FieldsLatest /\ OthersOver /\ CallsLatest /\ ErrLatest /\ ToldTruth
      /\ FailuresKept /\ NoCrash
    BY DEF FieldsLatest, OthersOver, CallsLatest, ErrLatest, ToldTruth,
           FailuresKept, NoCrash, Runs, Idle
<1> QED  BY <1>1, <1>2 DEF WorkerInv

LEMMA RefuseInv ==
    ASSUME WorkerInv, NEW c \in Callers, Refuse(c)
    PROVE  WorkerInv'
<1> USE WorkerAssumption DEF WorkerInv, Refuse, Answer, fields
<1>1. WorkerTypeOK'
    BY DEF WorkerTypeOK, Answers
<1>2. (FieldsLatest /\ OthersOver /\ CallsLatest /\ ErrLatest /\ FailuresKept
       /\ NoCrash)'
    BY DEF FieldsLatest, OthersOver, CallsLatest, ErrLatest, FailuresKept, NoCrash
<1>3. ToldTruth'
    BY DEF ToldTruth, WorkerTypeOK
<1> QED  BY <1>1, <1>2, <1>3

LEMMA StartInv ==
    ASSUME WorkerInv, NEW c \in Callers, Start(c), \A d \in Callers : call[d] = Idle
    PROVE  WorkerInv'
<1>1. CASE Refuse(c)
    BY <1>1, RefuseInv
<1>2. CASE ~started /\ ~Refuse(c)
    <2> DEFINE n == runs + 1
    <2> USE WorkerAssumption DEF WorkerInv
    <2>1. /\ done = 0 /\ n \in Runs /\ runs \in Nat /\ n # 0
          /\ runs' = n /\ started' = TRUE /\ ctx' = n /\ done' = n /\ err' = "nil"
          /\ go' = [go EXCEPT ![n] = "spawned"]
          /\ UNCHANGED <<closed, canceled, res, call, ans, told, crashed>>
        BY <1>2 DEF Start, FieldsLatest, WorkerTypeOK, Runs
    <2>2. WorkerTypeOK'
        BY <2>1 DEF WorkerTypeOK, Runs, Results
    <2>3. FieldsLatest'
        BY <2>1 DEF FieldsLatest
    <2>4. OthersOver'
        BY <2>1 DEF OthersOver, WorkerTypeOK, Runs
    <2>5. CallsLatest'
        BY <2>1 DEF CallsLatest, Idle
    <2>6. ErrLatest'
        BY <2>1 DEF ErrLatest, WorkerTypeOK
    <2>7. ToldTruth'
        BY <2>1 DEF ToldTruth, OthersOver, WorkerTypeOK, Runs
    <2>8. FailuresKept'
        BY <2>1 DEF FailuresKept, Runs
    <2>9. NoCrash'
        BY <2>1 DEF NoCrash
    <2> QED  BY <2>2, <2>3, <2>4, <2>5, <2>6, <2>7, <2>8, <2>9
<1> QED  BY <1>1, <1>2 DEF Start

\* A call starts to wait, or Stop goes on to its wait.
LEMMA CaptureInv ==
    ASSUME WorkerInv, NEW c \in Callers, Wait(c) \/ Stop(c)
    PROVE  WorkerInv'
<1>1. PICK at \in {"wait", "cancel"} : Capture(c, at)
    BY DEF Wait, Stop
<1>2. CASE Refuse(c)
    BY <1>2, RefuseInv
<1>3. CASE started /\ ~Refuse(c)
    <2> USE WorkerAssumption DEF WorkerInv
    <2>1. /\ call' = [call EXCEPT ![c] = [at |-> at, run |-> done]]
          /\ UNCHANGED <<fields, runs, closed, canceled, go, res, ans, told, crashed>>
        BY <1>1, <1>3 DEF Capture
    <2>2. done = runs /\ runs # 0 /\ runs \in 0..MaxRuns
        BY <1>3 DEF FieldsLatest, WorkerTypeOK
    <2>3. WorkerTypeOK'
        BY <2>1, <2>2 DEF WorkerTypeOK, fields
    <2>4. CallsLatest'
        BY <2>1, <2>2 DEF CallsLatest, WorkerTypeOK
    <2>5. (FieldsLatest /\ OthersOver /\ ErrLatest /\ ToldTruth /\ FailuresKept
           /\ NoCrash)'
        BY <2>1 DEF fields, FieldsLatest, OthersOver, ErrLatest, ToldTruth,
                    FailuresKept, NoCrash
    <2> QED  BY <2>3, <2>4, <2>5
<1> QED  BY <1>1, <1>2, <1>3 DEF Capture

LEMMA StopCancelsInv ==
    ASSUME WorkerInv, NEW c \in Callers, StopCancels(c)
    PROVE  WorkerInv'
<1> USE DEF WorkerInv, StopCancels
<1>1. WorkerTypeOK' /\ CallsLatest'
    BY DEF WorkerTypeOK, CallsLatest, fields
<1>2. (FieldsLatest /\ OthersOver /\ ErrLatest /\ ToldTruth /\ FailuresKept
       /\ NoCrash)'
    BY DEF fields, FieldsLatest, OthersOver, ErrLatest, ToldTruth,
           FailuresKept, NoCrash
<1> QED  BY <1>1, <1>2

\* The heart of the argument: whoever wakes up waited for the latest run, so
\* the error it takes away is that run's, or the run was reported before.
LEMMA AwakeInv ==
    ASSUME WorkerInv, NEW c \in Callers, Awake(c)
    PROVE  WorkerInv'
<1> DEFINE n == call[c].run
<1> USE WorkerAssumption DEF WorkerInv
<1>1. /\ n = runs /\ n \in Runs /\ runs # 0
    BY DEF Awake, CallsLatest, WorkerTypeOK, Runs
<1>2. go[n] = "ended"
    BY <1>1 DEF Awake, OthersOver
<1>3. /\ done # 0 => done = n /\ err = res[n]
      /\ done = 0 => err = "nil"
    BY <1>1, <1>2 DEF FieldsLatest, ErrLatest
<1>4. err \in Results /\ (err = "error" => res[n] = "error")
    BY <1>3 DEF WorkerTypeOK, Results
<1>5. /\ started' = FALSE /\ ctx' = 0 /\ done' = 0 /\ err' = "nil"
      /\ call' = [call EXCEPT ![c] = Idle]
      /\ ans' = [ans EXCEPT ![c] = [is |-> err, run |-> n]]
      /\ told' = IF err = "error" THEN told \cup {n} ELSE told
      /\ UNCHANGED <<runs, closed, canceled, go, res, crashed>>
    BY DEF Awake, resetLocked, Answer
<1> HIDE DEF n
<1>6. WorkerTypeOK'
    <2>1. runs' \in 0..MaxRuns /\ started' \in BOOLEAN /\ err' \in Results
          /\ closed' \subseteq Runs
        BY <1>5 DEF WorkerTypeOK, Results
    <2>2. /\ go' \in [Runs -> {"none", "spawned", "running", "returned", "recorded", "ended"}]
          /\ res' \in [Runs -> Results]
        BY <1>5 DEF WorkerTypeOK
    <2>3. call' \in [Callers -> [at : {"idle", "wait", "cancel", "stop"}, run : 0..MaxRuns]]
        BY <1>5 DEF WorkerTypeOK, Idle
    <2>4. ans' \in [Callers -> [is : Answers, run : 0..MaxRuns]]
        BY <1>1, <1>4, <1>5 DEF WorkerTypeOK, Answers
    <2>5. told' \subseteq Runs
        BY <1>1, <1>5 DEF WorkerTypeOK
    <2> QED  BY <2>1, <2>2, <2>3, <2>4, <2>5 DEF WorkerTypeOK
<1>7. FieldsLatest' /\ ErrLatest' /\ NoCrash'
    BY <1>5 DEF FieldsLatest, ErrLatest, NoCrash
<1>8. OthersOver'
    BY <1>1, <1>2, <1>3, <1>5 DEF OthersOver
<1>9. CallsLatest'
    BY <1>5 DEF CallsLatest, Idle, WorkerTypeOK
<1>10. ToldTruth'
    BY <1>1, <1>2, <1>4, <1>5 DEF ToldTruth, WorkerTypeOK
<1>11. FailuresKept'
    <2> SUFFICES ASSUME NEW k \in Runs, res[k] = "error" PROVE k \in told'
        BY <1>5 DEF FailuresKept
    <2>1. CASE k = done
        <3>1. k = n /\ err = "error"
            BY <1>3, <2>1 DEF Runs
        <3> QED  BY <1>5, <3>1
    <2>2. CASE k # done
        BY <1>5, <2>2 DEF FailuresKept
    <2> QED  BY <2>1, <2>2
<1> QED  BY <1>6, <1>7, <1>8, <1>9, <1>10, <1>11

LEMMA GoStepInv ==
    ASSUME WorkerInv, NEW n \in Runs, GoStep(n)
    PROVE  WorkerInv'
<1> USE WorkerAssumption DEF WorkerInv
<1>1. /\ go[n] \in {"spawned", "running", "returned", "recorded"}
      /\ n = done /\ done # 0 /\ n \notin closed
    BY DEF GoStep, GoRun, GoReturn, GoRecord, GoClose, OthersOver, WorkerTypeOK,
           FieldsLatest, Runs
<1>2. /\ UNCHANGED <<started, ctx, done, runs, call, ans, told>>
      /\ \A k \in Runs \ {n} : go'[k] = go[k] /\ res'[k] = res[k]
      /\ \A k \in Runs \ {n} : k \in closed' <=> k \in closed
    BY <1>1 DEF GoStep, GoRun, GoReturn, GoRecord, GoClose, fields, WorkerTypeOK
<1>3. FieldsLatest' /\ CallsLatest'
    <2>1. done' # 0
        BY <1>1, <1>2
    <2> QED  BY <1>2, <2>1 DEF FieldsLatest, CallsLatest
<1>4. ToldTruth'
    BY <1>1, <1>2 DEF ToldTruth
<1>5. FailuresKept'
    BY <1>1, <1>2 DEF FailuresKept
<1>6. CASE GoRun(n)
    <2>1. /\ go' = [go EXCEPT ![n] = "running"]
          /\ UNCHANGED <<err, closed, res, crashed>>
        BY <1>1, <1>6 DEF GoRun, FieldsLatest, fields
    <2>2. WorkerTypeOK' /\ OthersOver' /\ ErrLatest' /\ NoCrash'
        BY <1>1, <1>2, <2>1 DEF WorkerTypeOK, OthersOver, ErrLatest, NoCrash, FieldsLatest
    <2> QED  BY <1>3, <1>4, <1>5, <2>2
<1>7. CASE GoReturn(n)
    <2>1. PICK r \in Results : res' = [res EXCEPT ![n] = r]
        BY <1>7 DEF GoReturn
    <2>2. /\ go' = [go EXCEPT ![n] = "returned"]
          /\ UNCHANGED <<err, closed, crashed>>
        BY <1>7 DEF GoReturn, fields
    <2>3. WorkerTypeOK' /\ OthersOver' /\ ErrLatest' /\ NoCrash'
        BY <1>1, <1>2, <2>1, <2>2
        DEF WorkerTypeOK, OthersOver, ErrLatest, NoCrash, FieldsLatest
    <2> QED  BY <1>3, <1>4, <1>5, <2>3
<1>8. CASE GoRecord(n)
    <2>1. /\ go' = [go EXCEPT ![n] = "recorded"] /\ err' = res[n]
          /\ UNCHANGED <<closed, res, crashed>>
        BY <1>8 DEF GoRecord
    <2>2. WorkerTypeOK' /\ OthersOver' /\ ErrLatest' /\ NoCrash'
        BY <1>1, <1>2, <2>1 DEF WorkerTypeOK, OthersOver, ErrLatest, NoCrash, FieldsLatest
    <2> QED  BY <1>3, <1>4, <1>5, <2>2
<1>9. CASE GoClose(n)
    <2>1. /\ go' = [go EXCEPT ![n] = "ended"] /\ closed' = closed \cup {n}
          /\ UNCHANGED <<err, res, crashed>>
        BY <1>1, <1>9 DEF GoClose, fields
    <2>2. WorkerTypeOK' /\ OthersOver' /\ ErrLatest' /\ NoCrash'
        BY <1>1, <1>2, <1>9, <2>1
        DEF GoClose, WorkerTypeOK, OthersOver, ErrLatest, NoCrash, FieldsLatest
    <2> QED  BY <1>3, <1>4, <1>5, <2>2
<1> QED  BY <1>6, <1>7, <1>8, <1>9 DEF GoStep

LEMMA WorkerNextInv == WorkerInv /\ [WorkerNext]_workerVars => WorkerInv'
<1> SUFFICES ASSUME WorkerInv, [WorkerNext]_workerVars PROVE WorkerInv'
    OBVIOUS
<1>1. CASE WorkerNext
    BY <1>1, StartInv, CaptureInv, StopCancelsInv, AwakeInv, GoStepInv DEF WorkerNext
<1>2. CASE UNCHANGED workerVars
    BY <1>2 DEF workerVars, WorkerInv, WorkerTypeOK, FieldsLatest, OthersOver,
                CallsLatest, ErrLatest, ToldTruth, FailuresKept, NoCrash
<1> QED  BY <1>1, <1>2

\* However many callers wait for or stop a worker at the same time, its
\* goroutines never close a nil channel or one that is closed, so none of them
\* ends the process.
THEOREM WorkerNeverCrashes == WorkerSpec => []NoCrash
<1>1. WorkerInv => NoCrash
    BY DEF WorkerInv
<1> QED  BY <1>1, WorkerInitInv, WorkerNextInv, PTL DEF WorkerSpec

\* Two goroutines of a worker never run its Runner at the same time: a Start
\* that is not refused finds the earlier goroutine at its end.
THEOREM RunnerRunsOnce == WorkerSpec => []OneRunner
<1>1. WorkerInv => OneRunner
    <2> SUFFICES ASSUME WorkerInv, NEW n \in Runs, Live(n) PROVE n = done
        BY DEF OneRunner
    <2>1. n \in Int /\ runs \in Int
        BY WorkerAssumption DEF WorkerInv, WorkerTypeOK, Runs
    <2>2. ~(n > runs) /\ ~(n <= runs /\ n # done)
        BY DEF WorkerInv, OthersOver, Live
    <2> QED  BY <2>1, <2>2
<1> QED  BY <1>1, WorkerInitInv, WorkerNextInv, PTL DEF WorkerSpec

\* The failure of a run is told to a caller before the worker forgets the run,
\* and no caller is told of a failure that did not happen.
THEOREM FailuresAreTold == WorkerSpec => []FailureTold
<1>1. WorkerInv => FailureTold
    BY DEF WorkerInv, FailureTold, ToldTruth, FailuresKept
<1> QED  BY <1>1, WorkerInitInv, WorkerNextInv, PTL DEF WorkerSpec
=============================================================================
