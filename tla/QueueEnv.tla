------------------------------ MODULE QueueEnv ------------------------------
(***************************************************************************)
(* What the loops of one queue process share: the context they are run     *)
(* with, Redis, and the messages of the channel.  Module Delivery has the  *)
(* scripts in detail; here a message is where the loops have it.           *)
(***************************************************************************)
EXTENDS Integers, FiniteSets, Backoff

CONSTANTS
    Messages,   \* messages of the channel
    MaxFaults   \* how many commands of the loops fail at most (a bound for TLC)

ASSUME EnvAssumption == IsFiniteSet(Messages) /\ MaxFaults \in Nat

VARIABLES
    ctxDone,    \* the context was canceled
    at,         \* message -> where it is
    faults      \* failed commands so far

envVars == <<ctxDone, at, faults>>

\* In Redis: delayed, waiting, reserved without anyone who works on it
\* (orphaned), timeout.  With the consumer: claimed by popScript, loaded and
\* waiting for a slot, in a handler, and its goroutine on the way out: finished,
\* slot given back (released), gone.  A message without entity is forgotten.
Places == {"delayed", "waiting", "orphaned", "timeout", "claimed", "loaded",
           "handling", "finished", "released", "gone", "forgotten"}

At(P) == {m \in Messages : at[m] \in P}
Move(m, p) == at' = [at EXCEPT ![m] = p]

EnvInit ==
    /\ ctxDone = FALSE
    /\ at \in [Messages -> {"delayed", "waiting"}]
    /\ faults = 0

\* A command fails: a lost connection, a timeout, LOADING, READONLY and so on, or
\* the canceled context cuts it off.
CommandFails ==
    \/ faults < MaxFaults /\ faults' = faults + 1
    \/ ctxDone /\ UNCHANGED faults

Cancel == ~ctxDone /\ ctxDone' = TRUE /\ UNCHANGED <<at, faults>>
=============================================================================
