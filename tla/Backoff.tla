------------------------------ MODULE Backoff ------------------------------
(***************************************************************************)
(* pkg/queue/backoff.go: the waiting time after errors, doubled after each *)
(* one up to a limit.  Times are whole seconds.                            *)
(***************************************************************************)
EXTENDS Integers

newBackoff(initial, max) ==
    LET i == IF initial <= 0 THEN 1 ELSE initial
    IN  [initial |-> i, max |-> IF max < i THEN i ELSE max, current |-> i]

\* Mutant: the limit is tested before the value is doubled.
AdvanceUnlimited(b) ==
    [b EXCEPT !.current = IF b.current > b.max THEN b.max ELSE 2 * b.current]

Advance(b) ==
    [b EXCEPT !.current = IF b.current <= 0 \/ 2 * b.current > b.max
                          THEN b.max ELSE 2 * b.current]

Reset(b) == [b EXCEPT !.current = b.initial]

-----------------------------------------------------------------------------

\* What the waiting time is after n errors in a row, told without the history
\* of calls: Advance and Reset are checked against it.
AfterErrors(b, n) ==
    LET full == b.initial * 2^n IN IF full > b.max THEN b.max ELSE full
=============================================================================
