------------------------------ MODULE Breakers ------------------------------
(* The counters and histories that stop the repair loops: the oscillation   *)
(* breaker of the sovereign rescue, the circuit breaker of a task's turns   *)
(* and the manager that extends a turn budget.  All are pure: a loop keeps  *)
(* their records in its own state.                                          *)
EXTENDS Naturals, Sequences, SequencesExt

-----------------------------------------------------------------------------
(* OscillationCircuitBreaker. *)

maxWindow == 12
maxReconciliations == 1
maxCyclePeriod == 4

NewOscillationCircuitBreaker == [history |-> <<>>, reconciliations |-> 0]

\* A log is the failure it reports and the turn, duration and addresses that vary from
\* run to run; the fingerprint keeps the failure only.
Fingerprint(log) == log.failure

\* The periods p of 2..4 at which the failure came back, something else having been
\* seen in between (an unchanged failure is stagnation, not oscillation).
CyclePeriods(history, hash) ==
    LET n == Len(history)
    IN  {p \in 2..maxCyclePeriod :
            /\ p <= n
            /\ history[n - p + 1] = hash
            /\ \E k \in (n - p + 2)..n : history[k] # hash}

\* RecordFailure: the decision, and the breaker after it.
OscillationDecision(cb, log) ==
    IF CyclePeriods(cb.history, Fingerprint(log)) = {} THEN "continue"
    ELSE IF cb.reconciliations < maxReconciliations THEN "reconcile"
    ELSE "trip"

RecordFailure(cb, log) ==
    LET all == Append(cb.history, Fingerprint(log))
    IN  [history |-> IF Len(all) > maxWindow THEN Tail(all) ELSE all,
         reconciliations |-> cb.reconciliations
                             + (IF OscillationDecision(cb, log) = "reconcile" THEN 1 ELSE 0)]

-----------------------------------------------------------------------------
(* TaskCircuitBreaker: passes and test-only edits in a row, repeated inspections. *)

NewTaskCircuitBreaker == [passes |-> 0, testOnly |-> 0, inspections |-> 0, tripped |-> FALSE]

\* RecordAction of a mutating tool: "prod" and "test" are what isProductionFile says of
\* the file, or of the files of a batch; "none" is a call that names no file.
RecordAction(cb, touched) ==
    CASE touched = "prod" -> NewTaskCircuitBreaker
      [] touched = "test" -> [cb EXCEPT !.inspections = 0, !.testOnly = @ + 1]
      [] OTHER -> [cb EXCEPT !.inspections = 0]

RecordTestResult(cb, passed) ==
    IF passed THEN [cb EXCEPT !.passes = @ + 1]
    ELSE [cb EXCEPT !.passes = 0, !.tripped = FALSE]

RecordDuplicateInspection(cb) == [cb EXCEPT !.inspections = @ + 1]
ResetTurn(cb) == [cb EXCEPT !.inspections = 0]

\* ShouldBreakReadLoop: three repeats warn, five conclude the turn.
ReadLoopForced(cb) == cb.inspections >= 5
ReadLoopWarned(cb) == cb.inspections >= 3

\* ShouldTrip also remembers that it tripped.
ShouldTrip(cb, progress) ==
    cb.tripped \/ (cb.passes >= 2 /\ cb.testOnly >= 2 /\ progress >= 70)

-----------------------------------------------------------------------------
(* AdaptiveTurnManager. *)

EnforceMinTurns(configured) == IF configured < 2 THEN 2 ELSE configured

ShouldGrantProgressExtension(prevFailures, currFailures, prevPassed, currPassed, used, maxExtensions) ==
    /\ used < maxExtensions
    /\ \/ prevFailures > 0 /\ currFailures < prevFailures
       \/ currPassed > prevPassed /\ currFailures > 0
=============================================================================
