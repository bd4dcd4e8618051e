---------------------------- MODULE AnalysisJob -----------------------------
(***************************************************************************)
(* The failure policy shared by the AI pipelines, fail_analysis in         *)
(* packages/core/src/analysis.py.  A row of those pipelines adds to the    *)
(* fields of JobLifecycle                                                  *)
(*                                                                         *)
(*   deferrals   usage["capacity_deferrals"]: attempts that ended because  *)
(*               the provider had no capacity                              *)
(***************************************************************************)
EXTENDS JobLifecycle

CONSTANT MaxAttempts    \* RetryPolicy.max_attempts

ASSUME AttemptsAssumption == MaxAttempts \in Nat \ {0}

\* The attempts that count against the retry budget.
NormalAttempts(job) ==
    IF job.attempts - job.deferrals > 1 THEN job.attempts - job.deferrals ELSE 1

\* Mutant: the lease is given back but the row is not queued again.
DeferWithoutRequeue(job) == [ClearLease(job) EXCEPT !.deferrals = @ + 1]

\* error in CAPACITY_ERRORS: the row waits, whatever its attempts.
DeferForCapacity(job) ==
    [ClearLease(job) EXCEPT !.status = "queued",
                            !.available = "later",
                            !.dispatched = "never",
                            !.deferrals = @ + 1]

FailAnalysis(job, capacity) ==
    IF capacity
    THEN DeferForCapacity(job)
    ELSE FailOrRetry(job, TRUE, NormalAttempts(job), MaxAttempts)

=============================================================================
