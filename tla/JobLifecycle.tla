---------------------------- MODULE JobLifecycle ----------------------------
(***************************************************************************)
(* The transaction-free transitions of a durable job row, shared by every  *)
(* pipeline (packages/core/src/job_lifecycle.py).  A row is a record with  *)
(* at least the fields                                                     *)
(*                                                                         *)
(*   status      "unused" (no row yet), "queued", "running", "succeeded",  *)
(*               "failed"                                                  *)
(*   attempts    attempts started so far                                   *)
(*   available   available_at seen from now: "due" or "later"              *)
(*   dispatched  dispatched_at seen from now: "never", "recent", or        *)
(*               "stale" once REDISPATCH_SECONDS have passed               *)
(*   lease       lease_until seen from now: "none", "live", "expired"      *)
(*   token       lease_token                                               *)
(*                                                                         *)
(* Timestamps are kept as the outcome of the only comparisons the code     *)
(* makes with them; time passing is an action of the modules that use      *)
(* these operators, so every relative speed is allowed.                    *)
(***************************************************************************)
EXTENDS Naturals

CONSTANTS
    Tokens,     \* values uuid4 can draw for a lease
    NoToken     \* SQL NULL

ASSUME TokenAssumption == NoToken \notin Tokens

Statuses == {"unused", "queued", "running", "succeeded", "failed"}

Availability == {"due", "later"}

Dispatches == {"never", "recent", "stale"}

Leases == {"none", "live", "expired"}

Active(job) == job.status \in {"queued", "running"}

Terminal(job) == job.status \in {"succeeded", "failed"}

ClearLease(job) == [job EXCEPT !.token = NoToken, !.lease = "none"]

StartJob(job, token) ==
    [job EXCEPT !.status = "running",
                !.attempts = @ + 1,
                !.token = token,
                !.lease = "live"]

FinishJob(job) == [ClearLease(job) EXCEPT !.status = "succeeded"]

\* Mutant: an off-by-one in the retry budget.
FailOrRetryOnceMore(job, retryable, attempts, maxAttempts) ==
    LET released == [ClearLease(job) EXCEPT !.dispatched = "never"]
    IN  IF retryable /\ attempts <= maxAttempts
        THEN [released EXCEPT !.status = "queued", !.available = "later"]
        ELSE [released EXCEPT !.status = "failed"]

\* The retry delay is at least initial_delay seconds, hence "later".
FailOrRetry(job, retryable, attempts, maxAttempts) ==
    LET released == [ClearLease(job) EXCEPT !.dispatched = "never"]
    IN  IF retryable /\ attempts < maxAttempts
        THEN [released EXCEPT !.status = "queued", !.available = "later"]
        ELSE [released EXCEPT !.status = "failed"]

\* Mutant: a stamped job is never published again.
DispatchOnce(job) ==
    job.status = "queued" /\ job.available = "due" /\ job.dispatched = "never"

\* JobDispatcher's _due_conditions.
DispatchDue(job) ==
    /\ job.status = "queued"
    /\ job.available = "due"
    /\ job.dispatched \in {"never", "stale"}

\* Mutant: ownership is judged by the status alone.
OwnedIfRunning(job, token) == job.status = "running"

\* owned_job: the row is still running under the caller's own lease.
OwnedBy(job, token) == job.status = "running" /\ job.token = token

=============================================================================
