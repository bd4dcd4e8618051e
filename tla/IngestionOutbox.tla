--------------------------- MODULE IngestionOutbox --------------------------
(***************************************************************************)
(* Feed ingestion: the durable outbox of ingestion jobs in PostgreSQL, its *)
(* publication to Redis, the workers that claim, fetch and commit, the     *)
(* scheduler that recovers, schedules and dispatches, and the operators    *)
(* who review, pause, resume, retry and dispatch while all that goes on.   *)
(*                                                                         *)
(* One action is one database transaction (or one step outside of any):    *)
(* the code locks the source row, then the job row, for every transaction  *)
(* that writes them.  The exception is publication, which holds the job's  *)
(* row lock over a call to Redis; it is two actions, with the lock in      *)
(* `publishing' between them.  The fetch itself runs with no transaction.  *)
(***************************************************************************)
EXTENDS JobLifecycle, DurableQueue, FiniteSets

CONSTANTS
    Sources,
    JobIds,             \* bounded stand-in for the UUIDs of job rows
    Feeds,              \* feed URLs
    NoSource, NoFeed,   \* SQL NULL
    AdaptiveSources,    \* sources whose effective_polling_mode is "adaptive"
    MaxAttempts,        \* DEFAULT_RETRY.max_attempts
    MaxWorkers,         \* handlers that run at the same time
    MaxFailures,        \* bound: consecutive_failures saturates here
    MaxOverrides,       \* bound: immediate dispatches of one job
    MaxFaults           \* bound: crashes, losses and broker errors

ASSUME OutboxAssumption ==
    /\ NoSource \notin Sources
    /\ NoFeed \notin Feeds
    /\ AdaptiveSources \subseteq Sources
    /\ MaxAttempts \in Nat \ {0}
    /\ MaxFailures \in Nat \ {0}
    /\ MaxOverrides \in Nat
    /\ MaxFaults \in Nat

VARIABLES
    sources,    \* the source rows
    jobs,       \* the ingestion_jobs rows
    redis,      \* state of every delivery
    publishing, \* jobs whose row lock a dispatcher holds, already enqueued
    fetching,   \* handlers between their claim and their second transaction
    faults

vars == <<sources, jobs, redis, publishing, fetching, faults>>

\* delivery_id: kind and job, available_at and attempts.  A retry changes the
\* attempts, an immediate dispatch changes available_at alone.
Deliveries == [job : JobIds, attempts : 0..MaxAttempts, overrides : 0..MaxOverrides]

SourceRow ==
    [approval : {"pending", "approved", "rejected"},
     enabled  : BOOLEAN,
     feed     : Feeds \cup {NoFeed},
     learned  : Feeds \cup {NoFeed}, \* feed that etag and polling_state describe
     failures : 0..MaxFailures,      \* consecutive_failures
     next     : Availability]        \* next_fetch_at

JobRow ==
    [status : Statuses, source : Sources \cup {NoSource},
     attempts : 0..MaxAttempts, overrides : 0..MaxOverrides,
     available : Availability, dispatched : Dispatches,
     lease : Leases, token : Tokens \cup {NoToken}]

\* What _ingest carries from its claim into _ingest_claimed.
Handler == [delivery : Deliveries, token : Tokens, url : Feeds \cup {NoFeed}]

TypeOK ==
    /\ sources \in [Sources -> SourceRow]
    /\ jobs \in [JobIds -> JobRow]
    /\ redis \in [Deliveries -> DeliveryStates]
    /\ publishing \in SUBSET JobIds
    /\ fetching \in SUBSET Handler
    /\ faults \in 0..MaxFaults

-----------------------------------------------------------------------------
DeliveryId(j) == [job |-> j, attempts |-> jobs[j].attempts, overrides |-> jobs[j].overrides]

ActiveFor(s) == {j \in JobIds : jobs[j].source = s /\ Active(jobs[j])}

Eligible(s) == sources[s].approval = "approved" /\ sources[s].enabled

\* Identifiers a new row may take: no row yet, or a terminal one that neither a
\* worker nor a handler can reach any more.
FreeJobs ==
    {j \in JobIds :
        /\ ~Active(jobs[j])
        /\ \A d \in Deliveries : d.job = j => redis[d] \notin {"listed", "started"}
        /\ \A h \in fetching : h.delivery.job # j}

FreshTokens ==
    {t \in Tokens :
        /\ \A j \in JobIds : jobs[j].token # t
        /\ \A h \in fetching : h.token # t}

Fault == faults < MaxFaults /\ faults' = faults + 1

NewJob(s, available) ==
    [status |-> "queued", source |-> s, attempts |-> 0, overrides |-> 0,
     available |-> available, dispatched |-> "never",
     lease |-> "none", token |-> NoToken]

\* Mutant: only a queued job is coalesced, a running one is not.
RequestUnlessQueued(s, row) ==
    LET j == CHOOSE k \in FreeJobs : TRUE
    IN  /\ row.approval = "approved"
        /\ \/ /\ \E k \in ActiveFor(s) : jobs[k].status = "queued"
              /\ jobs' = jobs
              /\ sources' = [sources EXCEPT ![s] = row]
           \/ /\ \A k \in ActiveFor(s) : jobs[k].status # "queued"
              /\ FreeJobs # {}
              /\ jobs' = [jobs EXCEPT ![j] = NewJob(s, "due")]
              /\ sources' = [sources EXCEPT ![s] = [row EXCEPT !.next = "later"]]

\* request_ingestion, on the source row `row' that its caller has locked and
\* perhaps changed: an active job is returned as it is; a new one waits for the
\* cooldown of a failing adaptive source.
RequestIngestion(s, row) ==
    LET cooldown == IF row.failures > 0 /\ s \in AdaptiveSources THEN row.next ELSE "due"
        j == CHOOSE k \in FreeJobs : TRUE
    IN  /\ row.approval = "approved"
        /\ \/ /\ ActiveFor(s) # {}
              /\ jobs' = jobs
              /\ sources' = [sources EXCEPT ![s] = row]
           \/ /\ ActiveFor(s) = {}
              /\ FreeJobs # {}
              /\ jobs' = [jobs EXCEPT ![j] = NewJob(s, cooldown)]
              /\ sources' = [sources EXCEPT ![s] = [row EXCEPT !.next = "later"]]

\* Mutant: the cancelled row keeps its lease.
CancelKeepingLease(job) == [job EXCEPT !.status = "failed"]

\* cancel_unapproved_job and cancel_disabled_job; "Feed changed during
\* ingestion" leaves the row in the same state.
CancelJob(job) == [ClearLease(job) EXCEPT !.status = "failed"]

CountFailure(row) ==
    [row EXCEPT !.failures = IF @ < MaxFailures THEN @ + 1 ELSE @, !.next = "later"]

\* fail_job: a source that lost its approval is not an upstream failure; only an
\* enabled source is retried; the last failure backs the source off.
FailJob(j, retryable) ==
    LET s == jobs[j].source
        settled == FailOrRetry(jobs[j], retryable /\ sources[s].enabled,
                               jobs[j].attempts, MaxAttempts)
    IN  IF sources[s].approval # "approved"
        THEN /\ jobs' = [jobs EXCEPT ![j] = CancelJob(jobs[j])]
             /\ UNCHANGED sources
        ELSE /\ jobs' = [jobs EXCEPT ![j] = settled]
             /\ sources' = IF settled.status = "failed"
                           THEN [sources EXCEPT ![s] = CountFailure(sources[s])]
                           ELSE sources

-----------------------------------------------------------------------------
(* The scheduler's tick: recovery, scheduling, publication.                *)

\* Recovery of an expired lease, rechecked under the job lock.
RecoverExpired(j) ==
    /\ jobs[j].status = "running"
    /\ jobs[j].lease = "expired"
    /\ FailJob(j, TRUE)
    /\ UNCHANGED <<redis, publishing, fetching, faults>>

ScheduleDue(s) ==
    /\ Eligible(s)
    /\ sources[s].next = "due"
    /\ ActiveFor(s) = {}
    /\ RequestIngestion(s, sources[s])
    /\ UNCHANGED <<redis, publishing, fetching, faults>>

\* JobDispatcher.publish, up to the commit: the selected row stays locked.
Publish(j) ==
    /\ j \notin publishing
    /\ DispatchDue(jobs[j])
    /\ redis' = [redis EXCEPT ![DeliveryId(j)] = EnqueueUnique(@)]
    /\ publishing' = publishing \cup {j}
    /\ UNCHANGED <<sources, jobs, fetching, faults>>

CommitPublication(j) ==
    /\ j \in publishing
    /\ jobs' = [jobs EXCEPT ![j].dispatched = "recent"]
    /\ publishing' = publishing \ {j}
    /\ UNCHANGED <<sources, redis, fetching, faults>>

\* The dispatcher dies, or a later enqueue of its batch raises: the stamp is
\* rolled back, the delivery stays in Redis.
AbortPublication(j) ==
    /\ j \in publishing
    /\ Fault
    /\ publishing' = publishing \ {j}
    /\ UNCHANGED <<sources, jobs, redis, fetching>>

-----------------------------------------------------------------------------
(* The worker: _ingest and _ingest_claimed.                                *)

\* Mutant: the claim reads a due row of any active status.
ClaimRunning(d) ==
    LET j == d.job
        t == CHOOSE k \in FreshTokens : TRUE
    IN  /\ redis[d] = "listed" /\ j \notin publishing
        /\ Cardinality(fetching) < MaxWorkers
        /\ Active(jobs[j]) /\ jobs[j].attempts < MaxAttempts
        /\ jobs[j].available = "due" /\ FreshTokens # {}
        /\ jobs' = [jobs EXCEPT ![j] = StartJob(jobs[j], t)]
        /\ redis' = [redis EXCEPT ![d] = "started"]
        /\ fetching' = fetching \cup
              {[delivery |-> d, token |-> t, url |-> sources[jobs[j].source].feed]}
        /\ UNCHANGED <<sources, publishing, faults>>

\* claim_job in the handler of a popped delivery.  It waits for a dispatcher's
\* row lock; a delivery it cannot claim is acknowledged.
Claim(d) ==
    LET j == d.job
        s == jobs[j].source
        t == CHOOSE k \in FreshTokens : TRUE
        claimable == jobs[j].status = "queued" /\ jobs[j].available = "due"
    IN  /\ redis[d] = "listed"
        /\ j \notin publishing
        /\ Cardinality(fetching) < MaxWorkers
        /\ \/ /\ ~claimable
              /\ redis' = [redis EXCEPT ![d] = "absent"]
              /\ UNCHANGED <<jobs, fetching>>
           \/ /\ claimable /\ ~Eligible(s)
              /\ jobs' = [jobs EXCEPT ![j] = CancelJob(jobs[j])]
              /\ redis' = [redis EXCEPT ![d] = "absent"]
              /\ UNCHANGED fetching
           \/ /\ claimable /\ Eligible(s)
              /\ FreshTokens # {}
              /\ jobs' = [jobs EXCEPT ![j] = StartJob(jobs[j], t)]
              /\ redis' = [redis EXCEPT ![d] = "started"]
              /\ fetching' = fetching \cup
                    {[delivery |-> d, token |-> t, url |-> sources[s].feed]}
        /\ UNCHANGED <<sources, publishing, faults>>

\* The handler returns and RQ deletes its delivery.
Return(h) ==
    /\ fetching' = fetching \ {h}
    /\ redis' = [redis EXCEPT ![h.delivery] = "absent"]
    /\ UNCHANGED <<publishing, faults>>

ApplySuccess(j, url) ==
    LET s == jobs[j].source
    IN  /\ jobs' = [jobs EXCEPT ![j] = FinishJob(jobs[j])]
        /\ sources' = [sources EXCEPT ![s] =
              [@ EXCEPT !.failures = 0, !.learned = url, !.next = "later"]]

\* Mutant: the feed is not compared with the one that was fetched.
ApplyAnyFeed(h) ==
    LET j == h.delivery.job
    IN  /\ h \in fetching
        /\ j \notin publishing
        /\ \/ ~OwnedBy(jobs[j], h.token) /\ UNCHANGED <<jobs, sources>>
           \/ /\ OwnedBy(jobs[j], h.token) /\ Eligible(jobs[j].source)
              /\ ApplySuccess(j, h.url)
        /\ Return(h)

\* The second transaction, after a fetch that succeeded.
Apply(h) ==
    LET j == h.delivery.job
        s == jobs[j].source
    IN  /\ h \in fetching
        /\ h.url # NoFeed
        /\ j \notin publishing
        /\ \/ /\ ~OwnedBy(jobs[j], h.token)
              /\ UNCHANGED <<jobs, sources>>
           \/ /\ OwnedBy(jobs[j], h.token)
              /\ ~Eligible(s) \/ sources[s].feed # h.url
              /\ jobs' = [jobs EXCEPT ![j] = CancelJob(jobs[j])]
              /\ UNCHANGED sources
           \/ /\ OwnedBy(jobs[j], h.token)
              /\ Eligible(s) /\ sources[s].feed = h.url
              /\ ApplySuccess(j, h.url)
        /\ Return(h)

\* The except branch: the fetch, the parse or the second transaction raised.
FailAttempt(h, retryable) ==
    LET j == h.delivery.job
    IN  /\ h \in fetching
        /\ j \notin publishing
        /\ \/ ~OwnedBy(jobs[j], h.token) /\ UNCHANGED <<jobs, sources>>
           \/ OwnedBy(jobs[j], h.token) /\ FailJob(j, retryable)
        /\ Return(h)

-----------------------------------------------------------------------------
(* Operators: source review, pause and resume, fetch, retry and immediate  *)
(* dispatch.                                                               *)

\* review_source with decision "approved".
Approve(s, enable) ==
    LET row == [sources[s] EXCEPT !.approval = "approved", !.enabled = enable]
    IN  /\ sources[s].approval # "approved"
        /\ sources[s].feed # NoFeed
        /\ \/ enable /\ RequestIngestion(s, [row EXCEPT !.next = "due"])
           \/ ~enable /\ sources' = [sources EXCEPT ![s] = row] /\ UNCHANGED jobs
        /\ UNCHANGED <<redis, publishing, fetching, faults>>

\* review_source with decision "rejected".
Reject(s) ==
    /\ sources[s].approval # "rejected"
    /\ sources' = [sources EXCEPT ![s].approval = "rejected", ![s].enabled = FALSE]
    /\ UNCHANGED <<jobs, redis, publishing, fetching, faults>>

\* The board's "reopen", and discovery's request(reopen=True).
Reopen(s) ==
    /\ sources[s].approval = "rejected"
    /\ sources' = [sources EXCEPT ![s].approval = "pending", ![s].enabled = FALSE]
    /\ UNCHANGED <<jobs, redis, publishing, fetching, faults>>

\* Discovery hands a selected feed to a pending source; a different feed clears
\* everything learned from the previous one.
Handoff(s, feed) ==
    /\ sources[s].approval = "pending"
    /\ \A other \in Sources \ {s} : sources[other].feed # feed
    /\ sources' = [sources EXCEPT ![s].feed = feed,
                     ![s].learned = IF feed = sources[s].feed THEN @ ELSE NoFeed]
    /\ UNCHANGED <<jobs, redis, publishing, fetching, faults>>

\* update_source(enabled=False); an upstream retry on the board does the same.
Pause(s) ==
    /\ sources[s].enabled
    /\ sources' = [sources EXCEPT ![s].enabled = FALSE]
    /\ UNCHANGED <<jobs, redis, publishing, fetching, faults>>

\* update_source(enabled=True), with its reconcile_source_schedule(immediate=True).
Resume(s) ==
    /\ ~sources[s].enabled
    /\ sources' = [sources EXCEPT ![s].enabled = TRUE,
                     ![s].next = IF /\ sources[s].approval = "approved"
                                    /\ sources[s].failures = 0
                                    /\ ActiveFor(s) = {}
                                 THEN "due" ELSE @]
    /\ UNCHANGED <<jobs, redis, publishing, fetching, faults>>

\* advance_source_processing: "resume" of a paused source, or "ingestion" of one
\* that has no job.
ResumeIngestion(s) ==
    /\ sources[s].approval = "approved"
    /\ ~sources[s].enabled \/ ActiveFor(s) = {}
    /\ RequestIngestion(s, [sources[s] EXCEPT !.enabled = TRUE])
    /\ UNCHANGED <<redis, publishing, fetching, faults>>

\* fetch_source; also the board's retry of "ingestion" and a repeated submit_source.
FetchSource(s) ==
    /\ Eligible(s)
    /\ RequestIngestion(s, sources[s])
    /\ UNCHANGED <<redis, publishing, fetching, faults>>

RetryJob(j) ==
    /\ jobs[j].status = "failed"
    /\ FetchSource(jobs[j].source)

\* The commit that precedes an immediate publication; Publish is the publication.
PrepareImmediateDispatch(j) ==
    LET s == jobs[j].source
    IN  /\ j \notin publishing
        /\ jobs[j].status = "queued"
        /\ Eligible(s)
        /\ ~ /\ s \in AdaptiveSources
             /\ jobs[j].available = "later"
             /\ jobs[j].attempts > 0 \/ sources[s].failures > 0
        /\ jobs[j].overrides < MaxOverrides
        /\ jobs' = [jobs EXCEPT ![j].available = "due", ![j].dispatched = "never",
                                ![j].overrides = @ + 1]
        /\ UNCHANGED <<sources, redis, publishing, fetching, faults>>

-----------------------------------------------------------------------------
(* The broker, crashes and the clock.                                      *)

\* Redis restarts without a delivery, or keeps it out of its list.
LoseDelivery(d) ==
    /\ Fault
    /\ \/ redis[d] # "absent" /\ redis' = [redis EXCEPT ![d] = "absent"]
       \/ redis[d] = "listed" /\ redis' = [redis EXCEPT ![d] = "orphaned"]
    /\ UNCHANGED <<sources, jobs, publishing, fetching>>

\* A popped delivery whose worker dies, or whose handler raises, before its claim.
DieBeforeClaim(d) ==
    /\ Fault
    /\ redis[d] = "listed"
    /\ redis' = [redis EXCEPT ![d] = "started"]
    /\ UNCHANGED <<sources, jobs, publishing, fetching>>

\* The worker process dies between its two transactions.
DieFetching(h) ==
    /\ h \in fetching
    /\ Fault
    /\ fetching' = fetching \ {h}
    /\ UNCHANGED <<sources, jobs, redis, publishing>>

\* RQ fails the delivery of a dead worker.
Reap(d) ==
    /\ redis[d] = "started"
    /\ \A h \in fetching : h.delivery # d
    /\ redis' = [redis EXCEPT ![d] = ReapStarted(@)]
    /\ UNCHANGED <<sources, jobs, publishing, fetching, faults>>

LeaseExpires(j) ==
    /\ jobs[j].lease = "live"
    /\ jobs' = [jobs EXCEPT ![j].lease = "expired"]
    /\ UNCHANGED <<sources, redis, publishing, fetching, faults>>

JobComesDue(j) ==
    /\ jobs[j].status = "queued" /\ jobs[j].available = "later"
    /\ jobs' = [jobs EXCEPT ![j].available = "due"]
    /\ UNCHANGED <<sources, redis, publishing, fetching, faults>>

DispatchGoesStale(j) ==
    /\ jobs[j].status = "queued" /\ jobs[j].dispatched = "recent"
    /\ jobs' = [jobs EXCEPT ![j].dispatched = "stale"]
    /\ UNCHANGED <<sources, redis, publishing, fetching, faults>>

SourceComesDue(s) ==
    /\ sources[s].next = "later"
    /\ sources' = [sources EXCEPT ![s].next = "due"]
    /\ UNCHANGED <<jobs, redis, publishing, fetching, faults>>

-----------------------------------------------------------------------------
Init ==
    /\ sources = [s \in Sources |->
            [approval |-> "pending", enabled |-> FALSE, feed |-> NoFeed,
             learned |-> NoFeed, failures |-> 0, next |-> "due"]]
    /\ jobs = [j \in JobIds |->
            [NewJob(NoSource, "due") EXCEPT !.status = "unused"]]
    /\ redis = [d \in Deliveries |-> "absent"]
    /\ publishing = {}
    /\ fetching = {}
    /\ faults = 0

Scheduler ==
    \/ \E j \in JobIds : RecoverExpired(j) \/ Publish(j) \/ CommitPublication(j)
    \/ \E s \in Sources : ScheduleDue(s)

Worker ==
    \/ \E d \in Deliveries : Claim(d)
    \/ \E h \in fetching : Apply(h) \/ \E retryable \in BOOLEAN : FailAttempt(h, retryable)

Operator ==
    \/ \E s \in Sources :
        \/ \E enable \in BOOLEAN : Approve(s, enable)
        \/ Reject(s) \/ Reopen(s)
        \/ \E feed \in Feeds : Handoff(s, feed)
        \/ Pause(s) \/ Resume(s) \/ ResumeIngestion(s) \/ FetchSource(s)
    \/ \E j \in JobIds : RetryJob(j) \/ PrepareImmediateDispatch(j)

Broker ==
    \/ \E j \in JobIds : AbortPublication(j)
    \/ \E d \in Deliveries : LoseDelivery(d) \/ DieBeforeClaim(d) \/ Reap(d)
    \/ \E h \in fetching : DieFetching(h)

Clock ==
    \/ \E j \in JobIds : LeaseExpires(j) \/ JobComesDue(j) \/ DispatchGoesStale(j)
    \/ \E s \in Sources : SourceComesDue(s)

Next == Scheduler \/ Worker \/ Operator \/ Broker \/ Clock

Spec == Init /\ [][Next]_vars

\* The scheduler ticks for ever, time passes, and RQ stops a handler after its
\* job_timeout, which ends in the except branch.  A worker's transaction waits
\* its turn for the row lock in PostgreSQL, and a delivery for a worker in a
\* first-in first-out list, so one that is enabled again and again is taken
\* (strong fairness).  Nothing is assumed of operators or of faults.
Fairness ==
    /\ \A j \in JobIds :
        /\ WF_vars(RecoverExpired(j))
        /\ WF_vars(Publish(j))
        /\ WF_vars(CommitPublication(j))
        /\ WF_vars(LeaseExpires(j))
        /\ WF_vars(JobComesDue(j))
        /\ WF_vars(DispatchGoesStale(j))
    /\ \A s \in Sources : WF_vars(ScheduleDue(s)) /\ WF_vars(SourceComesDue(s))
    /\ \A d \in Deliveries : WF_vars(Reap(d))
    /\ \A j \in JobIds :
        /\ SF_vars(\E d \in Deliveries : d.job = j /\ Claim(d))
        /\ SF_vars(\E h \in fetching :
                h.delivery.job = j
                /\ (Apply(h) \/ \E retryable \in BOOLEAN : FailAttempt(h, retryable)))

FairSpec == Spec /\ Fairness

-----------------------------------------------------------------------------
(* Correctness.                                                            *)

\* At most one queued or running job per source, whatever mixture of ticks,
\* reviews, fetches and retries requested it (request_ingestion coalesces).
OneActiveJob == \A s \in Sources : \A j, k \in ActiveFor(s) : j = k

\* A row holds a lease exactly while it runs: recovery can reach every running
\* job, and no settled or queued row can be mistaken for an owned one.
LeaseMatchesStatus ==
    \A j \in JobIds :
        /\ jobs[j].status = "running" <=> jobs[j].token # NoToken
        /\ jobs[j].status = "running" <=> jobs[j].lease # "none"

\* The validators and the cadence a source has learned always describe the feed
\* it has now, although a worker may return with a response of the feed it had
\* when the worker claimed ("a response for a replaced feed must never
\* repopulate its learning state").
LearnedFeedIsCurrent ==
    \A s \in Sources : sources[s].learned \in {NoFeed, sources[s].feed}

\* A running attempt ends only by the handler that claimed that very attempt, or
\* by recovery once its lease has expired: a superseded worker neither applies
\* its results nor fails the attempt of its successor.
OnlyOwnerSettles ==
    [][\A j \in JobIds :
        jobs[j].status = "running" /\ jobs'[j].status # "running" =>
            \/ jobs[j].lease = "expired"
            \/ \E h \in fetching \ fetching' :
                  h.delivery.job = j /\ h.token = jobs[j].token]_vars

\* An attempt that ends while its source is paused is not counted as a failure of
\* the feed ("Pausing also fences an already-running fetch before article writes,
\* without counting an intentional pause as a feed failure").
PauseIsNotFailure ==
    [][\A s \in Sources :
        sources'[s].failures > sources[s].failures => sources[s].enabled]_vars

\* Every job that was ever requested is settled in the end: a lost, orphaned or
\* dead delivery, a rolled-back publication and a dead worker only delay it.
EveryJobSettles == \A j \in JobIds : Active(jobs[j]) ~> Terminal(jobs[j])

\* A source that stays approved and enabled is fetched again and again.
SourceKeepsFetching ==
    \A s \in Sources :
        <>[]Eligible(s) => []<>(\E j \in ActiveFor(s) : jobs[j].status = "running")

\* The outbox keeps the contract of a durable job: attempts on one source are
\* serialised, each is settled once, none exceeds the retry budget, although
\* deliveries are lost, repeated, and handled by late workers.
Contract == INSTANCE JobContract WITH
    Subjects <- Sources,
    NoSubject <- NoSource,
    status <- [j \in JobIds |-> jobs[j].status],
    attempts <- [j \in JobIds |-> jobs[j].attempts],
    subject <- [j \in JobIds |-> jobs[j].source]

ContractHolds == Contract!Spec

=============================================================================
