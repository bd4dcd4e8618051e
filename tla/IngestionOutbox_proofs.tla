----------------------- MODULE IngestionOutbox_proofs -----------------------
(***************************************************************************)
(* Machine-checked proofs about IngestionOutbox, for every set of sources, *)
(* jobs, feeds and tokens and every bound.                                 *)
(***************************************************************************)
EXTENDS IngestionOutbox, TLAPS

\* What every row satisfies on its own: its type, a source once it exists, an
\* attempt left while it is queued, and a lease exactly while it runs.
RowOK(r) ==
    /\ r \in JobRow
    /\ r.status # "unused" => r.source \in Sources
    /\ r.status = "queued" => r.attempts < MaxAttempts
    /\ r.status = "running" <=> r.token # NoToken
    /\ r.status = "running" <=> r.lease # "none"

IInv ==
    /\ TypeOK
    /\ \A j \in JobIds : RowOK(jobs[j])
    /\ OneActiveJob
    /\ LearnedFeedIsCurrent

-----------------------------------------------------------------------------
(* Lemmas about the operators on rows.                                     *)

\* A new row is well formed.
LEMMA NewJobRow ==
    ASSUME NEW s \in Sources, NEW a \in Availability
    PROVE  RowOK(NewJob(s, a)) /\ NewJob(s, a).source = s /\ NewJob(s, a).attempts = 0
BY OutboxAssumption
   DEF RowOK, NewJob, JobRow, Statuses, Availability, Dispatches, Leases

\* Cancelling a row, running or queued, leaves a well-formed failed row.
LEMMA CancelJobRow ==
    ASSUME NEW r, RowOK(r), r.status # "unused"
    PROVE  /\ RowOK(CancelJob(r))
           /\ CancelJob(r).status = "failed"
           /\ CancelJob(r).source = r.source
           /\ CancelJob(r).attempts = r.attempts
BY OutboxAssumption
   DEF RowOK, CancelJob, ClearLease, JobRow, Statuses, Leases

\* Finishing a row leaves a well-formed succeeded row.
LEMMA FinishJobRow ==
    ASSUME NEW r, RowOK(r), r.status # "unused"
    PROVE  /\ RowOK(FinishJob(r))
           /\ FinishJob(r).status = "succeeded"
           /\ FinishJob(r).source = r.source
           /\ FinishJob(r).attempts = r.attempts
BY OutboxAssumption
   DEF RowOK, FinishJob, ClearLease, JobRow, Statuses, Leases

\* Starting a queued row spends one attempt of its budget.
LEMMA StartJobRow ==
    ASSUME NEW r, RowOK(r), r.status = "queued", NEW t \in Tokens
    PROVE  /\ RowOK(StartJob(r, t))
           /\ StartJob(r, t).status = "running"
           /\ StartJob(r, t).source = r.source
           /\ StartJob(r, t).attempts = r.attempts + 1
<1>1. r \in JobRow /\ r.source \in Sources /\ r.attempts + 1 \in 0..MaxAttempts
  BY OutboxAssumption DEF RowOK, JobRow
<1>2. StartJob(r, t) = [r EXCEPT !.status = "running", !.attempts = r.attempts + 1,
                                 !.token = t, !.lease = "live"]
  BY <1>1 DEF StartJob, JobRow
<1> QED
  BY <1>1, <1>2, TokenAssumption DEF RowOK, JobRow, Statuses, Leases

\* A failed attempt is queued again only while the budget lasts.
LEMMA FailOrRetryRow ==
    ASSUME NEW r, RowOK(r), r.status = "running", NEW retryable \in BOOLEAN
    PROVE  LET q == FailOrRetry(r, retryable, r.attempts, MaxAttempts)
           IN  /\ RowOK(q)
               /\ q.status \in {"queued", "failed"}
               /\ q.status = "queued" => r.attempts < MaxAttempts
               /\ q.source = r.source
               /\ q.attempts = r.attempts
<1> DEFINE released == [ClearLease(r) EXCEPT !.dispatched = "never"]
<1>1. /\ released \in JobRow
      /\ released.token = NoToken /\ released.lease = "none"
      /\ released.source = r.source /\ released.attempts = r.attempts
  BY DEF RowOK, ClearLease, JobRow, Leases, Dispatches
<1> HIDE DEF released
<1>2. FailOrRetry(r, retryable, r.attempts, MaxAttempts) =
        IF retryable /\ r.attempts < MaxAttempts
        THEN [released EXCEPT !.status = "queued", !.available = "later"]
        ELSE [released EXCEPT !.status = "failed"]
  BY DEF FailOrRetry, released
<1>3. /\ r.source \in Sources /\ r.attempts \in Nat /\ MaxAttempts \in Nat
  BY OutboxAssumption DEF RowOK, JobRow
<1>4. ASSUME r.attempts < MaxAttempts
      PROVE  LET q == [released EXCEPT !.status = "queued", !.available = "later"]
             IN  /\ RowOK(q) /\ q.status = "queued"
                 /\ q.source = r.source /\ q.attempts = r.attempts
  BY <1>1, <1>3, <1>4 DEF RowOK, JobRow, Statuses, Availability
<1>5. LET q == [released EXCEPT !.status = "failed"]
      IN  /\ RowOK(q) /\ q.status = "failed"
          /\ q.source = r.source /\ q.attempts = r.attempts
  BY <1>1, <1>3 DEF RowOK, JobRow, Statuses
<1>6. CASE retryable /\ r.attempts < MaxAttempts
  BY <1>2, <1>4, <1>6
<1>7. CASE ~(retryable /\ r.attempts < MaxAttempts)
  BY <1>2, <1>5, <1>7
<1> QED
  BY <1>6, <1>7

-----------------------------------------------------------------------------
(* The two tables.  TablesOK is the part of IInv about sources and jobs;   *)
(* every transaction is shown to keep it by one of the lemmas below.       *)

TablesOK ==
    /\ sources \in [Sources -> SourceRow]
    /\ jobs \in [JobIds -> JobRow]
    /\ \A j \in JobIds : RowOK(jobs[j])
    /\ OneActiveJob
    /\ LearnedFeedIsCurrent

\* The broker's side of TypeOK.
BrokerOK ==
    /\ redis \in [Deliveries -> DeliveryStates]
    /\ publishing \in SUBSET JobIds
    /\ fetching \in SUBSET Handler
    /\ faults \in 0..MaxFaults

\* The invariant is the conjunction of its two halves, in this state ...
LEMMA Split == IInv <=> TablesOK /\ BrokerOK
BY DEF IInv, TypeOK, TablesOK, BrokerOK

\* ... and in the next one.
LEMMA SplitNext == IInv' <=> TablesOK' /\ BrokerOK'
BY DEF IInv, TypeOK, TablesOK, BrokerOK

\* Replacing one row by another of the same source, active only if the row was.
LEMMA ReplaceJob ==
    ASSUME TablesOK, NEW j \in JobIds, NEW q, RowOK(q),
           q.source = jobs[j].source, Active(q) => Active(jobs[j]),
           jobs' = [jobs EXCEPT ![j] = q]
    PROVE  /\ jobs' \in [JobIds -> JobRow]
           /\ \A k \in JobIds : RowOK(jobs'[k])
           /\ OneActiveJob'
<1>1. q \in JobRow
  BY DEF RowOK
<1>2. \A k \in JobIds : jobs'[k] = IF k = j THEN q ELSE jobs[k]
  BY DEF TablesOK
<1>3. OneActiveJob'
  BY <1>2 DEF TablesOK, OneActiveJob, ActiveFor, Active
<1> QED
  BY <1>1, <1>2, <1>3 DEF TablesOK

\* Replacing one source row by one whose learning is still of its own feed.
LEMMA ReplaceSource ==
    ASSUME TablesOK, NEW s \in Sources, NEW row \in SourceRow,
           row.learned \in {NoFeed, row.feed},
           sources' = [sources EXCEPT ![s] = row]
    PROVE  sources' \in [Sources -> SourceRow] /\ LearnedFeedIsCurrent'
<1>1. \A r \in Sources : sources'[r] = IF r = s THEN row ELSE sources[r]
  BY DEF TablesOK
<1> QED
  BY <1>1 DEF TablesOK, LearnedFeedIsCurrent

\* Only the sources change.
LEMMA SourceStep ==
    ASSUME TablesOK, NEW s \in Sources, NEW row \in SourceRow,
           row.learned \in {NoFeed, row.feed},
           sources' = [sources EXCEPT ![s] = row], jobs' = jobs
    PROVE  TablesOK'
<1>1. OneActiveJob'
  BY DEF TablesOK, OneActiveJob, ActiveFor
<1> QED
  BY <1>1, ReplaceSource DEF TablesOK

\* Only one job changes.
LEMMA JobStep ==
    ASSUME TablesOK, NEW j \in JobIds, NEW q, RowOK(q),
           q.source = jobs[j].source, Active(q) => Active(jobs[j]),
           jobs' = [jobs EXCEPT ![j] = q], sources' = sources
    PROVE  TablesOK'
<1>1. LearnedFeedIsCurrent'
  BY DEF TablesOK, LearnedFeedIsCurrent
<1> QED
  BY <1>1, ReplaceJob DEF TablesOK

\* Neither table changes.
LEMMA TablesStutter ==
    ASSUME TablesOK, jobs' = jobs, sources' = sources
    PROVE  TablesOK'
BY DEF TablesOK, OneActiveJob, ActiveFor, LearnedFeedIsCurrent

\* request_ingestion adds a row only where the source has no active one.
LEMMA RequestStep ==
    ASSUME TablesOK, NEW s \in Sources, NEW row \in SourceRow,
           row.learned \in {NoFeed, row.feed}, RequestIngestion(s, row)
    PROVE  TablesOK'
<1>1. CASE jobs' = jobs /\ sources' = [sources EXCEPT ![s] = row]
  BY <1>1, SourceStep
<1>2. ASSUME NEW j \in FreeJobs, NEW a \in Availability, ActiveFor(s) = {},
             jobs' = [jobs EXCEPT ![j] = NewJob(s, a)],
             sources' = [sources EXCEPT ![s] = [row EXCEPT !.next = "later"]]
      PROVE  TablesOK'
  <2>1. j \in JobIds /\ ~Active(jobs[j])
    BY <1>2 DEF FreeJobs
  <2>2. RowOK(NewJob(s, a)) /\ NewJob(s, a).source = s
    BY <1>2, NewJobRow
  <2>3. \A k \in JobIds : jobs'[k] = IF k = j THEN NewJob(s, a) ELSE jobs[k]
    BY <1>2, <2>1 DEF TablesOK
  <2>4. jobs' \in [JobIds -> JobRow]
    BY <1>2, <2>1, <2>2 DEF TablesOK, RowOK
  <2>5. \A k \in JobIds : RowOK(jobs'[k])
    BY <2>2, <2>3 DEF TablesOK
  <2>6. OneActiveJob'
    <3> SUFFICES ASSUME NEW r \in Sources, NEW k \in JobIds, NEW l \in JobIds,
                        jobs'[k].source = r, Active(jobs'[k]),
                        jobs'[l].source = r, Active(jobs'[l])
                 PROVE  k = l
      BY DEF OneActiveJob, ActiveFor
    <3>1. CASE r = s
      BY <1>2, <2>1, <2>3, <3>1 DEF ActiveFor
    <3>2. CASE r # s
      BY <2>2, <2>3, <3>2 DEF TablesOK, OneActiveJob, ActiveFor
    <3> QED
      BY <3>1, <3>2
  <2>7. /\ [row EXCEPT !.next = "later"] \in SourceRow
        /\ [row EXCEPT !.next = "later"].learned \in {NoFeed, [row EXCEPT !.next = "later"].feed}
    BY DEF SourceRow, Availability
  <2>8. sources' \in [Sources -> SourceRow] /\ LearnedFeedIsCurrent'
    BY <1>2, <2>7, ReplaceSource
  <2> QED
    BY <2>4, <2>5, <2>6, <2>8 DEF TablesOK
<1>3. (CHOOSE k \in FreeJobs : TRUE) \in FreeJobs \/ FreeJobs = {}
  OBVIOUS
<1>4. (IF row.failures > 0 /\ s \in AdaptiveSources THEN row.next ELSE "due") \in Availability
  BY DEF SourceRow, Availability
<1> QED
  BY <1>1, <1>2, <1>3, <1>4 DEF RequestIngestion

\* fail_job keeps both tables well formed, whichever of its branches it takes.
LEMMA FailJobStep ==
    ASSUME TablesOK, NEW j \in JobIds, jobs[j].status = "running",
           NEW retryable \in BOOLEAN, FailJob(j, retryable)
    PROVE  TablesOK'
<1> DEFINE s == jobs[j].source
           q == FailOrRetry(jobs[j], retryable /\ sources[s].enabled,
                            jobs[j].attempts, MaxAttempts)
<1>1. RowOK(jobs[j]) /\ s \in Sources /\ sources[s] \in SourceRow /\ Active(jobs[j])
  BY DEF TablesOK, RowOK, Active
<1>2. CASE jobs' = [jobs EXCEPT ![j] = CancelJob(jobs[j])] /\ sources' = sources
  <2>1. RowOK(CancelJob(jobs[j])) /\ CancelJob(jobs[j]).source = jobs[j].source
    BY <1>1, CancelJobRow
  <2> QED
    BY <1>1, <1>2, <2>1, JobStep
<1>3. CASE /\ jobs' = [jobs EXCEPT ![j] = q]
           /\ sources' = IF q.status = "failed"
                         THEN [sources EXCEPT ![s] = CountFailure(sources[s])]
                         ELSE sources
  <2>1. (retryable /\ sources[s].enabled) \in BOOLEAN
    BY <1>1 DEF SourceRow
  <2>2. RowOK(q) /\ q.source = jobs[j].source
    BY <1>1, <2>1, FailOrRetryRow
  <2> HIDE DEF q
  <2>3. /\ jobs' \in [JobIds -> JobRow]
        /\ \A k \in JobIds : RowOK(jobs'[k])
        /\ OneActiveJob'
    BY <1>1, <1>3, <2>2, ReplaceJob
  <2>4. /\ CountFailure(sources[s]) \in SourceRow
        /\ CountFailure(sources[s]).learned \in {NoFeed, CountFailure(sources[s]).feed}
    <3>1. /\ sources[s].learned \in {NoFeed, sources[s].feed}
          /\ sources[s].failures \in 0..MaxFailures
      BY <1>1 DEF TablesOK, LearnedFeedIsCurrent, SourceRow
    <3>2. PICK n \in 0..MaxFailures :
            CountFailure(sources[s]) = [sources[s] EXCEPT !.failures = n, !.next = "later"]
      <4>1. (IF sources[s].failures < MaxFailures
             THEN sources[s].failures + 1 ELSE sources[s].failures) \in 0..MaxFailures
        BY <3>1, OutboxAssumption
      <4> QED
        BY <1>1, <4>1 DEF CountFailure, SourceRow
    <3> QED
      BY <1>1, <3>1, <3>2 DEF SourceRow, Availability
  <2>5. sources' \in [Sources -> SourceRow] /\ LearnedFeedIsCurrent'
    <3>1. CASE sources' = sources
      BY <3>1 DEF TablesOK, LearnedFeedIsCurrent
    <3>2. CASE sources' = [sources EXCEPT ![s] = CountFailure(sources[s])]
      BY <1>1, <2>4, <3>2, ReplaceSource
    <3> QED
      BY <1>3, <3>1, <3>2
  <2> QED
    BY <2>3, <2>5 DEF TablesOK
<1> QED
  BY <1>2, <1>3 DEF FailJob

\* The delivery of a row, and what publication makes of it, are well formed.
LEMMA DeliveryType ==
    ASSUME NEW j \in JobIds, jobs[j] \in JobRow
    PROVE  DeliveryId(j) \in Deliveries
BY DEF DeliveryId, Deliveries, JobRow

\* A fault is counted within its bound.
LEMMA FaultType ==
    ASSUME faults \in 0..MaxFaults, Fault
    PROVE  faults' \in 0..MaxFaults
BY OutboxAssumption DEF Fault

-----------------------------------------------------------------------------
(* One lemma per group of actions.                                         *)

\* Recovery, scheduling and publication keep the invariant.
LEMMA SchedulerStep == IInv /\ Scheduler => IInv'
<1> SUFFICES ASSUME TablesOK, BrokerOK, Scheduler
             PROVE  TablesOK' /\ BrokerOK'
  BY Split, SplitNext
<1>1. ASSUME NEW j \in JobIds, RecoverExpired(j)
      PROVE  TablesOK' /\ BrokerOK'
  BY <1>1, FailJobStep DEF RecoverExpired, BrokerOK
<1>2. ASSUME NEW j \in JobIds, Publish(j)
      PROVE  TablesOK' /\ BrokerOK'
  <2>1. TablesOK'
    BY <1>2, TablesStutter DEF Publish
  <2>2. DeliveryId(j) \in Deliveries
    BY <1>2, DeliveryType DEF TablesOK
  <2> QED
    BY <1>2, <2>1, <2>2 DEF Publish, BrokerOK, EnqueueUnique, DeliveryStates
<1>3. ASSUME NEW j \in JobIds, CommitPublication(j)
      PROVE  TablesOK' /\ BrokerOK'
  <2> DEFINE q == [jobs[j] EXCEPT !.dispatched = "recent"]
  <2>1. RowOK(q) /\ q.source = jobs[j].source /\ q.status = jobs[j].status
    BY DEF TablesOK, RowOK, JobRow, Dispatches
  <2>2. jobs' = [jobs EXCEPT ![j] = q]
    BY <1>3 DEF CommitPublication, TablesOK
  <2> HIDE DEF q
  <2>3. TablesOK'
    BY <1>3, <2>1, <2>2, JobStep DEF CommitPublication, Active
  <2> QED
    BY <1>3, <2>3 DEF CommitPublication, BrokerOK
<1>4. ASSUME NEW s \in Sources, ScheduleDue(s)
      PROVE  TablesOK' /\ BrokerOK'
  <2>1. sources[s] \in SourceRow /\ sources[s].learned \in {NoFeed, sources[s].feed}
    BY DEF TablesOK, LearnedFeedIsCurrent
  <2> QED
    BY <1>4, <2>1, RequestStep DEF ScheduleDue, BrokerOK
<1> QED
  BY <1>1, <1>2, <1>3, <1>4 DEF Scheduler

\* The claim, the commit and the failure of an attempt keep the invariant.
LEMMA WorkerStep == IInv /\ Worker => IInv'
<1> SUFFICES ASSUME TablesOK, BrokerOK, Worker
             PROVE  TablesOK' /\ BrokerOK'
  BY Split, SplitNext
<1>1. ASSUME NEW d \in Deliveries, Claim(d)
      PROVE  TablesOK' /\ BrokerOK'
  <2> DEFINE j == d.job
             s == jobs[j].source
             t == CHOOSE k \in FreshTokens : TRUE
  <2>1. j \in JobIds /\ RowOK(jobs[j])
    BY DEF Deliveries, TablesOK
  <2>2. CASE jobs' = jobs /\ fetching' = fetching /\ redis' = [redis EXCEPT ![d] = "absent"]
    BY <1>1, <2>2, TablesStutter DEF Claim, BrokerOK, DeliveryStates
  <2>3. CASE /\ jobs[j].status = "queued"
             /\ jobs' = [jobs EXCEPT ![j] = CancelJob(jobs[j])]
             /\ redis' = [redis EXCEPT ![d] = "absent"]
             /\ fetching' = fetching
    <3>1. RowOK(CancelJob(jobs[j])) /\ CancelJob(jobs[j]).source = jobs[j].source
      BY <2>1, <2>3, CancelJobRow
    <3>2. TablesOK'
      BY <1>1, <2>1, <2>3, <3>1, JobStep DEF Claim, Active
    <3> QED
      BY <1>1, <2>3, <3>2 DEF Claim, BrokerOK, DeliveryStates
  <2>4. CASE /\ jobs[j].status = "queued"
             /\ FreshTokens # {}
             /\ jobs' = [jobs EXCEPT ![j] = StartJob(jobs[j], t)]
             /\ redis' = [redis EXCEPT ![d] = "started"]
             /\ fetching' = fetching \cup
                   {[delivery |-> d, token |-> t, url |-> sources[s].feed]}
    <3>1. t \in Tokens
      BY <2>4 DEF FreshTokens
    <3> HIDE DEF t
    <3>2. RowOK(StartJob(jobs[j], t)) /\ StartJob(jobs[j], t).source = jobs[j].source
      BY <2>1, <2>4, <3>1, StartJobRow
    <3>3. TablesOK'
      BY <1>1, <2>1, <2>4, <3>2, JobStep DEF Claim, Active
    <3>4. sources[s].feed \in Feeds \cup {NoFeed}
      BY <2>1, <2>4 DEF TablesOK, RowOK, SourceRow
    <3>5. [delivery |-> d, token |-> t, url |-> sources[s].feed] \in Handler
      BY <3>1, <3>4 DEF Handler
    <3> QED
      BY <1>1, <2>4, <3>3, <3>5 DEF Claim, BrokerOK, DeliveryStates
  <2> QED
    BY <1>1, <2>2, <2>3, <2>4 DEF Claim
<1>2. ASSUME NEW h \in fetching, Return(h)
      PROVE  BrokerOK'
  <2>1. h.delivery \in Deliveries
    BY DEF BrokerOK, Handler
  <2> QED
    BY <1>2, <2>1 DEF Return, BrokerOK, DeliveryStates
<1>3. ASSUME NEW h \in fetching, Apply(h)
      PROVE  TablesOK' /\ BrokerOK'
  <2> DEFINE j == h.delivery.job
             s == jobs[j].source
  <2>1. j \in JobIds /\ RowOK(jobs[j])
    BY DEF BrokerOK, Handler, Deliveries, TablesOK
  <2>2. BrokerOK'
    BY <1>2, <1>3 DEF Apply
  <2>3. CASE jobs' = jobs /\ sources' = sources
    BY <2>2, <2>3, TablesStutter
  <2>4. CASE /\ OwnedBy(jobs[j], h.token)
             /\ jobs' = [jobs EXCEPT ![j] = CancelJob(jobs[j])]
             /\ sources' = sources
    <3>1. RowOK(CancelJob(jobs[j])) /\ CancelJob(jobs[j]).source = jobs[j].source
      BY <2>1, <2>4, CancelJobRow DEF OwnedBy
    <3> QED
      BY <2>1, <2>2, <2>4, <3>1, JobStep DEF OwnedBy, Active
  <2>5. CASE /\ OwnedBy(jobs[j], h.token)
             /\ sources[s].feed = h.url
             /\ ApplySuccess(j, h.url)
    <3>1. /\ RowOK(FinishJob(jobs[j]))
          /\ FinishJob(jobs[j]).source = jobs[j].source
          /\ Active(jobs[j])
      BY <2>1, <2>5, FinishJobRow DEF OwnedBy, Active
    <3>2. jobs' = [jobs EXCEPT ![j] = FinishJob(jobs[j])]
      BY <2>5 DEF ApplySuccess
    <3>3. /\ jobs' \in [JobIds -> JobRow]
          /\ \A k \in JobIds : RowOK(jobs'[k])
          /\ OneActiveJob'
      BY <2>1, <3>1, <3>2, ReplaceJob
    <3> DEFINE row == [sources[s] EXCEPT !.failures = 0, !.learned = h.url, !.next = "later"]
    <3>4. s \in Sources /\ sources[s] \in SourceRow
      BY <2>1, <2>5 DEF RowOK, OwnedBy, TablesOK
    <3>5. row \in SourceRow /\ row.learned \in {NoFeed, row.feed}
      <4>1. /\ 0 \in 0..MaxFailures /\ "later" \in Availability
            /\ h.url = sources[s].feed /\ h.url \in Feeds \cup {NoFeed}
        BY <2>5, <3>4, OutboxAssumption DEF SourceRow, Availability
      <4> QED
        BY <3>4, <4>1 DEF SourceRow
    <3>6. sources' = [sources EXCEPT ![s] = row]
      BY <2>5, <3>4 DEF ApplySuccess, TablesOK
    <3> HIDE DEF row
    <3>7. sources' \in [Sources -> SourceRow] /\ LearnedFeedIsCurrent'
      BY <3>4, <3>5, <3>6, ReplaceSource
    <3> QED
      BY <2>2, <3>3, <3>7 DEF TablesOK
  <2> QED
    BY <1>3, <2>3, <2>4, <2>5 DEF Apply
<1>4. ASSUME NEW h \in fetching, NEW retryable \in BOOLEAN, FailAttempt(h, retryable)
      PROVE  TablesOK' /\ BrokerOK'
  <2> DEFINE j == h.delivery.job
  <2>1. j \in JobIds
    BY DEF BrokerOK, Handler, Deliveries
  <2>2. BrokerOK'
    BY <1>2, <1>4 DEF FailAttempt
  <2>3. CASE jobs' = jobs /\ sources' = sources
    BY <2>2, <2>3, TablesStutter
  <2>4. CASE OwnedBy(jobs[j], h.token) /\ FailJob(j, retryable)
    BY <2>1, <2>2, <2>4, FailJobStep DEF OwnedBy
  <2> QED
    BY <1>4, <2>3, <2>4 DEF FailAttempt
<1> QED
  BY <1>1, <1>3, <1>4 DEF Worker

\* Reviews, pauses, handoffs and requests keep the invariant.
LEMMA OperatorStep == IInv /\ Operator => IInv'
<1> SUFFICES ASSUME TablesOK, BrokerOK, Operator
             PROVE  TablesOK' /\ BrokerOK'
  BY Split, SplitNext
<1>1. ASSUME NEW s \in Sources
      PROVE  sources[s] \in SourceRow /\ sources[s].learned \in {NoFeed, sources[s].feed}
  BY DEF TablesOK, LearnedFeedIsCurrent
<1>3. ASSUME NEW s \in Sources, NEW enable \in BOOLEAN, Approve(s, enable)
      PROVE  TablesOK' /\ BrokerOK'
  <2> DEFINE row == [sources[s] EXCEPT !.approval = "approved", !.enabled = enable]
             asked == [row EXCEPT !.next = "due"]
  <2>1. row \in SourceRow /\ row.learned \in {NoFeed, row.feed}
    BY <1>1 DEF SourceRow
  <2>2. asked \in SourceRow /\ asked.learned \in {NoFeed, asked.feed}
    BY <2>1 DEF SourceRow, Availability
  <2>3. \/ RequestIngestion(s, asked)
        \/ sources' = [sources EXCEPT ![s] = row] /\ jobs' = jobs
    BY <1>3 DEF Approve
  <2> HIDE DEF row, asked
  <2>4. TablesOK'
    BY <2>1, <2>2, <2>3, RequestStep, SourceStep
  <2> QED
    BY <1>3, <2>4 DEF Approve, BrokerOK
<1>4. ASSUME NEW s \in Sources, Reject(s) \/ Reopen(s) \/ Pause(s)
      PROVE  TablesOK' /\ BrokerOK'
  <2>1. PICK row \in SourceRow :
            row.learned \in {NoFeed, row.feed} /\ sources' = [sources EXCEPT ![s] = row]
    <3>1. CASE Reject(s)
      <4>1. [sources[s] EXCEPT !.approval = "rejected", !.enabled = FALSE] \in SourceRow
        BY <1>1 DEF SourceRow
      <4> QED
        BY <1>1, <3>1, <4>1 DEF Reject, SourceRow, TablesOK
    <3>2. CASE Reopen(s)
      <4>1. [sources[s] EXCEPT !.approval = "pending", !.enabled = FALSE] \in SourceRow
        BY <1>1 DEF SourceRow
      <4> QED
        BY <1>1, <3>2, <4>1 DEF Reopen, SourceRow, TablesOK
    <3>3. CASE Pause(s)
      <4>1. [sources[s] EXCEPT !.enabled = FALSE] \in SourceRow
        BY <1>1 DEF SourceRow
      <4> QED
        BY <1>1, <3>3, <4>1 DEF Pause, SourceRow, TablesOK
    <3> QED
      BY <1>4, <3>1, <3>2, <3>3
  <2>2. TablesOK'
    BY <1>4, <2>1, SourceStep DEF Reject, Reopen, Pause
  <2> QED
    BY <1>4, <2>2 DEF Reject, Reopen, Pause, BrokerOK
<1>5. ASSUME NEW s \in Sources, NEW feed \in Feeds, Handoff(s, feed)
      PROVE  TablesOK' /\ BrokerOK'
  <2> DEFINE learned == IF feed = sources[s].feed THEN sources[s].learned ELSE NoFeed
             row == [sources[s] EXCEPT !.feed = feed, !.learned = learned]
  <2>1. learned \in {NoFeed, feed}
    BY <1>1
  <2>2. sources' = [sources EXCEPT ![s] = row]
    BY <1>1, <1>5 DEF Handoff, TablesOK, SourceRow
  <2> HIDE DEF learned
  <2>3. row \in SourceRow /\ row.learned \in {NoFeed, row.feed}
    BY <1>1, <2>1 DEF SourceRow
  <2> HIDE DEF row
  <2>4. TablesOK'
    BY <1>5, <2>2, <2>3, SourceStep DEF Handoff
  <2> QED
    BY <1>5, <2>4 DEF Handoff, BrokerOK
<1>6. ASSUME NEW s \in Sources, Resume(s)
      PROVE  TablesOK' /\ BrokerOK'
  <2> DEFINE next == IF /\ sources[s].approval = "approved"
                        /\ sources[s].failures = 0
                        /\ ActiveFor(s) = {}
                     THEN "due" ELSE sources[s].next
             row == [sources[s] EXCEPT !.enabled = TRUE, !.next = next]
  <2>1. next \in Availability
    BY <1>1 DEF SourceRow, Availability
  <2>2. sources' = [sources EXCEPT ![s] = row]
    BY <1>1, <1>6 DEF Resume, TablesOK, SourceRow
  <2> HIDE DEF next
  <2>3. row \in SourceRow /\ row.learned \in {NoFeed, row.feed}
    BY <1>1, <2>1 DEF SourceRow
  <2> HIDE DEF row
  <2>4. TablesOK'
    BY <1>6, <2>2, <2>3, SourceStep DEF Resume
  <2> QED
    BY <1>6, <2>4 DEF Resume, BrokerOK
<1>7. ASSUME NEW s \in Sources, ResumeIngestion(s)
      PROVE  TablesOK' /\ BrokerOK'
  <2> DEFINE row == [sources[s] EXCEPT !.enabled = TRUE]
  <2>1. row \in SourceRow /\ row.learned \in {NoFeed, row.feed}
    BY <1>1 DEF SourceRow
  <2>2. RequestIngestion(s, row)
    BY <1>7 DEF ResumeIngestion
  <2> HIDE DEF row
  <2>3. TablesOK'
    BY <2>1, <2>2, RequestStep
  <2> QED
    BY <1>7, <2>3 DEF ResumeIngestion, BrokerOK
<1>8. ASSUME NEW s \in Sources, FetchSource(s)
      PROVE  TablesOK' /\ BrokerOK'
  BY <1>1, <1>8, RequestStep DEF FetchSource, BrokerOK
<1>9. ASSUME NEW j \in JobIds, RetryJob(j)
      PROVE  TablesOK' /\ BrokerOK'
  <2>1. jobs[j].source \in Sources
    BY <1>9 DEF RetryJob, TablesOK, RowOK
  <2> QED
    BY <1>8, <1>9, <2>1 DEF RetryJob
<1>10. ASSUME NEW j \in JobIds, PrepareImmediateDispatch(j)
       PROVE  TablesOK' /\ BrokerOK'
  <2> DEFINE n == jobs[j].overrides + 1
             q == [jobs[j] EXCEPT !.available = "due", !.dispatched = "never", !.overrides = n]
  <2>1. RowOK(jobs[j]) /\ jobs[j].status = "queued" /\ n \in 0..MaxOverrides
    BY <1>10, OutboxAssumption DEF PrepareImmediateDispatch, TablesOK, JobRow
  <2>2. jobs' = [jobs EXCEPT ![j] = q]
    BY <1>10 DEF PrepareImmediateDispatch, TablesOK, JobRow
  <2> HIDE DEF n
  <2>3. RowOK(q) /\ q.source = jobs[j].source
    BY <2>1 DEF RowOK, JobRow, Availability, Dispatches
  <2> HIDE DEF q
  <2>4. TablesOK'
    BY <1>10, <2>1, <2>2, <2>3, JobStep DEF PrepareImmediateDispatch, Active
  <2> QED
    BY <1>10, <2>4 DEF PrepareImmediateDispatch, BrokerOK
<1> QED
  BY <1>3, <1>4, <1>5, <1>6, <1>7, <1>8, <1>9, <1>10 DEF Operator

\* Losses, crashes and RQ's maintenance keep the invariant.
LEMMA BrokerStep == IInv /\ Broker => IInv'
<1> SUFFICES ASSUME TablesOK, BrokerOK, Broker
             PROVE  TablesOK' /\ BrokerOK'
  BY Split, SplitNext
<1>1. ASSUME NEW j \in JobIds, AbortPublication(j)
      PROVE  TablesOK' /\ BrokerOK'
  BY <1>1, TablesStutter, FaultType DEF AbortPublication, BrokerOK
<1>2. ASSUME NEW d \in Deliveries, LoseDelivery(d) \/ DieBeforeClaim(d)
      PROVE  TablesOK' /\ BrokerOK'
  BY <1>2, TablesStutter, FaultType DEF LoseDelivery, DieBeforeClaim, BrokerOK, DeliveryStates
<1>3. ASSUME NEW d \in Deliveries, Reap(d)
      PROVE  TablesOK' /\ BrokerOK'
  BY <1>3, TablesStutter DEF Reap, ReapStarted, BrokerOK, DeliveryStates
<1>4. ASSUME NEW h \in fetching, DieFetching(h)
      PROVE  TablesOK' /\ BrokerOK'
  BY <1>4, TablesStutter, FaultType DEF DieFetching, BrokerOK
<1> QED
  BY <1>1, <1>2, <1>3, <1>4 DEF Broker

\* The passage of time keeps the invariant.
LEMMA ClockStep == IInv /\ Clock => IInv'
<1> SUFFICES ASSUME TablesOK, BrokerOK, Clock
             PROVE  TablesOK' /\ BrokerOK'
  BY Split, SplitNext
<1>1. ASSUME NEW j \in JobIds, LeaseExpires(j) \/ JobComesDue(j) \/ DispatchGoesStale(j)
      PROVE  TablesOK' /\ BrokerOK'
  <2>0. RowOK(jobs[j])
    BY DEF TablesOK
  <2>1. PICK q : /\ RowOK(q) /\ q.source = jobs[j].source /\ q.status = jobs[j].status
                 /\ jobs' = [jobs EXCEPT ![j] = q]
    <3>1. CASE LeaseExpires(j)
      <4>1. RowOK([jobs[j] EXCEPT !.lease = "expired"])
        BY <2>0, <3>1 DEF LeaseExpires, RowOK, JobRow, Leases
      <4> QED
        BY <2>0, <3>1, <4>1 DEF LeaseExpires, TablesOK, RowOK, JobRow
    <3>2. CASE JobComesDue(j)
      <4>1. RowOK([jobs[j] EXCEPT !.available = "due"])
        BY <2>0, <3>2 DEF JobComesDue, RowOK, JobRow, Availability
      <4> QED
        BY <2>0, <3>2, <4>1 DEF JobComesDue, TablesOK, RowOK, JobRow
    <3>3. CASE DispatchGoesStale(j)
      <4>1. RowOK([jobs[j] EXCEPT !.dispatched = "stale"])
        BY <2>0, <3>3 DEF DispatchGoesStale, RowOK, JobRow, Dispatches
      <4> QED
        BY <2>0, <3>3, <4>1 DEF DispatchGoesStale, TablesOK, RowOK, JobRow
    <3> QED
      BY <1>1, <3>1, <3>2, <3>3
  <2>2. sources' = sources
    BY <1>1 DEF LeaseExpires, JobComesDue, DispatchGoesStale
  <2>3. TablesOK'
    BY <2>1, <2>2, JobStep DEF Active
  <2> QED
    BY <1>1, <2>3 DEF LeaseExpires, JobComesDue, DispatchGoesStale, BrokerOK
<1>2. ASSUME NEW s \in Sources, SourceComesDue(s)
      PROVE  TablesOK' /\ BrokerOK'
  <2> DEFINE row == [sources[s] EXCEPT !.next = "due"]
  <2>1. row \in SourceRow /\ row.learned \in {NoFeed, row.feed}
    BY DEF TablesOK, LearnedFeedIsCurrent, SourceRow, Availability
  <2>2. sources' = [sources EXCEPT ![s] = row]
    BY <1>2 DEF SourceComesDue, TablesOK
  <2> HIDE DEF row
  <2>3. TablesOK'
    BY <1>2, <2>1, <2>2, SourceStep DEF SourceComesDue
  <2> QED
    BY <1>2, <2>3 DEF SourceComesDue, BrokerOK
<1> QED
  BY <1>1, <1>2 DEF Clock

-----------------------------------------------------------------------------
(* The theorems.                                                           *)

\* The initial state satisfies the invariant.
LEMMA InitInvariant == Init => IInv
<1> SUFFICES ASSUME Init PROVE IInv
  OBVIOUS
<1> DEFINE r == [NewJob(NoSource, "due") EXCEPT !.status = "unused"]
<1>1. RowOK(r) /\ r.status = "unused"
  BY OutboxAssumption
     DEF RowOK, NewJob, JobRow, Statuses, Availability, Dispatches, Leases
<1>2. jobs = [j \in JobIds |-> r]
  BY DEF Init
<1> HIDE DEF r
<1>3. /\ jobs \in [JobIds -> JobRow]
      /\ \A j \in JobIds : RowOK(jobs[j])
      /\ OneActiveJob
  BY <1>1, <1>2 DEF RowOK, OneActiveJob, ActiveFor, Active
<1>4. sources \in [Sources -> SourceRow] /\ LearnedFeedIsCurrent
  BY OutboxAssumption DEF Init, SourceRow, Availability, LearnedFeedIsCurrent
<1>5. BrokerOK
  BY OutboxAssumption DEF Init, BrokerOK, DeliveryStates
<1> QED
  BY <1>3, <1>4, <1>5, Split DEF TablesOK

\* Every step keeps the invariant.
LEMMA StepInvariant == IInv /\ [Next]_vars => IInv'
<1>1. IInv /\ UNCHANGED vars => IInv'
  BY DEF vars, IInv, TypeOK, OneActiveJob, ActiveFor, LearnedFeedIsCurrent
<1> QED
  BY <1>1, SchedulerStep, WorkerStep, OperatorStep, BrokerStep, ClockStep DEF Next

\* The inductive invariant holds for ever, whatever the constants.
THEOREM Invariance == Spec => []IInv
BY InitInvariant, StepInvariant, PTL DEF Spec

\* Type correctness, which bounds attempts by the retry budget.
THEOREM TypeCorrect == Spec => []TypeOK
<1>1. IInv => TypeOK
  BY DEF IInv
<1> QED
  BY <1>1, Invariance, PTL

\* At most one active job per source.
THEOREM Serialised == Spec => []OneActiveJob
<1>1. IInv => OneActiveJob
  BY DEF IInv
<1> QED
  BY <1>1, Invariance, PTL

\* A row is leased exactly while it runs.
THEOREM Leased == Spec => []LeaseMatchesStatus
<1>1. IInv => LeaseMatchesStatus
  BY DEF IInv, RowOK, LeaseMatchesStatus
<1> QED
  BY <1>1, Invariance, PTL

\* No response of a replaced feed is ever learned from.
THEOREM LearnsOwnFeed == Spec => []LearnedFeedIsCurrent
<1>1. IInv => LearnedFeedIsCurrent
  BY DEF IInv
<1> QED
  BY <1>1, Invariance, PTL

-----------------------------------------------------------------------------
(* What one step can do to the jobs table, from which the action property  *)
(* and the refinement both follow.                                         *)

Quiet ==
    \A j \in JobIds :
        /\ jobs'[j].status = jobs[j].status
        /\ jobs'[j].attempts = jobs[j].attempts
        /\ jobs'[j].source = jobs[j].source

Requested(j, s) ==
    /\ ~Active(jobs[j])
    /\ ActiveFor(s) = {}
    /\ \E a \in Availability : jobs' = [jobs EXCEPT ![j] = NewJob(s, a)]

Started(j) ==
    /\ jobs[j].status = "queued"
    /\ \E t \in Tokens : jobs' = [jobs EXCEPT ![j] = StartJob(jobs[j], t)]

Settled(j, q) ==
    /\ RowOK(q) /\ q.source = jobs[j].source /\ q.attempts = jobs[j].attempts
    /\ \/ jobs[j].status = "running" /\ q.status \in {"succeeded", "failed"}
       \/ jobs[j].status = "running" /\ q.status = "queued"
       \/ jobs[j].status = "queued" /\ q.status = "failed"
    /\ jobs' = [jobs EXCEPT ![j] = q]
    /\ jobs[j].status = "running" =>
          \/ jobs[j].lease = "expired"
          \/ \E h \in fetching \ fetching' : h.delivery.job = j /\ h.token = jobs[j].token

Effect ==
    \/ Quiet
    \/ \E j \in JobIds : \/ \E s \in Sources : Requested(j, s)
                         \/ Started(j)
                         \/ \E q : Settled(j, q)

\* request_ingestion either changes no row or adds one.
LEMMA RequestEffect ==
    ASSUME TablesOK, NEW s \in Sources, NEW row \in SourceRow, RequestIngestion(s, row)
    PROVE  Effect
<1>1. CASE jobs' = jobs
  BY <1>1 DEF Effect, Quiet
<1>2. CASE /\ ActiveFor(s) = {} /\ FreeJobs # {}
           /\ \E a \in Availability :
                jobs' = [jobs EXCEPT ![CHOOSE k \in FreeJobs : TRUE] = NewJob(s, a)]
  <2> DEFINE j == CHOOSE k \in FreeJobs : TRUE
  <2>1. j \in JobIds /\ ~Active(jobs[j])
    BY <1>2 DEF FreeJobs
  <2> HIDE DEF j
  <2>2. Requested(j, s)
    BY <1>2, <2>1 DEF Requested, j
  <2> QED
    BY <2>1, <2>2 DEF Effect
<1>3. (IF row.failures > 0 /\ s \in AdaptiveSources THEN row.next ELSE "due") \in Availability
  BY DEF SourceRow, Availability
<1> QED
  BY <1>1, <1>2, <1>3 DEF RequestIngestion

\* fail_job settles the running attempt of its row and no other.
LEMMA FailJobEffect ==
    ASSUME TablesOK, NEW j \in JobIds, jobs[j].status = "running",
           NEW retryable \in BOOLEAN, FailJob(j, retryable),
           \/ jobs[j].lease = "expired"
           \/ \E h \in fetching \ fetching' : h.delivery.job = j /\ h.token = jobs[j].token
    PROVE  Effect
<1> DEFINE s == jobs[j].source
           q == FailOrRetry(jobs[j], retryable /\ sources[s].enabled,
                            jobs[j].attempts, MaxAttempts)
<1>1. RowOK(jobs[j]) /\ (retryable /\ sources[s].enabled) \in BOOLEAN
  BY DEF TablesOK, RowOK, SourceRow
<1>2. CASE jobs' = [jobs EXCEPT ![j] = CancelJob(jobs[j])]
  <2>1. Settled(j, CancelJob(jobs[j]))
    BY <1>1, <1>2, CancelJobRow DEF Settled
  <2> QED
    BY <2>1 DEF Effect
<1>3. CASE jobs' = [jobs EXCEPT ![j] = q]
  <2>1. /\ RowOK(q) /\ q.status \in {"queued", "failed"}
        /\ q.source = jobs[j].source /\ q.attempts = jobs[j].attempts
    BY <1>1, FailOrRetryRow
  <2> HIDE DEF q
  <2>2. Settled(j, q)
    BY <1>3, <2>1 DEF Settled
  <2> QED
    BY <2>2 DEF Effect
<1> QED
  BY <1>2, <1>3 DEF FailJob

\* Every step has one of the four effects on the jobs table.
LEMMA StepEffect == IInv /\ Next => Effect
<1> SUFFICES ASSUME TablesOK, BrokerOK, Next
             PROVE  Effect
  BY Split
<1>1. ASSUME jobs' = jobs PROVE Effect
  BY <1>1 DEF Effect, Quiet
<1>2. ASSUME NEW s \in Sources
      PROVE  sources[s] \in SourceRow
  BY DEF TablesOK
<1>3. ASSUME NEW j \in JobIds
      PROVE  RowOK(jobs[j]) /\ jobs[j] \in JobRow
  BY DEF TablesOK, RowOK
<1>4. CASE Scheduler
  <2>1. ASSUME NEW j \in JobIds, RecoverExpired(j) PROVE Effect
    BY <2>1, FailJobEffect DEF RecoverExpired
  <2>2. ASSUME NEW j \in JobIds, Publish(j) PROVE Effect
    BY <1>1, <2>2 DEF Publish
  <2>3. ASSUME NEW j \in JobIds, CommitPublication(j) PROVE Effect
    BY <1>3, <2>3 DEF CommitPublication, Effect, Quiet, JobRow, TablesOK
  <2>4. ASSUME NEW s \in Sources, ScheduleDue(s) PROVE Effect
    BY <1>2, <2>4, RequestEffect DEF ScheduleDue
  <2> QED
    BY <1>4, <2>1, <2>2, <2>3, <2>4 DEF Scheduler
<1>5. CASE Worker
  <2>1. ASSUME NEW d \in Deliveries, Claim(d) PROVE Effect
    <3> DEFINE j == d.job
               t == CHOOSE k \in FreshTokens : TRUE
    <3>1. j \in JobIds
      BY DEF Deliveries
    <3>2. CASE jobs[j].status = "queued" /\ jobs' = [jobs EXCEPT ![j] = CancelJob(jobs[j])]
      <4>1. Settled(j, CancelJob(jobs[j]))
        BY <1>3, <3>1, <3>2, CancelJobRow DEF Settled
      <4> QED
        BY <3>1, <4>1 DEF Effect
    <3>3. CASE /\ jobs[j].status = "queued" /\ FreshTokens # {}
               /\ jobs' = [jobs EXCEPT ![j] = StartJob(jobs[j], t)]
      <4>1. t \in Tokens
        BY <3>3 DEF FreshTokens
      <4> HIDE DEF t
      <4> QED
        BY <3>1, <3>3, <4>1 DEF Effect, Started
    <3> QED
      BY <1>1, <2>1, <3>2, <3>3 DEF Claim
  <2>2. ASSUME NEW h \in fetching, Apply(h) PROVE Effect
    <3> DEFINE j == h.delivery.job
    <3>1. j \in JobIds /\ RowOK(jobs[j])
      BY <1>3 DEF BrokerOK, Handler, Deliveries
    <3>2. OwnedBy(jobs[j], h.token) =>
            \E g \in fetching \ fetching' : g.delivery.job = j /\ g.token = jobs[j].token
      BY <2>2 DEF Apply, Return, OwnedBy
    <3>3. CASE OwnedBy(jobs[j], h.token) /\ jobs' = [jobs EXCEPT ![j] = CancelJob(jobs[j])]
      <4>1. Settled(j, CancelJob(jobs[j]))
        BY <3>1, <3>2, <3>3, CancelJobRow DEF Settled, OwnedBy
      <4> QED
        BY <3>1, <4>1 DEF Effect
    <3>4. CASE OwnedBy(jobs[j], h.token) /\ jobs' = [jobs EXCEPT ![j] = FinishJob(jobs[j])]
      <4>1. Settled(j, FinishJob(jobs[j]))
        BY <3>1, <3>2, <3>4, FinishJobRow DEF Settled, OwnedBy
      <4> QED
        BY <3>1, <4>1 DEF Effect
    <3> QED
      BY <1>1, <2>2, <3>3, <3>4 DEF Apply, ApplySuccess
  <2>3. ASSUME NEW h \in fetching, NEW retryable \in BOOLEAN, FailAttempt(h, retryable)
        PROVE  Effect
    <3> DEFINE j == h.delivery.job
    <3>1. j \in JobIds
      BY DEF BrokerOK, Handler, Deliveries
    <3>2. CASE OwnedBy(jobs[j], h.token) /\ FailJob(j, retryable)
      <4>1. \E g \in fetching \ fetching' : g.delivery.job = j /\ g.token = jobs[j].token
        BY <2>3, <3>2 DEF FailAttempt, Return, OwnedBy
      <4> QED
        BY <3>1, <3>2, <4>1, FailJobEffect DEF OwnedBy
    <3> QED
      BY <1>1, <2>3, <3>2 DEF FailAttempt
  <2> QED
    BY <1>5, <2>1, <2>2, <2>3 DEF Worker
<1>6. CASE Operator
  <2>1. ASSUME NEW s \in Sources, NEW enable \in BOOLEAN, Approve(s, enable) PROVE Effect
    <3> DEFINE asked == [[sources[s] EXCEPT !.approval = "approved", !.enabled = enable]
                            EXCEPT !.next = "due"]
    <3>1. asked \in SourceRow
      BY <1>2 DEF SourceRow, Availability
    <3>2. jobs' = jobs \/ RequestIngestion(s, asked)
      BY <2>1 DEF Approve
    <3> HIDE DEF asked
    <3> QED
      BY <1>1, <3>1, <3>2, RequestEffect
  <2>2. ASSUME NEW s \in Sources, NEW feed \in Feeds,
               Reject(s) \/ Reopen(s) \/ Pause(s) \/ Resume(s) \/ Handoff(s, feed)
        PROVE  Effect
    BY <1>1, <2>2 DEF Reject, Reopen, Pause, Resume, Handoff
  <2>3. ASSUME NEW s \in Sources, Reject(s) \/ Reopen(s) \/ Pause(s) \/ Resume(s)
        PROVE  Effect
    BY <1>1, <2>3 DEF Reject, Reopen, Pause, Resume
  <2>4. ASSUME NEW s \in Sources, ResumeIngestion(s) PROVE Effect
    <3>1. [sources[s] EXCEPT !.enabled = TRUE] \in SourceRow
      BY <1>2 DEF SourceRow
    <3> QED
      BY <2>4, <3>1, RequestEffect DEF ResumeIngestion
  <2>5. ASSUME NEW s \in Sources, FetchSource(s) PROVE Effect
    BY <1>2, <2>5, RequestEffect DEF FetchSource
  <2>6. ASSUME NEW j \in JobIds, RetryJob(j) PROVE Effect
    <3>1. jobs[j].source \in Sources
      BY <1>3, <2>6 DEF RetryJob, RowOK
    <3> QED
      BY <2>5, <2>6, <3>1 DEF RetryJob
  <2>7. ASSUME NEW j \in JobIds, PrepareImmediateDispatch(j) PROVE Effect
    BY <1>3, <2>7 DEF PrepareImmediateDispatch, Effect, Quiet, JobRow, TablesOK
  <2> QED
    BY <1>6, <2>1, <2>2, <2>3, <2>4, <2>5, <2>6, <2>7 DEF Operator
<1>7. CASE Broker
  BY <1>1, <1>7
     DEF Broker, AbortPublication, LoseDelivery, DieBeforeClaim, Reap, DieFetching
<1>8. CASE Clock
  <2>1. ASSUME NEW j \in JobIds, LeaseExpires(j) \/ JobComesDue(j) \/ DispatchGoesStale(j)
        PROVE  Effect
    BY <1>3, <2>1
       DEF LeaseExpires, JobComesDue, DispatchGoesStale, Effect, Quiet, JobRow, TablesOK
  <2> QED
    BY <1>1, <1>8, <2>1 DEF Clock, SourceComesDue
<1> QED
  BY <1>4, <1>5, <1>6, <1>7, <1>8 DEF Next

\* A superseded worker never settles an attempt: only the handler that claimed
\* it, or recovery after the lease expired, ends a running attempt.
THEOREM OwnerOnly == Spec => OnlyOwnerSettles
<1> DEFINE Ends(j) ==
        jobs[j].status = "running" /\ jobs'[j].status # "running" =>
            \/ jobs[j].lease = "expired"
            \/ \E h \in fetching \ fetching' :
                  h.delivery.job = j /\ h.token = jobs[j].token
<1>1. IInv /\ [Next]_vars => [\A j \in JobIds : Ends(j)]_vars
  <2> SUFFICES ASSUME IInv, Next, NEW j \in JobIds PROVE Ends(j)
    BY DEF vars
  <2>1. jobs \in [JobIds -> JobRow]
    BY DEF IInv, TypeOK
  <2>2. CASE Quiet
    BY <2>2 DEF Quiet
  <2>3. ASSUME NEW k \in JobIds, NEW s \in Sources, Requested(k, s) PROVE Ends(j)
    BY <2>1, <2>3 DEF Requested, Active
  <2>4. ASSUME NEW k \in JobIds, Started(k) PROVE Ends(j)
    BY <2>1, <2>4 DEF Started
  <2>5. ASSUME NEW k \in JobIds, NEW q, Settled(k, q) PROVE Ends(j)
    BY <2>1, <2>5 DEF Settled
  <2> QED
    BY <2>2, <2>3, <2>4, <2>5, StepEffect DEF Effect
<1> QED
  BY <1>1, Invariance, PTL DEF Spec, OnlyOwnerSettles

\* The outbox with its broker, workers, leases and faults implements the
\* contract of a durable job.
THEOREM Implements == Spec => ContractHolds
<1>1. Init => Contract!Init
  BY DEF Init, Contract!Init, NewJob
<1>2. IInv /\ [Next]_vars => [Contract!Next]_(Contract!vars)
  <2>1. ASSUME IInv, Next PROVE [Contract!Next]_(Contract!vars)
    <3>0. jobs \in [JobIds -> JobRow] /\ \A j \in JobIds : RowOK(jobs[j])
      BY <2>1 DEF IInv, TypeOK
    <3>1. CASE Quiet
      BY <3>0, <3>1 DEF Quiet, Contract!vars
    <3>2. ASSUME NEW j \in JobIds, NEW s \in Sources, Requested(j, s) PROVE Contract!Next
      <4>1. PICK a \in Availability : jobs' = [jobs EXCEPT ![j] = NewJob(s, a)]
        BY <3>2 DEF Requested
      <4>2. NewJob(s, a).status = "queued" /\ NewJob(s, a).attempts = 0 /\ NewJob(s, a).source = s
        BY DEF NewJob
      <4>3. \A k \in JobIds : jobs[k].status \in Statuses
        BY <3>0 DEF JobRow
      <4>4. Contract!Request(j, s)
        BY <3>0, <3>2, <4>1, <4>2, <4>3
           DEF Requested, Contract!Request, Contract!Idle, Active, ActiveFor, Statuses
      <4> QED
        BY <4>4 DEF Contract!Next
    <3>3. ASSUME NEW j \in JobIds, Started(j) PROVE Contract!Next
      <4>1. PICK t \in Tokens : jobs' = [jobs EXCEPT ![j] = StartJob(jobs[j], t)]
        BY <3>3 DEF Started
      <4>2. /\ StartJob(jobs[j], t).status = "running"
            /\ StartJob(jobs[j], t).source = jobs[j].source
            /\ StartJob(jobs[j], t).attempts = jobs[j].attempts + 1
            /\ jobs[j].attempts < MaxAttempts
        BY <3>0, <3>3, StartJobRow DEF Started, RowOK
      <4>3. Contract!Start(j)
        BY <3>0, <3>3, <4>1, <4>2 DEF Started, Contract!Start
      <4> QED
        BY <4>3 DEF Contract!Next
    <3>4. ASSUME NEW j \in JobIds, NEW q, Settled(j, q) PROVE Contract!Next
      <4>1. q.status = "queued" => jobs[j].attempts < MaxAttempts
        BY <3>4 DEF Settled, RowOK
      <4>2. Contract!Settle(j, q.status)
        BY <3>0, <3>4, <4>1 DEF Settled, Contract!Settle
      <4> QED
        BY <3>4, <4>2 DEF Contract!Next, Settled
    <3> QED
      BY <2>1, <3>1, <3>2, <3>3, <3>4, StepEffect DEF Effect
  <2>2. UNCHANGED vars => UNCHANGED Contract!vars
    BY DEF vars, Contract!vars
  <2> QED
    BY <2>1, <2>2
<1> QED
  BY <1>1, <1>2, Invariance, PTL DEF Spec, ContractHolds, Contract!Spec

=============================================================================
