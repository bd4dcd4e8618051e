# A TLA+ verification of devfeed.tech

devfeed.tech aggregates developer feeds. PostgreSQL holds every record and every durable
job, Redis carries deliveries to RQ workers and caches public responses, and a scheduler
process ticks for ever: it recovers interrupted jobs, schedules sources that have come due
and publishes what is due to Redis. Operators review, pause, retry and dispatch through the
admin API and the command line while all that goes on.

This directory models the part of the program where its own concurrency lives, checks it
with TLC on small instances, and proves the main safety properties with TLAPS for every
value of the constants. `PROJECT.json` is the index: components, runs, mutants, the map from
definitions to source lines, the hazards the properties are aimed at, findings, theorems.

## 1. Inventory

| Component | State it keeps | Operations | What is hard | What makes it correct |
| --- | --- | --- | --- | --- |
| Durable job lifecycle (`job_lifecycle.py`) | status, attempts, available_at, dispatched_at, lease, token of a row | start, finish, fail or retry, clear lease | every pipeline shares it | a lease exactly while running; the retry budget |
| Ingestion jobs (`jobs.py`, `services.py`) | `ingestion_jobs`, the fetch fields of `sources` | request, claim, fail, cancel, fetch, retry, immediate dispatch | several requesters, late workers, pauses in mid-fetch | one active job per source; only the owner settles; every job settles |
| Dispatcher (`job_dispatch.py`, `delivery.py`) | `dispatched_at` | select due rows, enqueue, stamp, commit | Redis before the commit | a rolled-back batch can be replayed; nothing due is forgotten |
| Delivery queue (`aggregator/queue.py`) | RQ hashes and lists | unique enqueue, restore, replace | orphaned, dead and lost deliveries | a due row is never blocked by an old delivery |
| Ingestion worker (`aggregator/tasks.py`) | none between its two transactions | claim, fetch, apply, fail | state read before the download, used after it | rechecks of ownership, approval, pause and feed |
| Scheduler (`aggregator/scheduler.py`) | none | recover, schedule, dispatch, expand | races every worker | recovered exactly when the lease has expired |
| Source review (`services.py`, `source_lifecycle.py`, `discovery.py`) | approval, enabled, feed | approve, reject, reopen, pause, resume, hand off | runs concurrently with fetches | decisions fence running fetches |
| Response cache (`cache.py`, `api/cache.py`, `profile.py`, `cache_events.py`) | generation, bodies, locks in Redis | lookup, publish, release, invalidate | stale loaders, lost locks, eviction, missed invalidations | no answer older than a finished invalidation; staleness ends |
| Notifications (`notifications.py`, `notification_delivery.py`, `notifications/delivery.py`) | `notification_deliveries` | enqueue, claim, post, settle, recover, retry | an external service between two transactions; a retention window | at most once for the audience; success is true; every notice settles |
| Feed fan-out (`feed_notifications.py`) | an event with a cursor, the rows it made | record, expand a page per tick, recheck at delivery | follows and subjects change between pages | nobody who stayed a follower is missed, nobody who came later is told |
| Topic decision (`topic_decisions.py`, `topic_decision_budget.py`, `topic_decision_tasks.py`) | a run with limits, calls and checkpoints | schedule, reserve, settle, save, decide, grant | a paid call between two transactions; late settlements | charges never forgotten, overspending bounded, a review is final |
| Article analysis (`article_analysis_steps.py`, `analysis.py`, `analysis_tasks.py`) | a job row with a ledger of its specialist steps | request, claim, run or reuse a step, defer, recover, apply, reschedule | evidence, catalogue and editor move while steps run in turn for minutes | only the present evidence is shown; paid outputs are kept; everything is judged |
| Article refresh (`article_refresh*.py`) | a private draft with the base it was copied from | open, retry, run its stages, review, promote, retire | the public article changes while a promotion is prepared without locks | no edit is overwritten, what was judged is published |
| Partner outbox (`partner_outbox.py`, `ai_capacity.py`) | evaluations, shared capacity and pauses | dispatch by turns, pause | several dispatchers, one capacity | capacity and recovery reserve kept |
| Polling cadence (`polling.py`) | polling state, next_fetch_at | decide, observe, reconcile | three writers of one due time | the interval stays in its bounds |
| Images, enrichment, verification, recommendations, search, sitemaps, analytics, identity, APIs, CLI, front ends, telemetry | see `PROJECT.json` | | | |

How they interact: services and the scheduler write rows in transactions that lock the source
row first and the job row second; the dispatcher turns rows into deliveries; workers turn
deliveries back into transactions on the same rows. A committed write to a public table
fires the cache's `after_commit` hook. Notifications are inserted in the transaction that
makes their event true and travel through the same dispatcher; for a feed event it is the
scheduler's tick that computes the audience, page by page, and inserts their rows.
An enrichment asks for the analysis of the evidence it found, and an analysis ends in the
publication policy, whose first publication is the event that the fan-out expands. An article
that is published is left alone by all of these: its enrichment, analysis and image jobs then
work for a refresh, on the draft.

## 2. Modules

| Module | Models |
| --- | --- |
| `JobLifecycle` | the transitions of a job row, as operators on a record |
| `DurableQueue` | the states of one unique delivery in Redis |
| `JobContract` | abstract: what a durable job promises, without broker, lease, worker or clock |
| `IngestionOutbox` | ingestion end to end; extends the first two, implements `JobContract` |
| `ResponseCache` | the cache, the requests through it, the writers that invalidate it |
| `NotificationDelivery` | the notification outbox, its worker and Chimely's idempotency window; implements `JobContract` |
| `AnalysisJob` | the failure policy the AI pipelines put on top of `JobLifecycle`: waiting for capacity |
| `TopicDecision` | the budget and the stages of one topic decision; extends `AnalysisJob` |
| `ArticleAnalysis` | the analysis of one article, its steps, what moves meanwhile; extends `AnalysisJob` |
| `FeedFanout` | the audience of one publication, computed in pages |
| `ArticleRefresh` | the private draft of a published article and its promotion |
| `MC*` | instances for TLC |
| `Sums` | what a changed or added entry does to a sum; for the accounts of `TopicDecision_proofs` |
| `*_proofs` | theorems of the module they extend |

**Time.** A timestamp is kept as the outcome of the comparisons the code makes with it
(`available` is due or later, `lease` is live or expired, `dispatched` is never, recent or
stale), and passing it is an action of its own. Every relative speed of clocks, workers and
the scheduler is thereby allowed, more than the real durations permit. Only
`NotificationDelivery`, where lengths of time carry the argument, counts days.

**Delivery.** `IngestionOutbox` has the dispatcher and the broker in detail, and shows what
they come to: a due row is claimed in the end, perhaps twice, perhaps late. The other modules
start from there, and a due row may be claimed.

**Versions.** Where the code compares digests (evidence, catalogue, draft, publication) a module
has a version number, and the comparison is of numbers. Digests that differ by accident do not
occur; a digest that returns to an earlier value does so in the model only where the code
can restore the content itself.

**Atomicity.** An action is one transaction, one Redis command or one script. Row locks
make the transactions atomic; where a lock is held over a call to Redis (publication) there are
two actions and the lock is a variable (`publishing`), on which claims, settlements and
immediate dispatches wait. Downloads, HTTP requests and renders lie between actions.

### IngestionOutbox

`sources` and `jobs` are the tables; `redis` gives the state of every delivery identity
(job, attempts, due time: a retry changes the attempts, an immediate dispatch the due time);
`fetching` holds what `_ingest` carries from its claim to `_ingest_claimed`. Actions carry the
names of the code: `RequestIngestion`, `FailJob`, `CancelJob` are the services' functions,
`RecoverExpired`, `ScheduleDue`, `Publish`/`CommitPublication`/`AbortPublication` the tick,
`Claim`, `Apply`, `FailAttempt` the worker, `Approve` … `PrepareImmediateDispatch` the
operators; the rest is the broker, crashes and the clock. `learned` is the feed that the
source's validators and polling state came from.

Abstracted: the operator's activation blockers (an approval may be refused at any time, which
is the same as not being asked), the amounts of delays, the entries a fetch stores, batch limits
(each job is published on its own; a failing batch is any set of aborted publications).
Job identifiers, tokens and (in the cache) generations are drawn from small sets and reused
once nothing refers to them any more, in place of fresh UUIDs.

### ResponseCache

The database is a counter of committed public writes and a response is the number its snapshot
saw. `pending` are commits whose hook has not run, `announced` the latest write whose
invalidation succeeded, `floor` what was announced when a request began. Every lookup command
may fail, with `SET NX` possibly applied, which covers errors, timeouts and the process's
breaker. A request's renders read the latest commit, or, for `public_profile` when
the lookup has failed, the account it read before the lookup.

### NotificationDelivery

A notice is one (audience, subscriber, event key), hence one `dedup_key` and one row.
`shown` and `keyed` are Chimely's side, modelled from how the code uses it: a request with a
key it recorded less than `Retention` days ago publishes nothing. `Patience` bounds a
handler's life (`job_timeout`). The assumption `MaxAge + Patience <= Retention` is the code's
28 days, three minutes and the 30 days its comment names. The broker is abstracted
to a set from which deliveries may vanish and in which they may stay after being
popped; `IngestionOutbox` has it in detail. The row keeps `JobContract` with the notice as
subject: a notice settled without being posted (`skipped`) is a withdrawal there. Which answer ends an
attempt is `OwnerSettles`: the answer of the handler that holds the row's token, and it says
what the row becomes; a recovery may end the attempt only when the lease has expired.

### TopicDecision

`proposal` is the status and the version of the draft, `run` the row with its limits, its ledger
of calls and its checkpoints, `jobs` the proposal's analysis rows. A worker is named by the lease
token it drew and goes on after losing it until its next transaction finds out. A paid call is
`BeginCall` (the reservation commits), the call, and `Settle` (the `finally` clause, which also
runs for a worker that has lost its lease); `SaveResult` is a third transaction. `NextStage`
is the control of `run_decision`: it reads the checkpoints only, which is how the code resumes
after a crash. Each checkpoint remembers the number of grants when it was saved.
`Abort` is the `except` clause and belongs to the step that raises. `PutOff` is a claim that finds a
setting off: with proposals of the run's origin paused the row waits, with AI disabled it fails.

Abstracted: tokens are counted in units of the smallest prompt; the limit of seconds is
`GiveUp`'s choice to stop before a paid stage, the age of the evidence its choice to stop before the
first draft; prompts, evidence and verdicts are the few
outcomes that the control tells apart; an approval and a rejection by a person are one `Review`.

### ArticleAnalysis

`article` is the version of its evidence, its editorial revision, both decisions and the evidence
the shown analysis came from; `access` says whether the source's approval and the content window
leave it open; `jobs` are the rows with the ledger of their steps. One claimed worker runs the
steps in order. `Reuse` takes a kept output whose context is unchanged, `StartStep` counts an
attempt of the step, `CompleteStep` and `FailStep` end it, `ReadInputs` and `Apply` are the
preparation and the applying transaction, with its limited number of new preparations.
`Reconsider` is the periodic automation, `Policy` the publication policy within it and within
`Apply`. `Edit` is an administrator's update, which hides the analysis whether or not the fields
edited are evidence and asks for none; the automation notices and asks again (`Hidden`). A step's context is the catalogue's version for the steps that hold catalogue entries.

Abstracted: what a step says is ready, negative or insufficient; the steps and counters of a
finished row, which nothing reads again, are dropped; an error is kept only for rows that
are given up; `identifying_title` being skipped and the description's use of the
overview are left to the order of the steps.

### FeedFanout

`listed` are the article's subjects in force, `follows` says whether a user began to follow a
subject before or after the publication, `event` is the row with its cursor, `rows` the
deliveries. `Expand` is one page. `history` is auxiliary: who followed at the publication and
who never stopped. What becomes of a row is `NotificationDelivery`'s subject; here `Claim` only
asks again whether the delivery is current, and `Settle` ends in any way.

### ArticleRefresh

The publication and the draft are views of one shape: the text, the text and catalogue its
analysis was made from, the image, the image whose variants are stored, and the edits contained
in it (a count that makes a lost edit visible). `refresh` is the latest candidate with its base
and version, `jobs` the latest job of four slots, `workers` the handlers with what they read
before their locks. `prepared` holds what `resume_refresh` and `approve_refresh` read before their
commit, so every change can fall between the two. `seen` is the version an administrator
looked at. `NextStage` is the decision of `resume_refresh`.

Abstracted: readiness keeps what the stages tell apart; which retries the maintenance page offers
is over-approximated (only the prerequisites of extraction and analysis are kept); the steps of an
analysis are `ArticleAnalysis`'s subject.
A failed job of the candidate can also be queued again by itself (`RetryJob`), which neither compares
the base nor asks about the earlier stages. A paywall met by the extraction ends the candidate's
work until a person acts (`Paywalled`).

## 3. Runs

| Run | Question | Bounds | Distinct states |
| --- | --- | --- | --- |
| `ingestion_delivery` | who may settle an attempt, is the contract kept, does everything settle, under faults | 1 source, 1 job, 2 attempts, 2 workers, 3 tokens, 1 immediate dispatch, 1 fault | 192 k |
| `ingestion_review` | one active job, and the right feed, under every operator action | 1 source, 2 jobs, 2 feeds, 2 attempts, 2 workers | 595 k |
| `ingestion_pause` | is a pause ever counted as a failure (violated, see 6) | 1 source, 1 job | - |
| `response_cache` | freshness and monotony | 2 requests, 1 identity, 2 generations, 2 tokens, 1 write; requests symmetric | 1.3 M |
| `response_cache_liveness` | requests end, staleness ends | 1 request, 2 writes | 111 k |
| `notification_delivery` | at most once, truthful, whose answer ends an attempt, is the contract kept, settled | 1 notice, 3 attempts, 6 days, age 2, patience 1, retention 3, 2 workers, 1 fault | 405 k |
| `topic_decision` | is the ledger right, is a review final, does every decision end | 2 jobs, 2 calls, 2 token units, overshoot 1, 1 grant, 1 rewrite, 1 fault, 2 workers | 819 k |
| `topic_decision_grant` | does a grant bring fresh evidence (violated, see 6) | 2 jobs, 3 calls, 1 grant | - |
| `article_analysis` | what is shown, is anything asked for twice, whose decision stands, is everything judged | 3 steps, 2 versions of evidence, 1 move, 1 attempt, 2 applications, 1 fault, 2 workers | 1.4 M |
| `article_steps` | the two budgets and the kept outputs | 3 steps, 2 attempts, 1 deferral, 1 move, 2 faults, 2 workers, automation off | 3.3 M |
| `feed_fanout` | nobody skipped, nobody too many, it ends | 3 users, 2 subjects, pages of 2, 2 changes | 240 k |
| `article_refresh` | no edit lost, whole promotions, binding consent, it ends | 1 candidate, 2 retries, 3 events, 2 attempts, 2 applications, 2 texts, 1 image, 1 preparation of the system beside the editor's | 938 k |

Why the bounds are enough. Two workers let a superseded worker coexist with its successor; with a
third token the recovery between them is visible. Two attempts are a first one and a retry that is
the last. Two jobs are needed for a second active row and two feeds for a replaced one; sources
share nothing but the uniqueness of feeds, so one shows the protocol. One fault lets each kind
strike at every moment; a setting found off counts as one in `topic_decision`. Six days let a row expire, be retried by an operator and outlive the
retention. One write and two requests make a stale loader, a newer one and a missed invalidation.

A budget of two calls and two token units makes the second reservation a reduced one, and the grant
reopens the ledger with a lost call in it. In `article_analysis` one attempt suffices since the
budgets are the subject of `article_steps`, which leaves the automation's retries out for a second
fault (a row is still asked for when the article has moved on); two versions of the evidence and a move supersede,
withdraw or reject an analysis at every point of its life. Pages of two among three users make a
full page, a short one and an empty one. In `article_refresh` three events are shared by edits,
withdrawals, source and catalogue changes, failures and expired leases, so any two can strike around
a retry. Three events, two retries and one image let an analysis be overtaken by a catalogue change
after the image was found. The proofs remove these bounds for the safety properties they cover.

Deadlock is checked in the ingestion, cache and notification runs. It is not in the runs of
`TopicDecision`, `ArticleAnalysis`, `FeedFanout` and `ArticleRefresh`: the work on one proposal,
article or announcement really ends, and the bounds on edits and events stop the rest.

Every property has a mutant: an operator beside the definition it replaces, marked `Mutant`
(an off-by-one in the budget, a claim that accepts a running row, a script that forgets
the lock, a cursor that stays where it is, a draft that changes without a new version, ...) or, for
a few, a definition changed in place by another that exists anyway. TLC refutes the property
with it.

### Fairness

- The scheduler's steps and the clocks are weakly fair: the tick runs in an endless loop and
  time passes.
- In `IngestionOutbox` the claim of a job and the end of its handler are strongly fair. Both
  wait only for a row lock or for a
  free worker; PostgreSQL serves lock waiters in turn and RQ's list is first-in first-out. RQ
  raises inside a handler at its `job_timeout`, which ends in the except branch, so a handler
  does end.
- In `TopicDecision` and `ArticleAnalysis` weak fairness is enough: some worker that has something
  to do goes on, and some row that is due, expired, waiting or held by a dead worker is taken up.
  The automation's pass is fair too. A lease running out under a live worker is a fault.
- In `FeedFanout` the tick expands again and again. In `ArticleRefresh` the tick prepares, commits
  and retires, the queue delivers and handlers come back; an editor's approval, once given, need
  not be committed.
- Nothing is assumed of operators, of faults (which are bounded in number), of Chimely, of
  Redis being available or of the cache's hooks.
- In the cache the request's own steps are strongly fair only because identifiers are bounded
  in the model: a step can be briefly disabled for want of a free one.
- `EveryNoticeSettles` is conditional on the integration staying enabled in the end: a disabled
  one is neither recovered nor dispatched, by design. `EvidenceIsJudged` is about full automation,
  which the instance switches on: without it a failed analysis waits for a person.

## 4. Proofs

Seven modules hold theorems about specifications, `Sums` the lemmas about sums that one of them
needs. Each of the seven has an inductive invariant, a lemma per group of actions and a theorem
`Invariance`; the listed theorems follow from it. Between them they state every invariant, every
action property and every refinement that a passing run checks.

**`IngestionOutbox_proofs`** assumes `OutboxAssumption` and `TokenAssumption` only. Its `IInv`
is `TypeOK`, `OneActiveJob`, `LearnedFeedIsCurrent` and, of every row, `RowOK`: a row that exists
has a source, a queued row has an attempt left, a row holds token and lease exactly while it
runs. The attempt left is why `TypeOK` alone is not inductive: a claim of a queued row that has
used its budget would exceed it, and only `FailOrRetry`'s comparison keeps such rows from being
queued. The invariant splits into the two tables and the broker's side, so that each
transaction is handled by one lemma on the tables (`ReplaceJob`, `ReplaceSource`, ...). From
it follow `TypeCorrect`, `Serialised`, `Leased`, `LearnsOwnFeed`, and, action by
action, `OwnerOnly` and `Implements`. The refinement maps a row to its status, attempts and
source; publication, deliveries, leases and the clock are stutters, `Claim` is `Start` (or a
`Settle` that withdraws the job), every settlement is `Settle` and a new row is `Request`.

**`ResponseCache_proofs`** assumes `CacheAssumption`. `NoStaleAnswer` speaks of answers only, so
the invariant says what leads to one. `WritesOK`: only committed writes are announced.
`StoreOK`: a body under the current generation has seen every announced write. `RequestOK`:
everything stored under the generation a request has looked up is fresh enough for that
request, even after the generation was replaced; what a loader may still publish under the
current generation has seen every announced write; and while it holds the lock, it is no older than
the body already stored. `TokensOK`: no two requests hold the same token. The first three give
`AnswersAreFresh`, the lock's conjunct gives `EntriesAdvance`.

**`NotificationDelivery_proofs`** assumes `DeliveryAssumption` and `TokenAssumption`. The
invariant relates the calendar's dates: a handler claimed its row before the row was `MaxAge`
old and lives at most `Patience` (`HandlerOK`); a key was recorded no earlier than its row was
created (`KeyOK`). So no request of a row is sent later than `created + MaxAge + Patience`, when
a key recorded at `created` or later is still kept: `AtMostOnce`. `Truthful` needs that a handler
with an accepted reply belongs to a notice already shown, also part of `HandlerOK`. `TypeCorrect`
needs that a queued row has an attempt left (`RowOK`), as above. `Implements` is the refinement of
`JobContract`. A step rewrites one row or none (`RowStep`) and is, by what it does to that row, a
`Request`, a `Start`, a `Settle` or, when the claim finds the notice stale or out of date, a
withdrawal. `SkippedIsSettled` says that only a settled notice was skipped, so mapping a skipped row
to a withdrawn one hides no attempt under way. An operator's retry of a failed notice is a new
`Request`. `OwnerAlone` is `OwnerSettles`, step by step: the settlement compares the token, and of the
other steps only a recovery takes a row out of `running`.

**`FeedFanout_proofs`** assumes `FanoutAssumption`. That everybody who stayed is in the outbox at
the end follows from what holds at every page: `ServedToCursor`, all who stayed and are not
beyond the cursor have a row. It needs `SteadyInAudience` (who stayed is in the audience as it is
computed now, though subjects come and go) and `QuietBefore` (there is no history, event or row
before the publication). `ExistingFollowersOnly` needs `NoNewEarlyFollower`: after the publication
the set of early followers only shrinks, so a page never holds more than the publication
saw. `NobodySkipped` and `OnlyExistingFollowers` hold for any number of users and any page size.

**`ArticleRefresh_proofs`** assumes `RefreshAssumption`. `EditsSurvive` needs three more
conjuncts. `SameEdits`: draft and base contain the same edits, since stages change neither.
`VersionNamesDraft`: a preparation, a reading or an administrator's look at the candidate's
present version has its present draft, because every change of the draft is a new version.
`KnownCandidates`: nothing refers to a candidate of the future. A promotion then compares the
publication with the base and writes a draft with as many edits as the base: `NothingLost`.
`VersionNamesDraft` also gives `ConsentHolds`: the version compared at the commit is the one the
administrator saw.

`PromotionsAreCurrent` has an invariant of its own on top, `Promotable`, as what a promotion publishes
was decided when it was prepared, before the locks. `PreparedDraft`: a preparation that is not
outdated has the candidate's draft. `PreparedWhole`: a prepared promotion has the variants of its image
and, unless only images were asked for, a judgement of its own text and no paywall, and no job selected for this
version can still change it. `ImagesAlone`: a candidate for images only never selects an extraction or
an analysis, and its two image jobs are not at work on the same draft. Every change of the draft or
of the selected jobs is a new version (`Advance`), so a preparation either meets the state it was
made from or is refused at the commit.

**`TopicDecision_proofs`** assumes `DecisionAssumption` and `TokenAssumption`. Its `IInv` has two
halves. The ledger's: a worker inside a paid call holds an entry of its own that nobody has settled
(`HoldsEntry`); at most one entry is running and at most as many as there were grants are unknown
(`WrittenOff`). `CallsInFlight` alone is not inductive, since it does not say which entry a worker
holds; with these, the workers in a call map one to one into at most `1 + grants` entries, which is
`OneCallInFlight`. An open entry is charged its reservation (`OpenIsReserved`), so a settlement
lowers a charge only of a call that returned: `BudgetNeverRegained`. The rows' half: rows are used
in order and only the last may be active (`LastIsActive`), and while the proposal is pending the
active row is about the draft as it stands (`ActiveIsCurrent`). Hence a queued row is superseded
only when the proposal is no longer pending, and a row ends only together with its decision or
waits or fails: `OpenDecisionHasWork`. `ReviewStands` needs the invariant for the type only.

The accounts compare sums over the ledger and over the rows, so they need to know what changing or
adding one entry does to a sum. `Sums` proves that of `SumFunction`; the order in which it walks
through a set is unknown, and each fact about all finite sets is shown on a smallest counterexample,
which exists because strict inclusion is well-founded. `BudgetIsBounded` then rests on
`OpenWithinBudget`: while a call is open, its reservation still fits the limit. Only the settlement of
that one call can pass the limit, by `Overshoot`, and the next reservation is refused; a call that
was written off keeps its reservation. `UsageIsAttributed` needs that an open entry has reported nothing
(`OpenIsUnreported`) and that rows and entries outside the run count nothing (`UnusedIsFree`,
`DeletedIsEmpty`).

**`ArticleAnalysis_proofs`** assumes `AnalysisAssumption`, `AttemptsAssumption` and
`TokenAssumption`. Its `IInv` is `TypeOK`, `ShownAnalysisIsCurrent`, `Accounts`, `OpenStep` and
`Requests`. `StepBudget` is not inductive, since a step begins without looking at its budget: what
bounds its attempts is that the row's own attempts are bounded and that each claim is spent
on at most one failure of a step. `Accounts` therefore relates the attempts and deferrals of each
step to those of its row, differently for a step that is pending, running, done or untouched; it
gives `StepsAreBounded` and, with the condition under which a row fails for good, `GivenUpIsSpent`.
`OpenStep`: a worker that still owns its row is inside the step the row names as active, or the row
names none, so a worker that returns from a call finds its own step. `Requests`: rows are used in order,
only the last may be active, there are at most as many as versions of the evidence and moves, and
when there are as many, the last row is about the article as it stands and nothing it had to show is
hidden. So whatever asks for a row
finds one unused, which the type invariant rests on, and asks only after something has changed:
`RequestsAreAnswers`. `OutputsAreKept` and `DecisionsAreKept` go through the actions; the second is
about every path to a publication or a rejection, the administrator's, the automation's and
`Apply`'s.

Only model-checked: the liveness properties (`EveryJobSettles`, `SourceKeepsFetching`,
`EveryRequestEnds`, `StalenessEnds`, `EveryNoticeSettles`, `EveryDecisionSettles`, `EvidenceIsJudged`,
`ExpansionEnds`, `RefreshEnds`), as fairness and `ENABLED` are beyond the prover, and the two findings,
which are counterexamples.

## 5. What is not modelled

Source deletion (by an administrator, or of a placeholder whose discovered feed belongs to another
source), cadence edits and the lengths of delays; the creation of sources (`Init` has them pending
and disabled without a feed, and a submission with a feed is `Handoff` after that); the batch limits and lanes of the
dispatcher; malformed values in Redis beyond being treated as a miss or a failure; the contents
of articles; Chimely's internals beyond the key's retention (its processing is one step with the
arrival of the request); different `notifications_enabled` settings in two processes at
once.

Of topic decisions: the limit of seconds, relationship allowances, the older research call, and
imports. Of article analyses: manual classification, the backfill, the feedback on invalid output,
the topic proposals of an analysis, and the order in which articles are taken up. With full
automation off, a failed row on evidence that has not changed waits for an explicit retry, which
`RetryFailed` models, but no property is stated about it. Of refreshes: insufficient text and
dates as blockers, disabled AI, image storage or automatic discovery, payload limits, source tags, retention. Not started: the partner
outbox and the capacity it shares with the AI pipelines. The other
components of section 1 are listed with their reasons in `PROJECT.json`.

## 6. Findings

`ingestion_pause`: `packages/core/README.md` (lines 37-39) says a pause fences a running fetch
"without counting an intentional pause as a feed failure". A fetch that succeeds is indeed
cancelled without a count, and so is a job that is claimed after the pause. But `fail_job`
(`jobs.py:157`) makes a retryable failure, or the recovery of an expired lease, terminal because
the source is paused, and then counts it and backs the source off (`jobs.py:161-164`). The run
shows approve, publish, claim, pause, fail.

`topic_decision_grant`: the comment of `grant_budget` (`topic_decision_budget.py:368`) promises
"Fresh evidence and prompts, without forgiving a single spent token or call." The list of dropped
checkpoints (lines 369-378) lacks `escalated_verification`, which the second pass saves
(`topic_decisions.py:391-400`). After a grant the new draft may meet a malformed first verdict; the workflow then
finds the second verification from before the grant and does not ask again. Where the draft came out
the same, the old verdict on the old evidence decides; otherwise it counts as malformed and the
decision is deferred without the escalation that the grant has paid for. The run shows the first.

## 7. Plan

1. `PartnerOutbox` with the shared AI capacity, its recovery reserve and its pauses.
2. `SourceCadence` with explicit times, and source deletion under a running worker.
3. Abstract specifications of the cache (a register whose reads may lag by what has not been
   announced) and of the fan-out (one audience told at once), with proofs of their implementation.
   `JobContract` does not fit the AI pipelines: a row that waits for capacity gets its attempt back,
   which wants a weaker contract.
4. Images, sitemaps and the remaining durable jobs as further instances of `JobLifecycle`
   implementing `JobContract`.
