-------------------------- MODULE ArticleAnalysis ---------------------------
(***************************************************************************)
(* The analysis of one article: its durable job rows, the specialist steps *)
(* one claimed worker runs in order (analysis_tasks.py,                    *)
(* article_analysis_steps.py), and what moves meanwhile: enrichment that   *)
(* brings new evidence, the topic catalogue, the editor, the source's      *)
(* standing, and the periodic automation that asks for what is missing.    *)
(*                                                                         *)
(* A step's output is kept in the row with a digest of the step's own      *)
(* context, so a later attempt, even of another worker, reuses what is     *)
(* still valid.  A step has a retry budget of its own beside the row's.    *)
(*                                                                         *)
(* Evidence and catalogue are version numbers.  Deliveries are the subject *)
(* of IngestionOutbox: here a due row may be claimed.  Private refreshes   *)
(* of published articles are not part of this module.                      *)
(***************************************************************************)
EXTENDS AnalysisJob, FiniteSetsExt

CONSTANTS
    StepCount,      \* steps in order; 1 is developer_relevance, 2 is page_kind
    CatalogSteps,   \* the steps whose context holds catalogue entries
    ApplyTries,     \* times an application is prepared again (3 in the code)
    Automation,     \* full_automation
    MaxEvidence,    \* bound: versions of the article's evidence
    MaxMoves,       \* bound: moves of the editor, the catalogue, the source
    MaxFaults,      \* bound: deaths, leases lost by live workers, failed dependencies
    MaxDeferrals    \* bound: capacity errors met by one row

ASSUME AnalysisAssumption ==
    /\ StepCount \in Nat /\ StepCount >= 2 /\ CatalogSteps \subseteq 1 .. StepCount
    /\ {ApplyTries, MaxEvidence} \subseteq Nat \ {0}
    /\ {MaxMoves, MaxFaults, MaxDeferrals} \subseteq Nat
    /\ Automation \in BOOLEAN

VARIABLES
    article,    \* Article: evidence, editorial revision, decisions, analysis shown
    access,     \* "open", or why its source or its date closes it to analysis
    catalog,    \* version of the catalogue entries relevant to the article
    jobs,       \* ArticleAnalysisJob rows, oldest first
    worker,     \* the execution each lease token stands for
    moves, faults

vars == <<article, access, catalog, jobs, worker, moves, faults>>

Steps == 1 .. StepCount

\* Every further row answers a change of the evidence or another move.
Jobs == 1 .. (MaxEvidence + MaxMoves)

Results == {"ready", "negative", "insufficient"}

NewStep == [status |-> "none", input |-> 0, attempts |-> 0, deferrals |-> 0, output |-> "none"]

NewJob(evidence, revision) ==
    [status |-> "queued", attempts |-> 0, available |-> "due", dispatched |-> "never",
     lease |-> "none", token |-> NoToken, deferrals |-> 0, evidence |-> evidence,
     revision |-> revision, catalog |-> catalog, outcome |-> "none", result |-> "none",
     error |-> "none", active |-> 0, steps |-> [s \in Steps |-> NewStep]]

NoJob == [NewJob(0, 0) EXCEPT !.status = "unused", !.catalog = 0]

NoOutputs == [s \in Steps |-> "none"]

Idle == [pc |-> "idle", job |-> 0, step |-> 0, outputs |-> NoOutputs, evidence |-> 0,
         catalog |-> 0, tries |-> 0]

\* The first enrichment has asked for the first analysis.
Init ==
    /\ article = [evidence |-> 1, revision |-> 0, review |-> "pending",
                  publication |-> "unpublished", analysed |-> 0]
    /\ access = "open"
    /\ catalog = 0
    /\ jobs = [j \in Jobs |-> IF j = 1 THEN NewJob(1, 0) ELSE NoJob]
    /\ worker = [t \in Tokens |-> Idle]
    /\ moves = 0
    /\ faults = 0

-----------------------------------------------------------------------------
(* Requests.                                                               *)

NextJob(rows) == CHOOSE j \in Jobs : rows[j].status = "unused"
                                     /\ \A k \in Jobs : k < j => rows[k].status # "unused"

Latest == CHOOSE j \in Jobs : jobs[j].status # "unused"
                              /\ \A k \in Jobs : k > j => jobs[k].status = "unused"

Busy(rows) == \E j \in Jobs : Active(rows[j])

\* Automatic requests neither repeat an attempt at the same inputs nor touch
\* what is published, rejected or closed.
Suppressed(rows, a) ==
    \E j \in Jobs : /\ rows[j].status # "unused"
                    /\ rows[j].evidence = a.evidence /\ rows[j].revision = a.revision
                    /\ rows[j].catalog = catalog
                    /\ rows[j].outcome \notin {"superseded", "content_date_deferred"}

Requestable(a) == a.publication = "unpublished" /\ a.review # "rejected" /\ access = "open"

\* request_analysis; an active row absorbs the request.
Requested(rows, a, force) ==
    IF Requestable(a) /\ ~Busy(rows) /\ (force \/ ~Suppressed(rows, a))
    THEN [rows EXCEPT ![NextJob(rows)] = NewJob(a.evidence, a.revision)]
    ELSE rows

\* refresh_superseded_analysis for row j, which may have been superseded.
Replaced(rows, j, a) ==
    IF /\ rows[j].outcome = "superseded" /\ a.review = "pending"
       /\ \/ rows[j].evidence # a.evidence
          \/ rows[j].revision = a.revision /\ rows[j].catalog # catalog
    THEN Requested(rows, a, FALSE)
    ELSE rows

\* finish_job.  The steps and counters of a finished row are history that
\* nothing reads again; the model drops them.
Finished(rows, j, outcome, result) ==
    [rows EXCEPT ![j] = [FinishJob(NewJob(@.evidence, @.revision)) EXCEPT
                            !.catalog = rows[j].catalog, !.outcome = outcome, !.result = result]]

-----------------------------------------------------------------------------
(* What moves around the analysis.                                         *)

\* Mutant: whatever had been decided, new evidence is undecided.
ForgetsRejection(a) ==
    [a EXCEPT !.evidence = @ + 1, !.revision = @ + 1, !.publication = "unpublished",
              !.review = "pending", !.analysed = 0]

\* invalidate_editorial: a rejection outlives new evidence, approval does not.
Invalidated(a) ==
    [a EXCEPT !.evidence = @ + 1, !.revision = @ + 1, !.publication = "unpublished",
              !.review = IF @ = "rejected" THEN @ ELSE "pending", !.analysed = 0]

\* An enrichment is applied and asks for an analysis of what it found.
NewEvidence ==
    /\ article.evidence < MaxEvidence
    /\ access # "unapproved" /\ article.publication = "unpublished"
    /\ article' = Invalidated(article)
    /\ jobs' = Requested(jobs, Invalidated(article), FALSE)
    /\ UNCHANGED <<access, catalog, worker, moves, faults>>

\* update: an administrator edits the article.  The prose shown goes, whether
\* the fields edited are evidence or not, and no analysis is asked for.
Edit ==
    /\ moves < MaxMoves
    /\ moves' = moves + 1
    /\ \E evidence \in {article.evidence, article.evidence + 1} :
          /\ evidence <= MaxEvidence
          /\ article' = [Invalidated(article) EXCEPT !.evidence = evidence]
    /\ UNCHANGED <<access, catalog, jobs, worker, faults>>

\* decide_article by a person.
Decide ==
    /\ moves < MaxMoves
    /\ moves' = moves + 1
    /\ \/ article' = [article EXCEPT !.review = "rejected", !.publication = "unpublished",
                                     !.revision = @ + 1]
       \/ /\ article.analysed # 0
          /\ article' = [article EXCEPT !.review = "approved", !.revision = @ + 1]
       \/ /\ article.review = "approved" /\ article.publication = "unpublished"
          /\ article.analysed = article.evidence /\ access # "unapproved"
          /\ article' = [article EXCEPT !.publication = "published", !.revision = @ + 1]
       \/ /\ article.publication = "published"
          /\ article' = [article EXCEPT !.publication = "unpublished", !.revision = @ + 1]
    /\ UNCHANGED <<access, catalog, jobs, worker, faults>>

\* A topic or tag relevant to the article is edited.
CatalogChanges ==
    /\ moves < MaxMoves
    /\ moves' = moves + 1
    /\ catalog' = catalog + 1
    /\ UNCHANGED <<article, access, jobs, worker, faults>>

\* The source is withdrawn or approved again; the content window moves on.
AccessChanges ==
    /\ moves < MaxMoves
    /\ moves' = moves + 1
    /\ \/ access = "open" /\ access' \in {"unapproved", "aged"}
       \/ access = "unapproved" /\ access' = "open"
    /\ UNCHANGED <<article, catalog, jobs, worker, faults>>

\* preserve_analysis_steps: what the failed row proved for the same evidence.
Preserved(from, job) ==
    IF from.evidence = job.evidence
    THEN [job EXCEPT !.steps = [s \in Steps |-> IF from.steps[s].status = "succeeded"
                                                THEN from.steps[s] ELSE NewStep]]
    ELSE job

\* retry_failed_job for the latest failed row.
RetryFailed ==
    /\ moves < MaxMoves
    /\ jobs[Latest].status = "failed" /\ Requestable(article)
    /\ moves' = moves + 1
    /\ jobs' = [jobs EXCEPT ![NextJob(jobs)] =
                  Preserved(jobs[Latest], NewJob(article.evidence, article.revision))]
    /\ UNCHANGED <<article, access, catalog, worker, faults>>

\* Mutant: a terminal row counts as current whatever it was about.
AnyAnalysis(job) == TRUE

CurrentAnalysis(job) ==
    /\ job.evidence = article.evidence /\ job.revision = article.revision
    /\ job.catalog = catalog
    /\ job.outcome \notin {"superseded", "content_date_deferred"}

\* What the analysis had to show is no longer shown.
Hidden(job) == job.outcome = "applied" /\ article.analysed # job.evidence

\* Mutant: insufficient evidence is looked into again and again.
StaleUnlessApplied(job) ==
    job.status = "succeeded" /\ (\/ job.evidence # article.evidence
                                 \/ job.outcome # "applied"
                                 \/ job.catalog # catalog
                                 \/ Hidden(job))

\* reconcile_processing: a finished analysis that no longer covers the article.
Stale(job) ==
    job.status = "succeeded" /\ (\/ job.evidence # article.evidence
                                 \/ job.outcome \notin {"applied", "insufficient_evidence"}
                                 \/ job.catalog # catalog
                                 \/ Hidden(job))

Published(a) == [a EXCEPT !.review = "approved", !.publication = "published",
                          !.revision = @ + 2]

Rejected(a) == [a EXCEPT !.review = "rejected", !.revision = @ + 1]

\* apply_publication_policy on a pending article whose current row is job:
\* what may become of it.
Policy(a, job) ==
    {a}
    \cup (IF job.outcome = "applied" /\ a.analysed = a.evidence /\ access = "open"
          THEN {Published(a)} ELSE {})
    \cup (IF Automation /\ a.review = "pending" /\ job.result = "negative"
          THEN {Rejected(a)} ELSE {})

\* schedule_article_automation takes up an article it may work on.
Reconsider ==
    LET job == jobs[Latest]
    IN  /\ article.review \in {"pending", "approved"} /\ article.publication = "unpublished"
        /\ access = "open" /\ Terminal(job)
        /\ \/ /\ Stale(job)
              /\ jobs' = Requested(jobs, article, TRUE)
              /\ UNCHANGED article
           \/ /\ ~Stale(job) /\ Automation /\ article.review = "pending"
              /\ ~CurrentAnalysis(job)
              /\ jobs' = Requested(jobs, article, TRUE)
              /\ UNCHANGED article
           \/ /\ ~Stale(job) /\ Automation /\ article.review = "pending"
              /\ CurrentAnalysis(job) /\ job.status = "succeeded"
              /\ article' \in Policy(article, job)
              /\ UNCHANGED jobs
        /\ UNCHANGED <<access, catalog, worker, moves, faults>>

-----------------------------------------------------------------------------
(* One execution.                                                          *)

Owns(t) == OwnedBy(jobs[worker[t].job], t)

Leave(t) == worker' = [worker EXCEPT ![t] = Idle]

Lost(t) == ~Owns(t) /\ Leave(t) /\ UNCHANGED <<article, jobs>>

Fresh(t) == worker[t].pc = "idle" /\ \A j \in Jobs : jobs[j].token # t

\* uuid4 draws a token nobody holds; which one does not matter.
FreshToken == CHOOSE t \in Tokens : Fresh(t)

SameInputs(job) ==
    /\ article.evidence = job.evidence /\ article.revision = job.revision
    /\ article.review # "rejected"

\* Why a row ends without an analysis, "none" when it goes on.  The claim,
\* the start of a step and the application ask in different orders.
ClaimOutcome(job) ==
    CASE access = "unapproved" -> "unapproved"
      [] access # "unapproved" /\ article.publication = "published" -> "published_preserved"
      [] access = "aged" /\ article.publication # "published" -> "content_date_deferred"
      [] access = "open" /\ article.publication # "published" ->
            IF SameInputs(job) THEN "none" ELSE "superseded"

StepOutcome(job) ==
    CASE access = "unapproved" -> "unapproved"
      [] access # "unapproved" /\ ~SameInputs(job) -> "superseded"
      [] access # "unapproved" /\ SameInputs(job) -> ClaimOutcome(job)

ApplyOutcome ==
    CASE access = "unapproved" -> "unapproved"
      [] access = "aged" -> "content_date_deferred"
      [] access = "open" ->
            IF article.publication = "published" THEN "published_preserved" ELSE "none"

Ended(j, outcome) == Replaced(Finished(jobs, j, outcome, "none"), j, article)

\* _claim_ordinary_analysis.
Claim(j) ==
    /\ jobs[j].status = "queued" /\ jobs[j].available = "due"
    /\ ClaimOutcome(jobs[j]) = "none" /\ \E t \in Tokens : Fresh(t)
    /\ jobs' = [jobs EXCEPT ![j] = StartJob(@, FreshToken)]
    /\ worker' = [worker EXCEPT ![FreshToken] = [Idle EXCEPT !.pc = "claimed", !.job = j]]
    /\ UNCHANGED <<article, access, catalog, moves, faults>>

EndQueued(j) ==
    /\ jobs[j].status = "queued" /\ jobs[j].available = "due"
    /\ ClaimOutcome(jobs[j]) # "none"
    /\ jobs' = Ended(j, ClaimOutcome(jobs[j]))
    /\ UNCHANGED <<article, access, catalog, worker, moves, faults>>

\* prepare: the row is bound to today's catalogue.
Prepare(t) ==
    /\ worker[t].pc = "claimed"
    /\ \/ Lost(t)
       \/ /\ Owns(t)
          /\ jobs' = [jobs EXCEPT ![worker[t].job].catalog = catalog]
          /\ worker' = [worker EXCEPT ![t].pc = "infer", ![t].catalog = catalog]
          /\ UNCHANGED article
    /\ UNCHANGED <<access, catalog, moves, faults>>

Digest(s, version) == IF s \in CatalogSteps THEN version ELSE 0

\* next_article_step; 0 when no step is left to run.  Both gates run unless
\* relevance is refuted, the rest while every step before them is ready.
NextStep(outputs) ==
    LET missing == {s \in Steps : outputs[s] = "none"}
        reached(s) == \A earlier \in 1 .. s - 1 :
                         \/ outputs[earlier] = "ready"
                         \/ s = 2 /\ outputs[1] = "insufficient"
    IN  IF missing # {} /\ reached(Min(missing)) THEN Min(missing) ELSE 0

Reusable(step, input) == step.status = "succeeded" /\ step.input = input

\* A kept output of the same context takes the place of a call.
Reuse(t) ==
    LET w == worker[t]
        s == NextStep(w.outputs)
        step == jobs[w.job].steps[s]
    IN  /\ w.pc = "infer" /\ s # 0 /\ Owns(t) /\ Reusable(step, Digest(s, w.catalog))
        /\ worker' = [worker EXCEPT ![t].outputs[s] = step.output]
        /\ UNCHANGED <<article, access, catalog, jobs, moves, faults>>

\* record_step.
RecordedStep(step, input) ==
    LET prior == IF step.input = input THEN step ELSE NewStep
    IN  [prior EXCEPT !.status = "running", !.input = input, !.output = "none",
                      !.attempts = @ + 1]

\* start_step.  Only its owner writes the row, so reading the kept output in
\* a transaction of its own just before changes nothing.
StartStep(t) ==
    LET w == worker[t]
        s == NextStep(w.outputs)
        input == Digest(s, w.catalog)
    IN  /\ w.pc = "infer" /\ s # 0
        /\ \/ Lost(t)
           \/ /\ Owns(t) /\ ~Reusable(jobs[w.job].steps[s], input)
              /\ StepOutcome(jobs[w.job]) # "none"
              /\ jobs' = Ended(w.job, StepOutcome(jobs[w.job]))
              /\ Leave(t)
              /\ UNCHANGED article
           \/ /\ Owns(t) /\ ~Reusable(jobs[w.job].steps[s], input)
              /\ StepOutcome(jobs[w.job]) = "none"
              /\ jobs' = [jobs EXCEPT ![w.job].steps[s] = RecordedStep(@, input),
                                      ![w.job].active = s, ![w.job].lease = "live"]
              /\ worker' = [worker EXCEPT ![t].pc = "calling", ![t].step = s]
              /\ UNCHANGED article
        /\ UNCHANGED <<access, catalog, moves, faults>>

StepResults(s) == IF s <= 2 THEN Results ELSE Results \ {"negative"}

\* The call returned something valid: complete_step.
CompleteStep(t) ==
    LET w == worker[t]
    IN  /\ w.pc = "calling"
        /\ \/ Lost(t)
           \/ /\ Owns(t)
              /\ \E output \in StepResults(w.step) :
                    /\ jobs' = [jobs EXCEPT ![w.job].steps[w.step].status = "succeeded",
                                            ![w.job].steps[w.step].output = output,
                                            ![w.job].active = 0]
                    /\ worker' = [worker EXCEPT ![t].pc = "infer", ![t].step = 0,
                                                ![t].outputs[w.step] = output]
              /\ UNCHANGED article
        /\ UNCHANGED <<access, catalog, moves, faults>>

\* Mutant: the attempt that just failed is not counted.
EarlierAttempts(step) ==
    IF step.attempts > step.deferrals + 2 THEN step.attempts - step.deferrals - 1 ELSE 1

EffectiveAttempts(step) ==
    IF step.attempts > step.deferrals + 1 THEN step.attempts - step.deferrals ELSE 1

\* The error is kept for rows given up; active_step outlives the attempt only
\* for display.
Failed(job, retryable, attempts) ==
    LET failed == FailOrRetry(job, retryable, attempts, MaxAttempts)
    IN  [failed EXCEPT !.active = 0,
                       !.error = IF failed.status = "queued" THEN "none"
                                 ELSE IF retryable THEN "transient" ELSE "terminal"]

\* The row after an ordinary failure of step s, against the step's budget.
StepFailed(job, s, retryable) ==
    LET failed == Failed(job, retryable, EffectiveAttempts(job.steps[s]))
    IN  [failed EXCEPT !.steps[s].status = IF failed.status = "queued" THEN "pending" ELSE "failed"]

\* Mutant: the pause is counted for the row but not for the step.
RowDeferred(job, s) ==
    [FailAnalysis(job, TRUE) EXCEPT !.steps[s].status = "pending", !.active = 0]

Paused(step) == [step EXCEPT !.status = "pending", !.deferrals = @ + 1]

StepDeferred(job, s) ==
    [FailAnalysis(job, TRUE) EXCEPT !.steps[s] = Paused(@), !.active = 0]

\* fail_step: the call failed, or what it returned is invalid; not retryable
\* when the error is terminal or the same invalid output came twice.
FailStep(t) ==
    LET w == worker[t]
        job == jobs[w.job]
    IN  /\ w.pc = "calling" /\ Owns(t)
        /\ \/ /\ job.deferrals < MaxDeferrals
              /\ jobs' = [jobs EXCEPT ![w.job] = StepDeferred(@, w.step)]
           \/ \E retryable \in BOOLEAN :
                 jobs' = [jobs EXCEPT ![w.job] = StepFailed(@, w.step, retryable)]
        /\ Leave(t)
        /\ UNCHANGED <<article, access, catalog, moves, faults>>

RowFailed(job, retryable) == Failed(job, retryable, NormalAttempts(job))

\* An error outside every step: a dependency fails and is a fault.  A step
\* whose context is too large to prepare, or what the validated steps fail at
\* together, is final.
FailOutside(t) ==
    LET w == worker[t]
    IN  /\ w.pc \in {"claimed", "infer", "applying"} /\ Owns(t)
        /\ \/ /\ faults < MaxFaults
              /\ faults' = faults + 1
              /\ jobs' = [jobs EXCEPT ![w.job] = RowFailed(@, TRUE)]
           \/ /\ w.pc = "infer"
              /\ jobs' = [jobs EXCEPT ![w.job] = RowFailed(@, FALSE)]
              /\ UNCHANGED faults
        /\ Leave(t)
        /\ UNCHANGED <<article, access, catalog, moves>>

\* _prepare_application reads the inputs before the applying transaction.
ReadInputs(t) ==
    /\ worker[t].pc = "infer" /\ NextStep(worker[t].outputs) = 0
    /\ worker' = [worker EXCEPT ![t].pc = "applying", ![t].catalog = catalog,
                                ![t].evidence = article.evidence]
    /\ UNCHANGED <<article, access, catalog, jobs, moves, faults>>

Complete(outputs) == \A s \in Steps : outputs[s] = "ready"

\* assemble_article_analysis: a refuted gate is an explicit negative.  A step
\* that found no topic to build on is "insufficient" already, so that
\* require_primary_topic turns no complete analysis down.
Result(outputs) ==
    IF Complete(outputs) THEN "ready"
    ELSE IF \E s \in Steps : outputs[s] = "negative" THEN "negative" ELSE "insufficient"

Analysed(job) == [article EXCEPT !.analysed = job.evidence, !.review = "pending",
                                 !.publication = "unpublished"]

\* Mutant: the result is applied to whatever the article has become.
AlwaysApplicable(job) == TRUE

\* apply_analysis's own check of the article.
Applicable(job) == SameInputs(job)

\* The applying transaction: apply, apply_current, apply_analysis and the
\* publication policy.
Apply(t) ==
    LET w == worker[t]
        job == jobs[w.job]
        changed == article.evidence # w.evidence \/ catalog # w.catalog
        rows(outcome) == Finished(jobs, w.job, outcome, Result(w.outputs))
    IN  /\ w.pc = "applying"
        /\ \/ Lost(t)
           \/ /\ Owns(t) /\ ApplyOutcome # "none"
              /\ jobs' = Ended(w.job, ApplyOutcome)
              /\ Leave(t) /\ UNCHANGED article
           \/ /\ Owns(t) /\ ApplyOutcome = "none" /\ changed /\ w.tries + 1 < ApplyTries
              /\ worker' = [worker EXCEPT ![t].pc = "infer", ![t].tries = @ + 1,
                                          ![t].evidence = 0]
              /\ UNCHANGED <<article, jobs>>
           \/ /\ Owns(t) /\ ApplyOutcome = "none" /\ changed /\ w.tries + 1 >= ApplyTries
              /\ jobs' = [jobs EXCEPT ![w.job] = RowFailed(@, TRUE)]
              /\ Leave(t) /\ UNCHANGED article
           \/ /\ Owns(t) /\ ApplyOutcome = "none" /\ ~changed
              /\ job.catalog # catalog \/ ~Applicable(job)
              /\ jobs' = Ended(w.job, "superseded")
              /\ Leave(t) /\ UNCHANGED article
           \/ /\ Owns(t) /\ ApplyOutcome = "none" /\ ~changed
              /\ job.catalog = catalog /\ Applicable(job)
              /\ \/ /\ Complete(w.outputs)
                    /\ jobs' = rows("applied")
                    /\ article' \in Policy(Analysed(job), jobs'[w.job])
                 \/ /\ ~Complete(w.outputs)
                    /\ jobs' = rows("insufficient_evidence")
                    /\ article' \in Policy(article, jobs'[w.job])
              /\ Leave(t)
        /\ UNCHANGED <<access, catalog, moves, faults>>

-----------------------------------------------------------------------------
(* Faults, time and recovery.                                              *)

Die(t) ==
    /\ worker[t].pc # "idle" /\ faults < MaxFaults
    /\ faults' = faults + 1
    /\ Leave(t)
    /\ UNCHANGED <<article, access, catalog, jobs, moves>>

Abandoned(j) == worker[jobs[j].token].pc = "idle"

\* A lease runs out under a live worker only by a fault, such as a long stall.
ExpireLease(j) ==
    /\ jobs[j].status = "running" /\ jobs[j].lease = "live"
    /\ Abandoned(j) \/ faults < MaxFaults
    /\ faults' = IF Abandoned(j) THEN faults ELSE faults + 1
    /\ jobs' = [jobs EXCEPT ![j].lease = "expired"]
    /\ UNCHANGED <<article, access, catalog, worker, moves>>

\* recover_jobs and recover_article_step: an interrupted step is charged to
\* its own budget, an interruption between steps to the row's.
Recover(j) ==
    /\ jobs[j].status = "running" /\ jobs[j].lease = "expired"
    /\ jobs' = [jobs EXCEPT ![j] = IF @.active # 0 THEN StepFailed(@, @.active, TRUE)
                                   ELSE RowFailed(@, TRUE)]
    /\ UNCHANGED <<article, access, catalog, worker, moves, faults>>

BecomeDue(j) ==
    /\ jobs[j].status = "queued" /\ jobs[j].available = "later"
    /\ jobs' = [jobs EXCEPT ![j].available = "due"]
    /\ UNCHANGED <<article, access, catalog, worker, moves, faults>>

Execute(t) ==
    \/ Prepare(t) \/ Reuse(t) \/ StartStep(t) \/ CompleteStep(t) \/ FailStep(t)
    \/ FailOutside(t) \/ ReadInputs(t) \/ Apply(t)

Next ==
    \/ NewEvidence \/ Edit \/ Decide \/ CatalogChanges \/ AccessChanges \/ RetryFailed \/ Reconsider
    \/ \E j \in Jobs : Claim(j) \/ EndQueued(j) \/ ExpireLease(j) \/ Recover(j) \/ BecomeDue(j)
    \/ \E t \in Tokens : Execute(t) \/ Die(t)

Spec == Init /\ [][Next]_vars

JobStep(j) ==
    \/ Claim(j) \/ EndQueued(j) \/ Recover(j) \/ BecomeDue(j)
    \/ ExpireLease(j) /\ Abandoned(j)

\* Calls have timeouts, the worker loop claims what is due, the tick recovers
\* what expired, an unrenewed lease runs out, and the automation comes round.
Fairness ==
    /\ WF_vars(\E t \in Tokens : Execute(t))
    /\ WF_vars(\E j \in Jobs : JobStep(j))
    /\ WF_vars(Reconsider)

FairSpec == Spec /\ Fairness

-----------------------------------------------------------------------------
(* Properties.                                                             *)

Articles == [evidence : Nat, revision : Nat, analysed : Nat,
             review : {"pending", "approved", "rejected"},
             publication : {"unpublished", "published"}]

Entries == [status : {"none", "running", "succeeded", "pending", "failed"}, input : Nat,
            attempts : Nat, deferrals : Nat, output : Results \cup {"none"}]

Outcomes == {"none", "applied", "insufficient_evidence", "superseded", "unapproved",
             "published_preserved", "content_date_deferred"}

Rows == [status : Statuses, attempts : Nat, available : Availability, dispatched : Dispatches,
         lease : Leases, token : Tokens \cup {NoToken}, deferrals : Nat, evidence : Nat,
         revision : Nat, catalog : Nat, active : {0} \cup Steps, result : Results \cup {"none"},
         outcome : Outcomes, error : {"none", "transient", "terminal"},
         steps : [Steps -> Entries]]

Executions == [pc : {"idle", "claimed", "infer", "calling", "applying"}, job : {0} \cup Jobs,
               step : {0} \cup Steps, evidence : Nat, catalog : Nat, tries : Nat,
               outputs : [Steps -> Results \cup {"none"}]]

TypeOK ==
    /\ article \in Articles
    /\ access \in {"open", "unapproved", "aged"}
    /\ catalog \in Nat /\ moves \in Nat /\ faults \in Nat
    /\ jobs \in [Jobs -> Rows]
    /\ worker \in [Tokens -> Executions]

\* A specialist is never tried more often than its budget allows, pauses of
\* the provider aside, whichever workers made the attempts (record_step,
\* fail_step, recover_article_step).
StepBudget ==
    \A j \in Jobs, s \in Steps :
        jobs[j].steps[s].attempts <= MaxAttempts + jobs[j].steps[s].deferrals

\* The ledger of a step and that of its row agree: no analysis is given up as
\* retried out before it really had its attempts, however often the provider
\* ran out of capacity and whichever step failed (fail_step, fail_analysis).
GivenUpOnlyWhenSpent ==
    \A j \in Jobs : (jobs[j].status = "failed" /\ jobs[j].error = "transient")
                        => jobs[j].attempts >= MaxAttempts + jobs[j].deferrals

\* The prose and classifications an article shows were drawn from its present
\* evidence, whatever arrived while an analysis ran (apply_analysis,
\* invalidate_editorial).
ShownAnalysisIsCurrent == article.analysed \in {0, article.evidence}

\* An analysis is only asked for in answer to something: however enrichments,
\* supersessions and passes of the automation race, no row repeats what was
\* found out or is being found out (request_analysis, reconcile_processing).
RequestsAnswerChanges ==
    \A j \in Jobs : jobs[j].status # "unused" => j <= article.evidence + moves

\* Only a person ends a rejection or a publication, and no analysis that was
\* under way writes to such an article (start_step, apply, apply_analysis).
DecisionsStand ==
    [][((article.review = "rejected" \/ article.publication = "published") /\ moves' = moves)
          => /\ article'.review = article.review
             /\ article'.publication = article.publication
             /\ article'.analysed \in {article.analysed, 0}]_vars

\* A specialist whose valid output is kept is paid for again only when its own
\* context changed: attempts, crashes and late workers lose none (infer).
OutputsSurvive ==
    [][\A j \in Jobs, s \in Steps :
          (/\ jobs[j].steps[s].status = "succeeded" /\ jobs'[j].steps[s].status # "succeeded"
           /\ ~Terminal(jobs'[j]))
             => jobs'[j].steps[s].input # jobs[j].steps[s].input]_vars

\* The row's verdict on the present evidence, or a decision in its place.
Judged ==
    \/ article.review # "pending" \/ article.publication = "published" \/ access # "open"
    \/ \E j \in Jobs : /\ jobs[j].evidence = article.evidence
                       /\ \/ jobs[j].outcome \in {"applied", "insufficient_evidence"}
                          \/ jobs[j].status = "failed"

\* Under full automation no evidence is stranded: whatever was coalesced into
\* an older run, superseded, withdrawn or failed, the present evidence of a
\* pending article comes to be judged (refresh_superseded_analysis,
\* reconcile_processing, schedule_article_automation).
EvidenceIsJudged == []<>Judged

=============================================================================
