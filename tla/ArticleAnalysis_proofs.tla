----------------------- MODULE ArticleAnalysis_proofs -----------------------
(***************************************************************************)
(* Theorems about ArticleAnalysis, for any number of steps, versions of    *)
(* the evidence, moves, workers, attempts and applications.                *)
(*                                                                         *)
(* The invariant has three parts.  A row's account relates the attempts    *)
(* and deferrals of its steps to its own.  A worker that still owns its    *)
(* row knows which step is open.  And the requests: rows are used in       *)
(* order, only the last is active, and when as many rows are in use as     *)
(* there were changes, the last one is about the article as it stands, so  *)
(* that nothing asks for another.                                          *)
(***************************************************************************)
EXTENDS ArticleAnalysis, FiniteSetTheorems, WellFoundedInduction, TLAPS

-----------------------------------------------------------------------------
(* The account of one row.                                                 *)

\* Attempts that count, of a step and of its row, without naming a difference.
Spent(step, row) == step.attempts + row.deferrals

Allowed(step, row) == row.attempts + step.deferrals

StepOK(row, s) ==
    LET step == row.steps[s]
    IN  /\ step.attempts <= MaxAttempts + step.deferrals
        /\ step.status = "running" <=> row.active = s
        /\ row.status = "unused" => step.status = "none"
        /\ Active(row) /\ step.status = "pending" => step.attempts < MaxAttempts + step.deferrals
        /\ Active(row) => step.status # "failed"
        /\ step.status = "none" => step.attempts = 0 /\ step.deferrals = 0
        /\ Active(row) /\ step.status # "succeeded" => Spent(step, row) <= Allowed(step, row)
        /\ row.status = "running" /\ step.status \notin {"succeeded", "running"}
              => Spent(step, row) < Allowed(step, row)

RowOK(row) ==
    /\ row.status = "queued" => row.deferrals <= row.attempts
    /\ row.status = "running" => row.deferrals < row.attempts
    /\ row.active # 0 => row.status = "running"
    /\ row.status = "succeeded" => row.outcome # "none"
    /\ (row.status = "failed" /\ row.error = "transient")
          => row.attempts >= MaxAttempts + row.deferrals
    /\ \A s \in Steps : StepOK(row, s)

Accounts == \A j \in Jobs : RowOK(jobs[j])

\* A worker that owns its row is inside its open step, or the row has none.
InOpenStep(t) ==
    worker[t].pc # "idle" =>
        /\ worker[t].job \in Jobs
        /\ worker[t].pc = "calling" => worker[t].step \in Steps
        /\ Owns(t) => jobs[worker[t].job].active
                         = IF worker[t].pc = "calling" THEN worker[t].step ELSE 0

OpenStep == \A t \in Tokens : InOpenStep(t)

-----------------------------------------------------------------------------
(* The requests.                                                           *)

Bounds == article.evidence \in 1 .. MaxEvidence /\ moves \in 0 .. MaxMoves

\* Rows are used in order, and only the last of them may be active.
Ends(rows, last) ==
    \A k \in Jobs : /\ rows[k].status # "unused" <=> k <= last
                    /\ k < last => ~Active(rows[k])

\* Nothing that would ask for another row has happened since this one.
InStep(job) ==
    /\ job.evidence = article.evidence /\ job.catalog = catalog /\ access = "open"
    /\ job.outcome \in {"none", "applied", "insufficient_evidence"} /\ ~Hidden(job)
    /\ Active(job) \/ article.review = "pending" => job.revision = article.revision
    /\ Active(job) => article.review # "rejected" /\ article.publication = "unpublished"

\* The rows that end with last answer what has happened.
Answered(last) ==
    /\ Ends(jobs, last) /\ last <= article.evidence + moves
    /\ last = article.evidence + moves => InStep(jobs[last])

Requests == Bounds /\ \E last \in Jobs : Answered(last)

IInv == TypeOK /\ ShownAnalysisIsCurrent /\ Accounts /\ OpenStep /\ Requests

-----------------------------------------------------------------------------
(* What may happen to a row.                                               *)

\* No valid output is given up for another call of the same context.
Survives(row, next) ==
    \A s \in Steps :
        (row.steps[s].status = "succeeded" /\ next.steps[s].status # "succeeded" /\ ~Terminal(next))
            => next.steps[s].input # row.steps[s].input

Sound(row, next) == next \in Rows /\ RowOK(next) /\ Survives(row, next)

\* What the row is about, and what became of it.
SameRequest(row, next) ==
    /\ next.evidence = row.evidence /\ next.revision = row.revision
    /\ next.catalog = row.catalog /\ next.outcome = row.outcome

\* A row after it ended, after a step began, after a step was completed.
Closed(row, outcome, result) ==
    [FinishJob(NewJob(row.evidence, row.revision)) EXCEPT
        !.catalog = row.catalog, !.outcome = outcome, !.result = result]

Begun(row, s, input) ==
    [row EXCEPT !.steps[s] = RecordedStep(@, input), !.active = s, !.lease = "live"]

Completed(row, s, output) ==
    [row EXCEPT !.steps[s].status = "succeeded", !.steps[s].output = output, !.active = 0]

\* Rows are typed and their counters are numbers.
LEMMA RowTypes ==
  ASSUME NEW row \in Rows
  PROVE  /\ row.attempts \in Nat /\ row.deferrals \in Nat /\ row.active \in {0} \cup Steps
         /\ row.evidence \in Nat /\ row.revision \in Nat /\ row.catalog \in Nat
         /\ row.steps \in [Steps -> Entries]
         /\ \A s \in Steps : row.steps[s] \in Entries
BY DEF Rows

LEMMA EntryTypes ==
  ASSUME NEW step \in Entries
  PROVE  step.attempts \in Nat /\ step.deferrals \in Nat /\ step.input \in Nat
BY DEF Entries

LEMMA StepsAreNumbers == Steps \subseteq Nat \ {0}
BY AnalysisAssumption DEF Steps

LEMMA JobsAreNumbers == Jobs \subseteq Nat \ {0} /\ 1 \in Jobs
BY AnalysisAssumption DEF Jobs

LEMMA EmptyStep ==
  NewStep \in Entries /\ NewStep.status = "none" /\ NewStep.attempts = 0 /\ NewStep.deferrals = 0
BY DEF NewStep, Entries

\* A lease, a due time or a catalogue version: none of them enters the account.
LEMMA RowTouched ==
  ASSUME NEW row \in Rows, RowOK(row), NEW next \in Rows,
         next.status = row.status, next.attempts = row.attempts,
         next.deferrals = row.deferrals, next.active = row.active,
         next.outcome = row.outcome, next.error = row.error, next.steps = row.steps
  PROVE  Sound(row, next)
<1>1. \A s \in Steps : StepOK(next, s)
  BY DEF RowOK, StepOK, Active, Spent, Allowed
<1>2. RowOK(next)
  BY <1>1 DEF RowOK
<1>3. QED  BY <1>2 DEF Sound, Survives

\* A new row, and the row a later one replaces, have nothing on their account.
LEMMA BlankRow ==
  ASSUME NEW next \in Rows, next.status \in {"queued", "succeeded", "unused"},
         next.attempts = 0, next.deferrals = 0, next.active = 0,
         next.status = "succeeded" => next.outcome # "none",
         \A s \in Steps : next.steps[s] = NewStep
  PROVE  RowOK(next)
<1>1. ASSUME NEW s \in Steps
      PROVE  StepOK(next, s)
  BY <1>1, EmptyStep, StepsAreNumbers, AttemptsAssumption DEF StepOK, Active, Spent, Allowed
<1>2. QED  BY <1>1 DEF RowOK

LEMMA QueuedRow ==
  ASSUME catalog \in Nat, NEW evidence \in Nat, NEW revision \in Nat,
         NEW row, row = NewJob(evidence, revision)
  PROVE  /\ row \in Rows /\ RowOK(row) /\ row.status = "queued" /\ row.outcome = "none"
         /\ row.evidence = evidence /\ row.revision = revision /\ row.catalog = catalog
         /\ row.attempts = 0 /\ row.deferrals = 0 /\ row.active = 0 /\ row.token = NoToken
         /\ \A s \in Steps : row.steps[s] = NewStep
<1>1. [s \in Steps |-> NewStep] \in [Steps -> Entries]
  BY EmptyStep
<1>2. /\ row.status = "queued" /\ row.outcome = "none" /\ row.token = NoToken
      /\ row.evidence = evidence /\ row.revision = revision /\ row.catalog = catalog
      /\ row.attempts = 0 /\ row.deferrals = 0 /\ row.active = 0
      /\ \A s \in Steps : row.steps[s] = NewStep
  BY DEF NewJob
<1>3. row \in Rows
  BY <1>1 DEF NewJob, Rows, Statuses, Availability, Dispatches, Leases, Outcomes
<1>4. QED  BY <1>2, <1>3, BlankRow

\* What a finished row keeps: its request and how it ended.
LEMMA FinishedRow ==
  ASSUME catalog \in Nat, NEW row \in Rows, NEW outcome \in Outcomes, outcome # "none",
         NEW result \in Results \cup {"none"}, NEW next,
         next = Closed(row, outcome, result)
  PROVE  /\ Sound(row, next) /\ next.status = "succeeded" /\ next.outcome = outcome
         /\ next.evidence = row.evidence /\ next.revision = row.revision
         /\ next.catalog = row.catalog /\ next.result = result
<1> DEFINE new == NewJob(row.evidence, row.revision)
           closed == FinishJob(new)
           kept == [closed EXCEPT !.catalog = row.catalog]
<1>1. row.evidence \in Nat /\ row.revision \in Nat /\ row.catalog \in Nat
  BY RowTypes
<1>2. /\ new \in Rows /\ new.evidence = row.evidence /\ new.revision = row.revision
      /\ new.attempts = 0 /\ new.deferrals = 0 /\ new.active = 0
      /\ \A s \in Steps : new.steps[s] = NewStep
  BY <1>1, QueuedRow
<1> HIDE DEF new
<1>3. /\ closed \in Rows /\ closed.status = "succeeded" /\ closed.evidence = new.evidence
      /\ closed.revision = new.revision /\ closed.attempts = new.attempts
      /\ closed.deferrals = new.deferrals /\ closed.active = new.active
      /\ closed.steps = new.steps
  BY <1>2 DEF FinishJob, ClearLease, Rows, Statuses, Leases
<1> HIDE DEF closed
<1>4. /\ kept \in Rows /\ kept.status = "succeeded" /\ kept.evidence = new.evidence
      /\ kept.revision = new.revision /\ kept.attempts = new.attempts
      /\ kept.deferrals = new.deferrals /\ kept.active = new.active
      /\ kept.steps = new.steps /\ kept.catalog = row.catalog
  BY <1>1, <1>3 DEF Rows
<1>5. next = [kept EXCEPT !.outcome = outcome, !.result = result]
  BY DEF Closed, new, closed
<1> HIDE DEF kept
<1>6. /\ next \in Rows /\ next.status = "succeeded" /\ next.evidence = new.evidence
      /\ next.revision = new.revision /\ next.attempts = new.attempts
      /\ next.deferrals = new.deferrals /\ next.active = new.active
      /\ next.steps = new.steps /\ next.catalog = row.catalog
      /\ next.outcome = outcome /\ next.result = result
  BY <1>4, <1>5 DEF Rows
<1>7. RowOK(next)
  BY <1>2, <1>6, BlankRow
<1>8. QED  BY <1>2, <1>6, <1>7 DEF Sound, Survives, Terminal

\* start_job: the attempt of the row comes before that of any step.
LEMMA StartedRow ==
  ASSUME NEW row \in Rows, RowOK(row), row.status = "queued", NEW t \in Tokens,
         NEW next, next = StartJob(row, t)
  PROVE  /\ Sound(row, next) /\ SameRequest(row, next) /\ next.status = "running"
         /\ next.token = t /\ next.active = 0
<1>0. row.attempts + 1 \in Nat /\ row.active = 0
  BY RowTypes DEF RowOK
<1> DEFINE begun == [row EXCEPT !.status = "running", !.attempts = row.attempts + 1]
<1>1. /\ begun \in Rows /\ begun.status = "running" /\ begun.attempts = row.attempts + 1
      /\ begun.deferrals = row.deferrals /\ begun.active = row.active
      /\ begun.outcome = row.outcome /\ begun.error = row.error /\ begun.steps = row.steps
      /\ begun.evidence = row.evidence /\ begun.revision = row.revision
      /\ begun.catalog = row.catalog
  BY <1>0 DEF Rows, Statuses
<1>2. next = [begun EXCEPT !.token = t, !.lease = "live"]
  BY DEF StartJob
<1> HIDE DEF begun
<1>3. /\ next \in Rows /\ next.status = "running" /\ next.attempts = row.attempts + 1
      /\ next.deferrals = row.deferrals /\ next.active = 0
      /\ next.outcome = row.outcome /\ next.error = row.error /\ next.steps = row.steps
      /\ next.evidence = row.evidence /\ next.revision = row.revision
      /\ next.catalog = row.catalog /\ next.token = t
  BY <1>0, <1>1, <1>2 DEF Rows, Leases
<1>4. ASSUME NEW s \in Steps
      PROVE  StepOK(next, s)
  <2>1. StepOK(row, s) /\ row.steps[s] \in Entries
    BY <1>4, RowTypes DEF RowOK
  <2>2. row.attempts \in Nat /\ row.deferrals \in Nat /\ row.steps[s].attempts \in Nat
        /\ row.steps[s].deferrals \in Nat
    BY <2>1, RowTypes, EntryTypes
  <2>3. row.steps[s].status # "running"
    BY <1>0, <2>1, StepsAreNumbers DEF StepOK
  <2>4. QED  BY <1>0, <1>3, <2>1, <2>2, <2>3 DEF StepOK, Active, Spent, Allowed
<1>5. RowOK(next)
  BY <1>3, <1>4, RowTypes DEF RowOK
<1>6. QED  BY <1>3, <1>5 DEF Sound, Survives, SameRequest

\* record_step: a reused entry has a try left, a new one is the first.
LEMMA RecordedEntry ==
  ASSUME NEW row \in Rows, RowOK(row), row.status = "running", row.active = 0,
         NEW s \in Steps, NEW input \in Nat, ~Reusable(row.steps[s], input),
         NEW entry, entry = RecordedStep(row.steps[s], input)
  PROVE  /\ entry \in Entries /\ entry.status = "running" /\ entry.input = input
         /\ entry.attempts <= MaxAttempts + entry.deferrals
         /\ entry.attempts + row.deferrals <= row.attempts + entry.deferrals
<1> DEFINE step == row.steps[s]
           prior == IF step.input = input THEN step ELSE NewStep
<1>1. StepOK(row, s) /\ step \in Entries /\ row.deferrals < row.attempts
  BY RowTypes DEF RowOK
<1>2. row.attempts \in Nat /\ row.deferrals \in Nat /\ step.attempts \in Nat /\ step.deferrals \in Nat
  BY <1>1, RowTypes, EntryTypes
<1>3. step.status # "running"
  BY <1>1, StepsAreNumbers DEF StepOK
<1>4. /\ prior \in Entries
      /\ prior.attempts < MaxAttempts + prior.deferrals
      /\ prior.attempts + row.deferrals < row.attempts + prior.deferrals
  <2>1. CASE step.input = input
    <3>1. prior = step /\ step.status # "succeeded"
      BY <2>1 DEF Reusable
    <3>2. step.status \in {"none", "pending"}
      BY <1>1, <1>3, <3>1 DEF StepOK, Active, Entries
    <3>3. step.attempts + row.deferrals < row.attempts + step.deferrals
      BY <1>1, <3>2 DEF StepOK, Spent, Allowed
    <3>4. step.attempts < MaxAttempts + step.deferrals
      BY <1>1, <1>2, <3>2, AttemptsAssumption DEF StepOK, Active
    <3>5. QED  BY <1>1, <3>1, <3>3, <3>4
  <2>2. CASE step.input # input
    BY <1>1, <1>2, <2>2, EmptyStep, AttemptsAssumption
  <2>3. QED  BY <2>1, <2>2
<1>5. prior.attempts \in Nat /\ prior.deferrals \in Nat /\ prior.attempts + 1 \in Nat
  BY <1>4, EntryTypes
<1>6. entry = [prior EXCEPT !.status = "running", !.input = input, !.output = "none",
                            !.attempts = prior.attempts + 1]
  BY DEF RecordedStep
<1> HIDE DEF prior, step
<1>7. /\ entry \in Entries /\ entry.status = "running" /\ entry.input = input
      /\ entry.attempts = prior.attempts + 1 /\ entry.deferrals = prior.deferrals
  BY <1>4, <1>5, <1>6 DEF Entries
<1>8. QED  BY <1>2, <1>4, <1>5, <1>7, AttemptsAssumption

\* start_step: one step of a running row opens, and no other was open.
LEMMA BegunRow ==
  ASSUME NEW row \in Rows, RowOK(row), row.status = "running", row.active = 0,
         NEW s \in Steps, NEW input \in Nat, ~Reusable(row.steps[s], input), NEW next,
         next = Begun(row, s, input)
  PROVE  /\ Sound(row, next) /\ SameRequest(row, next) /\ next.status = "running"
         /\ next.token = row.token /\ next.active = s
<1> DEFINE entry == RecordedStep(row.steps[s], input)
<1>1. /\ entry \in Entries /\ entry.status = "running" /\ entry.input = input
      /\ entry.attempts <= MaxAttempts + entry.deferrals
      /\ entry.attempts + row.deferrals <= row.attempts + entry.deferrals
  BY RecordedEntry
<1>2. next = [row EXCEPT !.steps = [row.steps EXCEPT ![s] = entry], !.active = s, !.lease = "live"]
  BY DEF Begun
<1> HIDE DEF entry
<1> DEFINE steps == [row.steps EXCEPT ![s] = entry]
<1>3. steps \in [Steps -> Entries] /\ steps[s] = entry
      /\ \A other \in Steps : other # s => steps[other] = row.steps[other]
  BY <1>1, RowTypes
<1> HIDE DEF steps
<1>4. next = [row EXCEPT !.steps = steps, !.active = s, !.lease = "live"]
  BY <1>2 DEF steps
<1>5. /\ next \in Rows /\ next.status = "running" /\ next.attempts = row.attempts
      /\ next.deferrals = row.deferrals /\ next.active = s
      /\ next.outcome = row.outcome /\ next.error = row.error /\ next.steps = steps
      /\ next.evidence = row.evidence /\ next.revision = row.revision
      /\ next.catalog = row.catalog /\ next.token = row.token
  BY <1>3, <1>4 DEF Rows, Leases
<1>6. StepOK(next, s)
  BY <1>1, <1>3, <1>5 DEF StepOK, Active, Spent, Allowed
<1>7. ASSUME NEW other \in Steps, other # s
      PROVE  StepOK(next, other)
  <2>1. StepOK(row, other) /\ row.steps[other].status # "running"
    BY StepsAreNumbers DEF RowOK, StepOK
  <2>2. QED  BY <1>3, <1>5, <1>7, <2>1 DEF StepOK, Active, Spent, Allowed
<1>8. RowOK(next)
  BY <1>5, <1>6, <1>7 DEF RowOK
<1>9. Survives(row, next)
  BY <1>1, <1>3, <1>5 DEF Survives, Reusable
<1>10. QED  BY <1>5, <1>8, <1>9 DEF Sound, SameRequest

\* complete_step: the open step closes with an output.
LEMMA CompletedRow ==
  ASSUME NEW row \in Rows, RowOK(row), row.status = "running", NEW s \in Steps, row.active = s,
         NEW output \in Results, NEW next, next = Completed(row, s, output)
  PROVE  /\ Sound(row, next) /\ SameRequest(row, next) /\ next.status = "running"
         /\ next.token = row.token /\ next.active = 0
<1> DEFINE entry == [row.steps[s] EXCEPT !.status = "succeeded", !.output = output]
           steps == [row.steps EXCEPT ![s] = entry]
<1>1. row.steps \in [Steps -> Entries] /\ row.steps[s] \in Entries
  BY RowTypes
<1>2. /\ entry \in Entries /\ entry.status = "succeeded"
      /\ entry.attempts = row.steps[s].attempts /\ entry.deferrals = row.steps[s].deferrals
  BY <1>1 DEF Entries
<1>3. next = [row EXCEPT !.steps = steps, !.active = 0]
  BY <1>1 DEF Completed
<1> HIDE DEF entry
<1>4. steps \in [Steps -> Entries] /\ steps[s] = entry
      /\ \A other \in Steps : other # s => steps[other] = row.steps[other]
  BY <1>1, <1>2
<1> HIDE DEF steps
<1>5. /\ next \in Rows /\ next.status = "running" /\ next.attempts = row.attempts
      /\ next.deferrals = row.deferrals /\ next.active = 0
      /\ next.outcome = row.outcome /\ next.error = row.error /\ next.steps = steps
      /\ next.evidence = row.evidence /\ next.revision = row.revision
      /\ next.catalog = row.catalog /\ next.token = row.token
  BY <1>3, <1>4 DEF Rows
<1>6. StepOK(row, s)
  BY DEF RowOK
<1>7. StepOK(next, s)
  BY <1>2, <1>4, <1>5, <1>6, StepsAreNumbers DEF StepOK, Active
<1>8. ASSUME NEW other \in Steps, other # s
      PROVE  StepOK(next, other)
  <2>1. StepOK(row, other)
    BY DEF RowOK
  <2>2. QED  BY <1>4, <1>5, <1>8, <2>1, StepsAreNumbers DEF StepOK, Active, Spent, Allowed
<1>9. RowOK(next)
  BY <1>5, <1>7, <1>8 DEF RowOK
<1>10. Survives(row, next)
  BY <1>2, <1>4, <1>5 DEF Survives
<1>11. QED  BY <1>5, <1>9, <1>10 DEF Sound, SameRequest

\* fail_or_retry_job and the error it leaves: a row is given up as retried out
\* exactly when the attempts it is shown leave no other.
LEMMA ReleasedRow ==
  ASSUME NEW row \in Rows, NEW retryable \in BOOLEAN, NEW attempts \in Nat,
         NEW next, next = Failed(row, retryable, attempts)
  PROVE  /\ next \in Rows /\ SameRequest(row, next)
         /\ next.status \in {"queued", "failed"} /\ next.active = 0
         /\ next.attempts = row.attempts /\ next.deferrals = row.deferrals
         /\ next.steps = row.steps
         /\ next.status = "failed" /\ next.error = "transient" => attempts >= MaxAttempts
<1> DEFINE cleared == ClearLease(row)
           released == [cleared EXCEPT !.dispatched = "never"]
           more == retryable /\ attempts < MaxAttempts
           failed == FailOrRetry(row, retryable, attempts, MaxAttempts)
<1>1. /\ cleared \in Rows /\ SameRequest(row, cleared)
      /\ cleared.attempts = row.attempts /\ cleared.deferrals = row.deferrals
      /\ cleared.steps = row.steps
  BY DEF ClearLease, Rows, Leases, SameRequest
<1> HIDE DEF cleared
<1>2. /\ released \in Rows /\ SameRequest(row, released)
      /\ released.attempts = row.attempts /\ released.deferrals = row.deferrals
      /\ released.steps = row.steps
  BY <1>1 DEF Rows, Dispatches, SameRequest
<1>3. failed = IF more THEN [released EXCEPT !.status = "queued", !.available = "later"]
                       ELSE [released EXCEPT !.status = "failed"]
  BY DEF FailOrRetry, cleared
<1> HIDE DEF released, failed
<1>4. /\ failed \in Rows /\ SameRequest(row, failed)
      /\ failed.status = IF more THEN "queued" ELSE "failed"
      /\ failed.attempts = row.attempts /\ failed.deferrals = row.deferrals
      /\ failed.steps = row.steps
  <2>1. CASE more
    <3>1. failed = [released EXCEPT !.status = "queued", !.available = "later"]
      BY <1>3, <2>1
    <3> HIDE DEF more
    <3>2. QED  BY <1>2, <2>1, <3>1 DEF Rows, Statuses, Availability, SameRequest
  <2>2. CASE ~more
    <3>1. failed = [released EXCEPT !.status = "failed"]
      BY <1>3, <2>2
    <3> HIDE DEF more
    <3>2. QED  BY <1>2, <2>2, <3>1 DEF Rows, Statuses, SameRequest
  <2>3. QED  BY <2>1, <2>2
<1> DEFINE error == IF failed.status = "queued" THEN "none"
                    ELSE IF retryable THEN "transient" ELSE "terminal"
<1>5. next = [failed EXCEPT !.active = 0, !.error = error]
  BY DEF Failed, failed
<1>6. error \in {"none", "transient", "terminal"}
  OBVIOUS
<1>7. failed.status = "failed" /\ error = "transient" => attempts >= MaxAttempts
  BY <1>4, AttemptsAssumption
<1> HIDE DEF error
<1>8. QED  BY <1>4, <1>5, <1>6, <1>7 DEF Rows, SameRequest

\* fail_step and recover_article_step for an ordinary failure: the attempts
\* that count for the step never exceed those that count for the row, so the
\* row is spent when the step is.
LEMMA FailedStepRow ==
  ASSUME NEW row \in Rows, RowOK(row), row.status = "running",
         NEW s \in Steps, row.active = s, NEW retryable \in BOOLEAN,
         NEW next, next = StepFailed(row, s, retryable)
  PROVE  /\ Sound(row, next) /\ SameRequest(row, next)
         /\ next.status \in {"queued", "failed"} /\ next.active = 0
<1> DEFINE effective == EffectiveAttempts(row.steps[s])
           failed == Failed(row, retryable, effective)
           status == IF failed.status = "queued" THEN "pending" ELSE "failed"
           entry == [row.steps[s] EXCEPT !.status = status]
           steps == [row.steps EXCEPT ![s] = entry]
<1>1. /\ StepOK(row, s) /\ row.steps[s] \in Entries /\ row.steps \in [Steps -> Entries]
      /\ row.deferrals < row.attempts /\ row.steps[s].status = "running"
  BY RowTypes DEF RowOK, StepOK
<1>2. row.attempts \in Nat /\ row.deferrals \in Nat /\ row.steps[s].attempts \in Nat
      /\ row.steps[s].deferrals \in Nat /\ MaxAttempts \in Nat \ {0}
  BY <1>1, RowTypes, EntryTypes, AttemptsAssumption
<1>3. /\ effective \in Nat
      /\ effective < MaxAttempts => row.steps[s].attempts < MaxAttempts + row.steps[s].deferrals
  BY <1>1, <1>2 DEF EffectiveAttempts
<1>4. effective >= MaxAttempts => row.attempts >= MaxAttempts + row.deferrals
  <2>1. row.steps[s].attempts + row.deferrals <= row.attempts + row.steps[s].deferrals
    BY <1>1 DEF StepOK, Active, Spent, Allowed
  <2>2. QED  BY <1>1, <1>2, <2>1 DEF EffectiveAttempts
<1>5. failed = Failed(row, retryable, effective)
      /\ next = [failed EXCEPT !.steps[s].status = status]
  BY DEF StepFailed
<1>6. failed.status = "queued" => effective < MaxAttempts
  BY <1>2, <1>3 DEF Failed, FailOrRetry
<1> HIDE DEF effective, failed
<1>7. /\ failed \in Rows /\ SameRequest(row, failed)
      /\ failed.status \in {"queued", "failed"} /\ failed.active = 0
      /\ failed.attempts = row.attempts /\ failed.deferrals = row.deferrals
      /\ failed.steps = row.steps
      /\ failed.status = "failed" /\ failed.error = "transient" => effective >= MaxAttempts
  BY <1>3, <1>5, ReleasedRow
<1>8. next = [failed EXCEPT !.steps = steps]
  BY <1>1, <1>5, <1>7
<1>9. /\ entry \in Entries /\ entry.status = status
      /\ entry.attempts = row.steps[s].attempts /\ entry.deferrals = row.steps[s].deferrals
  BY <1>1 DEF Entries
<1> HIDE DEF entry
<1>10. steps \in [Steps -> Entries] /\ steps[s] = entry
       /\ \A other \in Steps : other # s => steps[other] = row.steps[other]
  BY <1>1, <1>9
<1> HIDE DEF steps
<1>11. /\ next \in Rows /\ SameRequest(row, next)
       /\ next.status = failed.status /\ next.active = 0 /\ next.error = failed.error
       /\ next.attempts = row.attempts /\ next.deferrals = row.deferrals
       /\ next.steps = steps
  BY <1>7, <1>8, <1>10 DEF Rows, SameRequest
<1>12. StepOK(next, s)
  BY <1>1, <1>2, <1>3, <1>7, <1>6, <1>9, <1>10, <1>11, StepsAreNumbers
     DEF StepOK, Active, Spent, Allowed
<1>13. ASSUME NEW other \in Steps, other # s
       PROVE  StepOK(next, other)
  <2>1. StepOK(row, other) /\ row.steps[other] \in Entries
    BY RowTypes DEF RowOK
  <2>2. QED
    BY <1>2, <1>7, <1>10, <1>11, <1>13, <2>1, StepsAreNumbers, EntryTypes
       DEF StepOK, Active, Spent, Allowed
<1>14. RowOK(next)
  BY <1>1, <1>2, <1>4, <1>7, <1>11, <1>12, <1>13 DEF RowOK
<1>15. Survives(row, next)
  BY <1>1, <1>10, <1>11 DEF Survives
<1>16. QED  BY <1>7, <1>11, <1>14, <1>15 DEF Sound

\* fail_step for a capacity error: both ledgers record the pause.
LEMMA DeferredRow ==
  ASSUME NEW row \in Rows, RowOK(row), row.status = "running",
         NEW s \in Steps, row.active = s, NEW next, next = StepDeferred(row, s)
  PROVE  /\ Sound(row, next) /\ SameRequest(row, next)
         /\ next.status = "queued" /\ next.active = 0
<1> DEFINE cleared == ClearLease(row)
           waiting == [cleared EXCEPT !.status = "queued", !.available = "later"]
           failed == FailAnalysis(row, TRUE)
           entry == [row.steps[s] EXCEPT !.status = "pending",
                                         !.deferrals = row.steps[s].deferrals + 1]
           steps == [row.steps EXCEPT ![s] = entry]
<1>1. /\ StepOK(row, s) /\ row.steps[s] \in Entries /\ row.steps \in [Steps -> Entries]
      /\ row.deferrals < row.attempts /\ row.steps[s].status = "running"
  BY RowTypes DEF RowOK, StepOK
<1>2. /\ row.attempts \in Nat /\ row.deferrals \in Nat /\ row.steps[s].attempts \in Nat
      /\ row.steps[s].deferrals \in Nat /\ MaxAttempts \in Nat \ {0}
      /\ row.deferrals + 1 \in Nat /\ row.steps[s].deferrals + 1 \in Nat
  BY <1>1, RowTypes, EntryTypes, AttemptsAssumption
<1>3. /\ cleared \in Rows /\ SameRequest(row, cleared) /\ cleared.error = row.error
      /\ cleared.attempts = row.attempts /\ cleared.deferrals = row.deferrals
      /\ cleared.steps = row.steps
  BY DEF ClearLease, Rows, Leases, SameRequest
<1>4. failed = [ClearLease(row) EXCEPT !.status = "queued", !.available = "later",
                                      !.dispatched = "never",
                                      !.deferrals = ClearLease(row).deferrals + 1]
  BY DEF FailAnalysis, DeferForCapacity
<1>5. failed = [waiting EXCEPT !.dispatched = "never", !.deferrals = row.deferrals + 1]
  BY <1>3, <1>4
<1> HIDE DEF cleared, failed
<1>6. /\ waiting \in Rows /\ SameRequest(row, waiting) /\ waiting.status = "queued"
      /\ waiting.attempts = row.attempts /\ waiting.steps = row.steps
      /\ waiting.error = row.error
  BY <1>3 DEF Rows, Statuses, Availability, SameRequest
<1> HIDE DEF waiting
<1>7. /\ failed \in Rows /\ SameRequest(row, failed) /\ failed.status = "queued"
      /\ failed.attempts = row.attempts /\ failed.deferrals = row.deferrals + 1
      /\ failed.steps = row.steps
  BY <1>2, <1>5, <1>6 DEF Rows, Dispatches, SameRequest
<1>8. next = [failed EXCEPT !.steps[s] = Paused(failed.steps[s]), !.active = 0]
  BY DEF StepDeferred, failed
<1>9. next = [failed EXCEPT !.steps = steps, !.active = 0]
  BY <1>7, <1>8 DEF Paused
<1>10. /\ entry \in Entries /\ entry.status = "pending"
       /\ entry.attempts = row.steps[s].attempts
       /\ entry.deferrals = row.steps[s].deferrals + 1
  BY <1>1, <1>2 DEF Entries
<1> HIDE DEF entry
<1>11. steps \in [Steps -> Entries] /\ steps[s] = entry
       /\ \A other \in Steps : other # s => steps[other] = row.steps[other]
  BY <1>1, <1>10
<1> HIDE DEF steps
<1>12. /\ next \in Rows /\ SameRequest(row, next)
       /\ next.status = "queued" /\ next.active = 0
       /\ next.attempts = row.attempts /\ next.deferrals = row.deferrals + 1
       /\ next.steps = steps
  BY <1>7, <1>9, <1>11 DEF Rows, SameRequest
<1>13. StepOK(next, s)
  BY <1>1, <1>2, <1>10, <1>11, <1>12, StepsAreNumbers DEF StepOK, Active, Spent, Allowed
<1>14. ASSUME NEW other \in Steps, other # s
       PROVE  StepOK(next, other)
  <2>1. StepOK(row, other) /\ row.steps[other] \in Entries
    BY RowTypes DEF RowOK
  <2>2. QED
    BY <1>2, <1>11, <1>12, <1>14, <2>1, StepsAreNumbers, EntryTypes
       DEF StepOK, Active, Spent, Allowed
<1>15. RowOK(next)
  BY <1>1, <1>2, <1>12, <1>13, <1>14 DEF RowOK
<1>16. Survives(row, next)
  BY <1>1, <1>11, <1>12 DEF Survives
<1>17. QED  BY <1>12, <1>15, <1>16 DEF Sound

\* fail_analysis between two steps: the attempts of the row itself count.
LEMMA FailedRow ==
  ASSUME NEW row \in Rows, RowOK(row), row.status = "running", row.active = 0,
         NEW retryable \in BOOLEAN, NEW next, next = RowFailed(row, retryable)
  PROVE  /\ Sound(row, next) /\ SameRequest(row, next)
         /\ next.status \in {"queued", "failed"} /\ next.active = 0
<1> DEFINE normal == NormalAttempts(row)
<1>1. row.attempts \in Nat /\ row.deferrals \in Nat /\ row.deferrals < row.attempts
      /\ MaxAttempts \in Nat \ {0}
  BY RowTypes, AttemptsAssumption DEF RowOK
<1>2. normal \in Nat /\ normal >= MaxAttempts => row.attempts >= MaxAttempts + row.deferrals
  BY <1>1 DEF NormalAttempts
<1>3. normal \in Nat
  BY <1>1 DEF NormalAttempts
<1>4. next = Failed(row, retryable, normal)
  BY DEF RowFailed
<1> HIDE DEF normal
<1>5. /\ next \in Rows /\ SameRequest(row, next)
      /\ next.status \in {"queued", "failed"} /\ next.active = 0
      /\ next.attempts = row.attempts /\ next.deferrals = row.deferrals
      /\ next.steps = row.steps
      /\ next.status = "failed" /\ next.error = "transient" => normal >= MaxAttempts
  BY <1>3, <1>4, ReleasedRow
<1>6. ASSUME NEW s \in Steps
      PROVE  StepOK(next, s)
  <2>1. StepOK(row, s) /\ row.steps[s] \in Entries
    BY RowTypes DEF RowOK
  <2>2. QED
    BY <1>1, <1>5, <2>1, StepsAreNumbers, EntryTypes DEF StepOK, Active, Spent, Allowed
<1>7. RowOK(next)
  BY <1>1, <1>2, <1>3, <1>5, <1>6 DEF RowOK
<1>8. QED  BY <1>5, <1>7 DEF Sound, Survives

\* preserve_analysis_steps: what a failed row proved is within its budget.
LEMMA PreservedRow ==
  ASSUME NEW from \in Rows, RowOK(from), NEW new \in Rows, RowOK(new), new.status = "queued",
         new.attempts = 0, new.deferrals = 0, new.active = 0, NEW next,
         next = Preserved(from, new)
  PROVE  /\ next \in Rows /\ RowOK(next) /\ next.status = "queued"
         /\ SameRequest(new, next)
<1> DEFINE steps == [s \in Steps |-> IF from.steps[s].status = "succeeded"
                                     THEN from.steps[s] ELSE NewStep]
<1>2. next = IF from.evidence = new.evidence THEN [new EXCEPT !.steps = steps] ELSE new
  BY DEF Preserved
<1>3. CASE from.evidence # new.evidence
  BY <1>2, <1>3 DEF SameRequest
<1>4. CASE from.evidence = new.evidence
  <2>1. steps \in [Steps -> Entries]
        /\ \A s \in Steps : \/ from.steps[s].status = "succeeded" /\ steps[s] = from.steps[s]
                            \/ steps[s] = NewStep
    BY EmptyStep, RowTypes
  <2> HIDE DEF steps
  <2>2. /\ next \in Rows /\ next.status = "queued" /\ SameRequest(new, next)
        /\ next.attempts = 0 /\ next.deferrals = 0 /\ next.active = 0 /\ next.steps = steps
    BY <1>2, <1>4, <2>1 DEF Rows, SameRequest
  <2>3. ASSUME NEW s \in Steps
        PROVE  StepOK(next, s)
    <3>1. CASE from.steps[s].status = "succeeded" /\ steps[s] = from.steps[s]
      <4>1. StepOK(from, s)
        BY DEF RowOK
      <4>2. QED  BY <2>2, <3>1, <4>1, StepsAreNumbers DEF StepOK, Active
    <3>2. CASE steps[s] = NewStep
      BY <2>2, <3>2, EmptyStep, StepsAreNumbers, AttemptsAssumption
         DEF StepOK, Active, Spent, Allowed
    <3>3. QED  BY <2>1, <3>1, <3>2
  <2>4. QED  BY <2>2, <2>3 DEF RowOK
<1>5. QED  BY <1>3, <1>4

-----------------------------------------------------------------------------
(* What may happen to the rows.                                            *)

OutputsKept == \A j \in Jobs : Survives(jobs[j], jobs'[j])

\* Every row stays as it is or moves soundly.
LEMMA SoundRows ==
  ASSUME jobs \in [Jobs -> Rows], Accounts, NEW rows,
         rows = [j \in Jobs |-> rows[j]],
         \A j \in Jobs : rows[j] = jobs[j] \/ Sound(jobs[j], rows[j])
  PROVE  /\ rows \in [Jobs -> Rows] /\ \A j \in Jobs : RowOK(rows[j])
         /\ \A j \in Jobs : Survives(jobs[j], rows[j])
<1>1. \A j \in Jobs : rows[j] \in Rows /\ RowOK(rows[j])
  BY DEF Accounts, Sound
<1>2. \A j \in Jobs : Survives(jobs[j], rows[j])
  BY DEF Sound, Survives
<1>3. QED  BY <1>1, <1>2

\* A worker stays in its step while nobody else writes its row under its lease.
LEMMA OpenKept ==
  ASSUME OpenStep, NEW t \in Tokens, worker'[t] = worker[t] \/ worker'[t].pc = "idle",
         \A k \in Jobs : \/ jobs'[k].status # "running"
                         \/ jobs'[k].token # t
                         \/ /\ jobs'[k].status = jobs[k].status
                            /\ jobs'[k].token = jobs[k].token
                            /\ jobs'[k].active = jobs[k].active
  PROVE  InOpenStep(t)'
BY DEF OpenStep, InOpenStep, Owns, OwnedBy

LEMMA WorkerMoves ==
  ASSUME worker \in [Tokens -> Executions], NEW t \in Tokens, NEW execution \in Executions,
         worker' = [worker EXCEPT ![t] = execution]
  PROVE  /\ worker' \in [Tokens -> Executions] /\ worker'[t] = execution
         /\ \A u \in Tokens : u # t => worker'[u] = worker[u]
OBVIOUS

LEMMA IdleExecution == Idle \in Executions /\ Idle.pc = "idle"
BY DEF Idle, Executions, NoOutputs

\* One row moves without asking for another: what it is about stays, or its
\* catalogue becomes the present one.
LEMMA RowStep ==
  ASSUME IInv, NEW j \in Jobs, jobs[j].status # "unused", NEW next, Sound(jobs[j], next),
         next.evidence = jobs[j].evidence, next.revision = jobs[j].revision,
         next.outcome = jobs[j].outcome, next.catalog \in {jobs[j].catalog, catalog},
         next.status # "unused", Active(next) => Active(jobs[j]),
         jobs' = [jobs EXCEPT ![j] = next],
         UNCHANGED <<article, access, catalog, moves>>, faults' \in Nat,
         worker' \in [Tokens -> Executions], \A t \in Tokens : InOpenStep(t)'
  PROVE  IInv' /\ OutputsKept
<1>1. jobs \in [Jobs -> Rows] /\ Accounts
  BY DEF IInv, TypeOK
<1>2. jobs'[j] = next /\ \A k \in Jobs : k # j => jobs'[k] = jobs[k]
  BY <1>1
<1>3. jobs' = [k \in Jobs |-> jobs'[k]]
  BY <1>1
<1>4. /\ jobs' \in [Jobs -> Rows] /\ \A k \in Jobs : RowOK(jobs'[k])
      /\ \A k \in Jobs : Survives(jobs[k], jobs'[k])
  BY <1>1, <1>2, <1>3, SoundRows
<1>5. PICK last \in Jobs : Answered(last)
  BY DEF IInv, Requests
<1>6. \A k \in Jobs : /\ jobs'[k].status # "unused" <=> jobs[k].status # "unused"
                      /\ Active(jobs'[k]) => Active(jobs[k])
  BY <1>2
<1>7. Ends(jobs', last)
  BY <1>5, <1>6 DEF Answered, Ends
<1>8. ASSUME InStep(jobs[last])
      PROVE  InStep(jobs[last])'
  BY <1>2, <1>6, <1>8 DEF InStep, Hidden
<1>9. Answered(last)'
  BY <1>5, <1>7, <1>8 DEF Answered
<1>10. Requests'
  BY <1>9 DEF IInv, Requests, Bounds
<1>11. TypeOK' /\ ShownAnalysisIsCurrent'
  BY <1>4 DEF IInv, TypeOK, ShownAnalysisIsCurrent
<1>12. Accounts' /\ OutputsKept /\ OpenStep'
  BY <1>4 DEF Accounts, OutputsKept, OpenStep
<1>13. QED  BY <1>10, <1>11, <1>12 DEF IInv

\* No row moves, and the article stays.
LEMMA WorkerStep ==
  ASSUME IInv, UNCHANGED <<article, access, catalog, jobs, moves>>, faults' \in Nat,
         worker' \in [Tokens -> Executions], \A t \in Tokens : InOpenStep(t)'
  PROVE  IInv' /\ OutputsKept
<1>1. Accounts' /\ OpenStep' /\ ShownAnalysisIsCurrent'
  BY DEF IInv, Accounts, OpenStep, ShownAnalysisIsCurrent
<1>2. Requests'
  BY DEF IInv, Requests, Bounds, Answered, InStep, Hidden
<1>3. TypeOK'
  BY DEF IInv, TypeOK
<1>4. OutputsKept
  BY DEF OutputsKept, Survives
<1>5. QED  BY <1>1, <1>2, <1>3, <1>4 DEF IInv

\* A worker leaves, and the rows stay.
LEMMA LeaveStep ==
  ASSUME IInv, NEW t \in Tokens, Leave(t), UNCHANGED <<article, access, catalog, jobs, moves>>,
         faults' \in Nat
  PROVE  IInv' /\ OutputsKept
<1>1. /\ worker' \in [Tokens -> Executions] /\ worker'[t] = Idle
      /\ \A u \in Tokens : u # t => worker'[u] = worker[u]
  BY IdleExecution, WorkerMoves DEF Leave, IInv, TypeOK
<1>2. \A u \in Tokens : InOpenStep(u)'
  BY <1>1, IdleExecution, OpenKept DEF IInv
<1>3. QED  BY <1>1, <1>2, WorkerStep

-----------------------------------------------------------------------------
(* Requests.                                                               *)

\* The latest row is the last in use, the next one follows it.
LEMMA LatestRow ==
  ASSUME NEW last \in Jobs, Ends(jobs, last)
  PROVE  Latest = last
<1>1. last \in Nat /\ Jobs \subseteq Nat
  BY JobsAreNumbers
<1>2. /\ jobs[last].status # "unused"
      /\ \A k \in Jobs : k > last => jobs[k].status = "unused"
  BY <1>1 DEF Ends
<1>3. ASSUME NEW j \in Jobs, jobs[j].status # "unused",
             \A k \in Jobs : k > j => jobs[k].status = "unused"
      PROVE  j = last
  BY <1>1, <1>2, <1>3 DEF Ends
<1>4. QED  BY <1>2, <1>3 DEF Latest

LEMMA NextRow ==
  ASSUME NEW rows, NEW last \in Jobs, Ends(rows, last), last < MaxEvidence + MaxMoves
  PROVE  NextJob(rows) = last + 1 /\ last + 1 \in Jobs /\ rows[last + 1].status = "unused"
<1>1. last \in Nat /\ Jobs \subseteq Nat /\ last + 1 \in Jobs
  BY AnalysisAssumption, JobsAreNumbers DEF Jobs
<1>2. /\ rows[last + 1].status = "unused"
      /\ \A k \in Jobs : k < last + 1 => rows[k].status # "unused"
  BY <1>1 DEF Ends
<1>3. ASSUME NEW j \in Jobs, rows[j].status = "unused",
             \A k \in Jobs : k < j => rows[k].status # "unused"
      PROVE  j = last + 1
  BY <1>1, <1>2, <1>3 DEF Ends
<1>4. QED  BY <1>1, <1>2, <1>3 DEF NextJob

\* A row that is about the article as it is answers everything so far, when
\* something happened since the row before it.
LEMMA RowAdded ==
  ASSUME NEW rows \in [Jobs -> Rows], NEW last \in Jobs, Ends(rows, last), ~Busy(rows),
         Bounds', last < article'.evidence + moves', UNCHANGED <<access, catalog>>,
         Requestable(article)', NEW new \in Rows, RowOK(new), new.status = "queued",
         new.outcome = "none", new.evidence = article'.evidence,
         new.revision = article'.revision, new.catalog = catalog,
         jobs' = [rows EXCEPT ![NextJob(rows)] = new]
  PROVE  /\ Requests' /\ jobs' = [k \in Jobs |-> jobs'[k]]
         /\ \A k \in Jobs : \/ jobs'[k] = rows[k]
                            \/ rows[k].status = "unused" /\ jobs'[k] = new
<1> DEFINE n == last + 1
<1>1. last < MaxEvidence + MaxMoves
  BY JobsAreNumbers, AnalysisAssumption DEF Bounds
<1>2. NextJob(rows) = n /\ n \in Jobs /\ rows[n].status = "unused"
  BY <1>1, NextRow
<1>3. last \in Nat /\ Jobs \subseteq Nat /\ n = last + 1
  BY JobsAreNumbers
<1> HIDE DEF n
<1>4. jobs'[n] = new /\ \A k \in Jobs : k # n => jobs'[k] = rows[k]
  BY <1>2
<1>5. Ends(jobs', n)
  BY <1>2, <1>3, <1>4 DEF Ends, Busy, Active
<1>6. InStep(jobs[n])'
  BY <1>4 DEF InStep, Requestable, Hidden
<1>7. n <= article'.evidence + moves'
  BY <1>3, AnalysisAssumption DEF Bounds
<1>8. Answered(n)'
  BY <1>5, <1>6, <1>7 DEF Answered
<1>9. QED  BY <1>2, <1>4, <1>8 DEF Requests

\* The request is absorbed, or adds such a row.
LEMMA RequestAnswered ==
  ASSUME catalog \in Nat, NEW rows \in [Jobs -> Rows], NEW last \in Jobs, Ends(rows, last),
         Bounds', last < article'.evidence + moves', UNCHANGED <<access, catalog>>,
         article' \in Articles, NEW force \in BOOLEAN,
         jobs' = Requested(rows, article', force)
  PROVE  /\ Requests' /\ jobs' = [k \in Jobs |-> jobs'[k]]
         /\ \A k \in Jobs : \/ jobs'[k] = rows[k]
                            \/ /\ rows[k].status = "unused" /\ jobs'[k].status = "queued"
                               /\ jobs'[k] \in Rows /\ RowOK(jobs'[k])
<1>1. CASE jobs' = rows
  <2>1. Answered(last)'
    BY <1>1, JobsAreNumbers, AnalysisAssumption DEF Answered, Bounds
  <2>2. QED  BY <1>1, <2>1 DEF Requests
<1>2. CASE jobs' # rows
  <2> DEFINE new == NewJob(article'.evidence, article'.revision)
  <2>1. /\ Requestable(article') /\ ~Busy(rows)
        /\ jobs' = [rows EXCEPT ![NextJob(rows)] = new]
    BY <1>2 DEF Requested
  <2>2. /\ new \in Rows /\ RowOK(new) /\ new.status = "queued" /\ new.outcome = "none"
        /\ new.evidence = article'.evidence /\ new.revision = article'.revision
        /\ new.catalog = catalog
    <3>1. article'.evidence \in Nat /\ article'.revision \in Nat
      BY DEF Articles
    <3>2. QED  BY <3>1, QueuedRow
  <2> HIDE DEF new
  <2>3. Requestable(article)'
    BY <2>1 DEF Requestable
  <2>4. QED  BY <2>1, <2>2, <2>3, RowAdded
<1>3. QED  BY <1>1, <1>2

\* An unused row holds no output that could be lost.
LEMMA UnusedIsEmpty ==
  ASSUME NEW row \in Rows, RowOK(row), row.status = "unused", NEW next \in Rows, RowOK(next)
  PROVE  Sound(row, next)
BY DEF RowOK, StepOK, Sound, Survives

\* Rows that stay, end or are added soundly, and workers that stay or leave.
LEMMA RowsStep ==
  ASSUME IInv, Requests', article' \in Articles, ShownAnalysisIsCurrent',
         access' \in {"open", "unapproved", "aged"},
         catalog' \in Nat, moves' \in Nat, faults' \in Nat,
         jobs' = [k \in Jobs |-> jobs'[k]],
         \A k \in Jobs : \/ jobs'[k] = jobs[k]
                         \/ Sound(jobs[k], jobs'[k]) /\ jobs'[k].status # "running",
         worker' \in [Tokens -> Executions],
         \A t \in Tokens : worker'[t] = worker[t] \/ worker'[t].pc = "idle"
  PROVE  IInv' /\ OutputsKept
<1>1. jobs \in [Jobs -> Rows] /\ Accounts
  BY DEF IInv, TypeOK
<1>2. /\ jobs' \in [Jobs -> Rows] /\ \A k \in Jobs : RowOK(jobs'[k])
      /\ \A k \in Jobs : Survives(jobs[k], jobs'[k])
  BY <1>1, SoundRows
<1>3. \A t \in Tokens : InOpenStep(t)'
  BY OpenKept DEF IInv
<1>4. Accounts' /\ OutputsKept /\ OpenStep'
  BY <1>2, <1>3 DEF Accounts, OutputsKept, OpenStep
<1>5. QED  BY <1>2, <1>4 DEF IInv, TypeOK

\* The same, for a step that asks for an analysis when it has done its work.
LEMMA AskStep ==
  ASSUME IInv, NEW rows \in [Jobs -> Rows], NEW last \in Jobs, Ends(rows, last),
         Bounds', last < article'.evidence + moves', UNCHANGED <<access, catalog>>,
         article' \in Articles, ShownAnalysisIsCurrent', moves' \in Nat, faults' \in Nat,
         NEW force \in BOOLEAN, jobs' = Requested(rows, article', force),
         \A k \in Jobs : \/ rows[k] = jobs[k]
                         \/ Sound(jobs[k], rows[k]) /\ rows[k].status \notin {"unused", "running"},
         worker' \in [Tokens -> Executions],
         \A t \in Tokens : worker'[t] = worker[t] \/ worker'[t].pc = "idle"
  PROVE  IInv' /\ OutputsKept
<1>1. catalog \in Nat /\ access \in {"open", "unapproved", "aged"} /\ jobs \in [Jobs -> Rows]
      /\ Accounts
  BY DEF IInv, TypeOK
<1>2. /\ Requests' /\ jobs' = [k \in Jobs |-> jobs'[k]]
      /\ \A k \in Jobs : \/ jobs'[k] = rows[k]
                         \/ /\ rows[k].status = "unused" /\ jobs'[k].status = "queued"
                            /\ jobs'[k] \in Rows /\ RowOK(jobs'[k])
  BY <1>1, RequestAnswered
<1>3. ASSUME NEW k \in Jobs
      PROVE  \/ jobs'[k] = jobs[k]
             \/ Sound(jobs[k], jobs'[k]) /\ jobs'[k].status # "running"
  <2>1. CASE jobs'[k] = rows[k]
    BY <2>1
  <2>2. CASE rows[k].status = "unused" /\ jobs'[k].status = "queued"
             /\ jobs'[k] \in Rows /\ RowOK(jobs'[k])
    <3>1. rows[k] = jobs[k]
      BY <2>2
    <3>2. jobs[k] \in Rows /\ RowOK(jobs[k])
      BY <1>1 DEF Accounts
    <3>3. Sound(jobs[k], jobs'[k])
      BY <2>2, <3>1, <3>2, UnusedIsEmpty
    <3>4. QED  BY <2>2, <3>3
  <2>3. QED  BY <1>2, <2>1, <2>2
<1>4. QED  BY <1>1, <1>2, <1>3, RowsStep

\* Why a row ends is a reason, and there is none while it is in step.
LEMMA OutcomeTypes ==
  ASSUME TypeOK, NEW job
  PROVE  ClaimOutcome(job) \in Outcomes /\ StepOutcome(job) \in Outcomes /\ ApplyOutcome \in Outcomes
<1>1. ClaimOutcome(job) \in Outcomes
  BY DEF TypeOK, Articles, ClaimOutcome, Outcomes
<1>2. StepOutcome(job) \in Outcomes
  BY <1>1 DEF TypeOK, StepOutcome, Outcomes
<1>3. ApplyOutcome \in Outcomes
  BY DEF TypeOK, ApplyOutcome, Outcomes
<1>4. QED  BY <1>1, <1>2, <1>3

LEMMA InStepGoesOn ==
  ASSUME NEW job, InStep(job), Active(job)
  PROVE  /\ ClaimOutcome(job) = "none" /\ StepOutcome(job) = "none" /\ ApplyOutcome = "none"
         /\ SameInputs(job) /\ job.catalog = catalog
BY DEF InStep, ClaimOutcome, StepOutcome, ApplyOutcome, SameInputs

\* The active row is the last one.
LEMMA ActiveIsLast ==
  ASSUME NEW j \in Jobs, Active(jobs[j]), NEW last \in Jobs, Ends(jobs, last)
  PROVE  j = last
BY JobsAreNumbers DEF Ends, Active

\* The rows after one of them is finished.
LEMMA FinishedRows ==
  ASSUME IInv, NEW j \in Jobs, NEW last \in Jobs, Ends(jobs, last), Active(jobs[j]),
         NEW outcome \in Outcomes, outcome # "none", NEW result \in Results \cup {"none"},
         NEW rows, rows = Finished(jobs, j, outcome, result)
  PROVE  /\ rows \in [Jobs -> Rows] /\ Ends(rows, last)
         /\ Sound(jobs[j], rows[j]) /\ rows[j].status = "succeeded" /\ rows[j].outcome = outcome
         /\ rows[j].evidence = jobs[j].evidence /\ rows[j].revision = jobs[j].revision
         /\ rows[j].catalog = jobs[j].catalog
         /\ \A k \in Jobs : k # j => rows[k] = jobs[k]
<1> DEFINE next == Closed(jobs[j], outcome, result)
<1>1. catalog \in Nat /\ jobs \in [Jobs -> Rows] /\ jobs[j] \in Rows
  BY DEF IInv, TypeOK
<1>2. rows = [jobs EXCEPT ![j] = next]
  BY DEF Finished, Closed
<1>3. /\ Sound(jobs[j], next) /\ next.status = "succeeded" /\ next.outcome = outcome
      /\ next.evidence = jobs[j].evidence /\ next.revision = jobs[j].revision
      /\ next.catalog = jobs[j].catalog
  BY <1>1, FinishedRow
<1> HIDE DEF next
<1>4. next \in Rows
  BY <1>3 DEF Sound
<1>5. rows \in [Jobs -> Rows] /\ rows[j] = next /\ \A k \in Jobs : k # j => rows[k] = jobs[k]
  BY <1>1, <1>2, <1>4
<1>6. Ends(rows, last)
  BY <1>3, <1>5 DEF Ends, Active
<1>7. QED  BY <1>3, <1>5, <1>6

\* finish_job and refresh_superseded_analysis: the row that ends had fallen out
\* of step, so that another one may be due.
LEMMA EndedStep ==
  ASSUME IInv, NEW j \in Jobs, Active(jobs[j]), ~InStep(jobs[j]),
         NEW outcome \in Outcomes, outcome # "none", jobs' = Ended(j, outcome),
         UNCHANGED <<article, access, catalog, moves, faults>>,
         worker' \in [Tokens -> Executions],
         \A t \in Tokens : worker'[t] = worker[t] \/ worker'[t].pc = "idle"
  PROVE  IInv' /\ OutputsKept
<1> DEFINE rows == Finished(jobs, j, outcome, "none")
<1>1. PICK last \in Jobs : Answered(last)
  BY DEF IInv, Requests
<1>2. Ends(jobs, last) /\ j = last
  BY <1>1, ActiveIsLast DEF Answered
<1>3. /\ rows \in [Jobs -> Rows] /\ Ends(rows, last)
      /\ Sound(jobs[j], rows[j]) /\ rows[j].status = "succeeded"
      /\ \A k \in Jobs : k # j => rows[k] = jobs[k]
  BY <1>2, FinishedRows
<1>4. /\ article' \in Articles /\ ShownAnalysisIsCurrent' /\ Bounds'
      /\ access' \in {"open", "unapproved", "aged"}
      /\ catalog' \in Nat /\ moves' \in Nat /\ faults' \in Nat
  BY DEF IInv, TypeOK, ShownAnalysisIsCurrent, Requests, Bounds
<1>5. last < article'.evidence + moves'
  BY <1>1, <1>2, <1>4, JobsAreNumbers, AnalysisAssumption DEF Answered, Bounds
<1>6. jobs' = rows \/ jobs' = Requested(rows, article, FALSE)
  BY DEF Ended, Replaced
<1> HIDE DEF rows
<1>7. CASE jobs' = rows
  <2>1. Answered(last)'
    BY <1>3, <1>5, <1>7, <1>4, JobsAreNumbers, AnalysisAssumption DEF Answered, Bounds
  <2>2. Requests'
    BY <1>4, <2>1 DEF Requests
  <2>3. jobs' = [k \in Jobs |-> jobs'[k]]
    BY <1>3, <1>7
  <2>4. \A k \in Jobs : \/ jobs'[k] = jobs[k]
                        \/ Sound(jobs[k], jobs'[k]) /\ jobs'[k].status # "running"
    BY <1>3, <1>7
  <2>5. QED  BY <1>4, <2>2, <2>3, <2>4, RowsStep
<1>8. CASE jobs' = Requested(rows, article', FALSE)
  <2>1. \A k \in Jobs : \/ rows[k] = jobs[k]
                        \/ Sound(jobs[k], rows[k]) /\ rows[k].status \notin {"unused", "running"}
    BY <1>3
  <2>2. QED  BY <1>3, <1>4, <1>5, <1>8, <2>1, AskStep
<1>9. QED  BY <1>6, <1>7, <1>8

-----------------------------------------------------------------------------
(* Steps of what moves around the analysis.                                *)

LEMMA InitStep ==
  ASSUME Init
  PROVE  IInv
<1> DEFINE first == NewJob(1, 0)
<1>1. /\ first \in Rows /\ RowOK(first) /\ first.status = "queued" /\ first.evidence = 1
      /\ first.revision = 0 /\ first.catalog = 0 /\ first.outcome = "none"
  BY QueuedRow DEF Init
<1>2. NoJob \in Rows /\ RowOK(NoJob) /\ NoJob.status = "unused"
  <2> DEFINE blank == NewJob(0, 0)
  <2>1. /\ blank \in Rows /\ blank.attempts = 0 /\ blank.deferrals = 0 /\ blank.active = 0
        /\ \A s \in Steps : blank.steps[s] = NewStep
    BY QueuedRow DEF Init
  <2>2. NoJob = [blank EXCEPT !.status = "unused", !.catalog = 0]
    BY DEF NoJob
  <2> HIDE DEF blank
  <2>3. /\ NoJob \in Rows /\ NoJob.attempts = 0 /\ NoJob.deferrals = 0 /\ NoJob.active = 0
        /\ \A s \in Steps : NoJob.steps[s] = NewStep /\ NoJob.status = "unused"
    BY <2>1, <2>2 DEF Rows, Statuses
  <2>4. NoJob.status = "unused"
    BY <2>1, <2>2 DEF Rows
  <2>5. QED  BY <2>3, <2>4, BlankRow
<1>3. /\ article = [evidence |-> 1, revision |-> 0, review |-> "pending",
                    publication |-> "unpublished", analysed |-> 0]
      /\ access = "open" /\ catalog = 0 /\ moves = 0 /\ faults = 0
      /\ jobs = [j \in Jobs |-> IF j = 1 THEN first ELSE NoJob]
      /\ worker = [t \in Tokens |-> Idle]
  BY DEF Init
<1> HIDE DEF first
<1>4. TypeOK
  BY <1>1, <1>2, <1>3, IdleExecution DEF TypeOK, Articles
<1>5. Accounts
  BY <1>1, <1>2, <1>3 DEF Accounts
<1>6. OpenStep /\ ShownAnalysisIsCurrent
  BY <1>3, IdleExecution DEF OpenStep, InOpenStep, ShownAnalysisIsCurrent
<1>7. Ends(jobs, 1)
  BY <1>1, <1>2, <1>3, JobsAreNumbers DEF Ends
<1>8. InStep(jobs[1])
  BY <1>1, <1>3, JobsAreNumbers DEF InStep, Hidden
<1>9. Requests
  <2>1. Bounds
    BY <1>3, AnalysisAssumption DEF Bounds
  <2>2. Answered(1)
    BY <1>3, <1>7, <1>8 DEF Answered
  <2>3. QED  BY <2>1, <2>2, JobsAreNumbers DEF Requests
<1>10. QED  BY <1>4, <1>5, <1>6, <1>9 DEF IInv

\* What invalidate_editorial leaves of an article.
LEMMA InvalidatedArticle ==
  ASSUME article \in Articles, NEW new, new = Invalidated(article)
  PROVE  new \in Articles /\ new.analysed = 0 /\ new.evidence = article.evidence + 1
<1> DEFINE next == [article EXCEPT !.evidence = article.evidence + 1,
                                   !.revision = article.revision + 1,
                                   !.publication = "unpublished"]
           review == IF article.review = "rejected" THEN article.review ELSE "pending"
<1>1. article.evidence + 1 \in Nat /\ article.revision + 1 \in Nat
  BY DEF Articles
<1>2. next \in Articles /\ next.evidence = article.evidence + 1 /\ next.review = article.review
  BY <1>1 DEF Articles
<1>3. new = [next EXCEPT !.review = review, !.analysed = 0]
  BY <1>2 DEF Invalidated, Articles
<1>4. review \in {"pending", "rejected"}
  OBVIOUS
<1>5. 0 \in Nat /\ review \in {"pending", "approved", "rejected"}
  BY <1>4
<1> HIDE DEF next, review
<1>6. new \in Articles
  BY <1>2, <1>3, <1>5 DEF Articles
<1>7. new.analysed = 0 /\ new.evidence = next.evidence
  BY <1>2, <1>3 DEF Articles
<1>8. QED  BY <1>2, <1>6, <1>7

\* New evidence is a change of its own, and asks for the row that answers it.
LEMMA EvidenceStep ==
  ASSUME IInv, NewEvidence
  PROVE  IInv' /\ OutputsKept
<1>1. /\ article \in Articles /\ jobs \in [Jobs -> Rows] /\ worker \in [Tokens -> Executions]
      /\ moves \in Nat /\ faults \in Nat /\ Bounds
  BY DEF IInv, TypeOK, Requests
<1>2. /\ article.evidence < MaxEvidence /\ article' = Invalidated(article)
      /\ jobs' = Requested(jobs, article', FALSE)
      /\ UNCHANGED <<access, catalog, worker, moves, faults>>
  BY DEF NewEvidence
<1>3. /\ article' \in Articles /\ article'.evidence = article.evidence + 1
      /\ article'.analysed = 0
  BY <1>1, <1>2, InvalidatedArticle
<1>4. PICK last \in Jobs : Answered(last)
  BY DEF IInv, Requests
<1>5. Ends(jobs, last) /\ last < article'.evidence + moves' /\ Bounds'
  BY <1>1, <1>2, <1>3, <1>4, JobsAreNumbers, AnalysisAssumption DEF Answered, Bounds
<1>6. ShownAnalysisIsCurrent'
  BY <1>3 DEF ShownAnalysisIsCurrent
<1>7. QED  BY <1>1, <1>2, <1>3, <1>5, <1>6, AskStep

\* A move of the editor, the catalogue or the source asks for nothing itself.
LEMMA MoveStep ==
  ASSUME IInv, Decide \/ CatalogChanges \/ AccessChanges
  PROVE  IInv' /\ OutputsKept
<1>1. /\ article \in Articles /\ access \in {"open", "unapproved", "aged"} /\ catalog \in Nat
      /\ moves \in Nat /\ faults \in Nat /\ Bounds /\ jobs \in [Jobs -> Rows]
      /\ worker \in [Tokens -> Executions]
  BY DEF IInv, TypeOK, Requests
<1>2. moves < MaxMoves /\ moves' = moves + 1 /\ UNCHANGED <<jobs, worker, faults>>
  BY DEF Decide, CatalogChanges, AccessChanges
<1>3. /\ article' \in Articles /\ article'.evidence = article.evidence
      /\ article'.analysed = article.analysed
  <2>1. CASE Decide
    <3>1. article.revision + 1 \in Nat
      BY <1>1 DEF Articles
    <3>2. ASSUME NEW review \in {"pending", "approved", "rejected"},
                 NEW publication \in {"unpublished", "published"},
                 article' = [article EXCEPT !.review = review, !.publication = publication,
                                            !.revision = article.revision + 1]
          PROVE  /\ article' \in Articles /\ article'.evidence = article.evidence
                 /\ article'.analysed = article.analysed
      BY <1>1, <3>1, <3>2 DEF Articles
    <3>3. \E review \in {"pending", "approved", "rejected"},
             publication \in {"unpublished", "published"} :
             article' = [article EXCEPT !.review = review, !.publication = publication,
                                        !.revision = article.revision + 1]
      <4>1. CASE article' = [article EXCEPT !.review = "rejected", !.publication = "unpublished",
                                            !.revision = article.revision + 1]
        BY <4>1
      <4>2. CASE article' = [article EXCEPT !.review = "approved",
                                            !.revision = article.revision + 1]
        BY <1>1, <4>2 DEF Articles
      <4>3. CASE article' = [article EXCEPT !.publication = "published",
                                            !.revision = article.revision + 1]
        BY <1>1, <4>3 DEF Articles
      <4>4. CASE article' = [article EXCEPT !.publication = "unpublished",
                                            !.revision = article.revision + 1]
        BY <1>1, <4>4 DEF Articles
      <4>5. QED  BY <2>1, <4>1, <4>2, <4>3, <4>4 DEF Decide
    <3>4. QED  BY <3>2, <3>3
  <2>2. CASE CatalogChanges \/ AccessChanges
    BY <1>1, <2>2 DEF CatalogChanges, AccessChanges
  <2>3. QED  BY <2>1, <2>2
<1>4. access' \in {"open", "unapproved", "aged"} /\ catalog' \in Nat
  BY <1>1 DEF Decide, CatalogChanges, AccessChanges
<1>5. PICK last \in Jobs : Answered(last)
  BY DEF IInv, Requests
<1>6. Bounds' /\ last < article'.evidence + moves'
  BY <1>1, <1>2, <1>3, <1>5, JobsAreNumbers, AnalysisAssumption DEF Answered, Bounds
<1>7. Ends(jobs', last)
  BY <1>2, <1>5 DEF Answered
<1>8. Requests'
  BY <1>6, <1>7, JobsAreNumbers, AnalysisAssumption DEF Requests, Answered, Bounds
<1>9. ShownAnalysisIsCurrent'
  BY <1>3 DEF IInv, ShownAnalysisIsCurrent
<1>10. moves' \in Nat /\ faults' \in Nat /\ jobs' = [k \in Jobs |-> jobs'[k]]
  BY <1>1, <1>2
<1>11. QED  BY <1>1, <1>2, <1>3, <1>4, <1>8, <1>9, <1>10, RowsStep

\* So does an administrator's edit, which hides the analysis as well.
LEMMA EditStep ==
  ASSUME IInv, Edit
  PROVE  IInv' /\ OutputsKept
<1>1. /\ article \in Articles /\ access \in {"open", "unapproved", "aged"} /\ catalog \in Nat
      /\ moves \in Nat /\ faults \in Nat /\ Bounds /\ jobs \in [Jobs -> Rows]
      /\ worker \in [Tokens -> Executions]
  BY DEF IInv, TypeOK, Requests
<1>2. /\ moves < MaxMoves /\ moves' = moves + 1
      /\ UNCHANGED <<access, catalog, jobs, worker, faults>>
  BY DEF Edit
<1>3. PICK evidence \in {article.evidence, article.evidence + 1} :
        /\ evidence <= MaxEvidence
        /\ article' = [Invalidated(article) EXCEPT !.evidence = evidence]
  BY DEF Edit
<1>4. /\ article' \in Articles /\ article'.evidence = evidence /\ article'.analysed = 0
      /\ evidence \in Nat /\ evidence >= article.evidence
  <2> DEFINE next == Invalidated(article)
  <2>1. next \in Articles /\ next.analysed = 0
    BY <1>1, InvalidatedArticle
  <2>2. evidence \in Nat /\ evidence >= article.evidence
    BY <1>1, <1>3 DEF Articles
  <2>3. article' = [next EXCEPT !.evidence = evidence]
    BY <1>3
  <2> HIDE DEF next
  <2>4. QED  BY <2>1, <2>2, <2>3 DEF Articles
<1>5. PICK last \in Jobs : Answered(last)
  BY DEF IInv, Requests
<1>6. Bounds' /\ last < article'.evidence + moves'
  BY <1>1, <1>2, <1>3, <1>4, <1>5, JobsAreNumbers, AnalysisAssumption DEF Answered, Bounds
<1>7. Ends(jobs', last)
  BY <1>2, <1>5 DEF Answered
<1>8. Requests'
  BY <1>6, <1>7, JobsAreNumbers, AnalysisAssumption DEF Requests, Answered, Bounds
<1>9. ShownAnalysisIsCurrent'
  BY <1>4 DEF ShownAnalysisIsCurrent
<1>10. moves' \in Nat /\ faults' \in Nat /\ jobs' = [k \in Jobs |-> jobs'[k]]
  BY <1>1, <1>2
<1>11. QED  BY <1>1, <1>2, <1>4, <1>8, <1>9, <1>10, RowsStep

\* An operator's retry of the latest row, which had failed, is a move.
LEMMA RetryStep ==
  ASSUME IInv, RetryFailed
  PROVE  IInv' /\ OutputsKept
<1>1. /\ article \in Articles /\ access \in {"open", "unapproved", "aged"} /\ catalog \in Nat
      /\ moves \in Nat /\ faults \in Nat /\ Bounds /\ jobs \in [Jobs -> Rows]
      /\ worker \in [Tokens -> Executions] /\ \A j \in Jobs : RowOK(jobs[j])
  BY DEF IInv, TypeOK, Requests, Accounts
<1>2. PICK last \in Jobs : Answered(last)
  BY DEF IInv, Requests
<1>3. Ends(jobs, last) /\ Latest = last
  BY <1>2, LatestRow DEF Answered
<1> DEFINE new == Preserved(jobs[last], NewJob(article.evidence, article.revision))
<1>4. /\ moves < MaxMoves /\ moves' = moves + 1 /\ jobs[last].status = "failed"
      /\ Requestable(article) /\ jobs' = [jobs EXCEPT ![NextJob(jobs)] = new]
      /\ UNCHANGED <<article, access, catalog, worker, faults>>
  BY <1>3 DEF RetryFailed
<1>5. /\ new \in Rows /\ RowOK(new) /\ new.status = "queued" /\ new.outcome = "none"
      /\ new.evidence = article.evidence /\ new.revision = article.revision
      /\ new.catalog = catalog
  <2> DEFINE blank == NewJob(article.evidence, article.revision)
  <2>1. article.evidence \in Nat /\ article.revision \in Nat
    BY <1>1 DEF Articles
  <2>2. /\ blank \in Rows /\ RowOK(blank) /\ blank.status = "queued" /\ blank.outcome = "none"
        /\ blank.evidence = article.evidence /\ blank.revision = article.revision
        /\ blank.catalog = catalog
        /\ blank.attempts = 0 /\ blank.deferrals = 0 /\ blank.active = 0
    BY <1>1, <2>1, QueuedRow
  <2>3. new = Preserved(jobs[last], blank)
    OBVIOUS
  <2> HIDE DEF new, blank
  <2>4. QED  BY <1>1, <2>2, <2>3, PreservedRow DEF SameRequest
<1> HIDE DEF new
<1>6. ~Busy(jobs)
  <2> SUFFICES ASSUME NEW k \in Jobs
               PROVE  ~Active(jobs[k])
    BY DEF Busy
  <2>1. CASE k = last
    BY <1>4, <2>1 DEF Active
  <2>2. CASE k # last
    BY <1>3, <2>2, JobsAreNumbers DEF Ends, Active
  <2>3. QED  BY <2>1, <2>2
<1>7. Bounds' /\ last < article'.evidence + moves'
  BY <1>1, <1>2, <1>4, JobsAreNumbers, AnalysisAssumption DEF Answered, Bounds
<1>8. Requestable(article)'
  BY <1>4 DEF Requestable
<1>9. /\ Requests' /\ jobs' = [k \in Jobs |-> jobs'[k]]
      /\ \A k \in Jobs : \/ jobs'[k] = jobs[k]
                         \/ jobs[k].status = "unused" /\ jobs'[k] = new
  BY <1>1, <1>3, <1>4, <1>5, <1>6, <1>7, <1>8, RowAdded
<1>10. ASSUME NEW k \in Jobs, jobs[k].status = "unused"
       PROVE  Sound(jobs[k], new)
  BY <1>1, <1>5, <1>10, UnusedIsEmpty
<1>11. \A k \in Jobs : \/ jobs'[k] = jobs[k]
                       \/ Sound(jobs[k], jobs'[k]) /\ jobs'[k].status # "running"
  BY <1>5, <1>9, <1>10
<1>12. moves' \in Nat /\ ShownAnalysisIsCurrent'
  BY <1>1, <1>4 DEF IInv, ShownAnalysisIsCurrent
<1>13. QED  BY <1>1, <1>4, <1>9, <1>11, <1>12, RowsStep

\* What the publication policy leaves alone, and that it decides what it touches.
LEMMA PolicyTypes ==
  ASSUME NEW a \in Articles, NEW job, NEW next \in Policy(a, job)
  PROVE  /\ next \in Articles /\ next.evidence = a.evidence /\ next.analysed = a.analysed
         /\ next.review = "pending" => next = a
<1>1. CASE next = a
  BY <1>1
<1>2. CASE next = Published(a)
  <2>1. a.revision + 2 \in Nat
    BY DEF Articles
  <2>2. QED  BY <1>2, <2>1 DEF Published, Articles
<1>3. CASE next = Rejected(a)
  <2>1. a.revision + 1 \in Nat
    BY DEF Articles
  <2>2. QED  BY <1>3, <2>1 DEF Rejected, Articles
<1>4. QED  BY <1>1, <1>2, <1>3 DEF Policy

\* The automation asks for another row only when the latest fell out of step,
\* and decides only when none is active.
LEMMA ReconsiderStep ==
  ASSUME IInv, Reconsider
  PROVE  IInv' /\ OutputsKept
<1>1. /\ article \in Articles /\ access \in {"open", "unapproved", "aged"} /\ catalog \in Nat
      /\ moves \in Nat /\ faults \in Nat /\ Bounds /\ jobs \in [Jobs -> Rows]
      /\ worker \in [Tokens -> Executions] /\ \A j \in Jobs : RowOK(jobs[j])
  BY DEF IInv, TypeOK, Requests, Accounts
<1>2. PICK last \in Jobs : Answered(last)
  BY DEF IInv, Requests
<1>3. Ends(jobs, last) /\ Latest = last
  BY <1>2, LatestRow DEF Answered
<1> DEFINE job == jobs[last]
<1>4. Terminal(job) /\ UNCHANGED <<access, catalog, worker, moves, faults>>
  BY <1>3 DEF Reconsider
<1> DEFINE outOfStep == Stale(job) \/ (article.review = "pending" /\ ~CurrentAnalysis(job))
<1>5. \/ outOfStep /\ jobs' = Requested(jobs, article, TRUE) /\ UNCHANGED article
      \/ article' \in Policy(article, job) /\ UNCHANGED jobs
  BY <1>3 DEF Reconsider
<1>6. CASE outOfStep /\ jobs' = Requested(jobs, article, TRUE) /\ UNCHANGED article
  <2>1. ~InStep(job)
    <3>1. CASE Stale(job)
      BY <1>1, <3>1 DEF Stale, InStep, RowOK
    <3>2. CASE article.review = "pending" /\ ~CurrentAnalysis(job)
      BY <3>2 DEF CurrentAnalysis, InStep
    <3>3. QED  BY <1>6, <3>1, <3>2
  <2>2. Bounds' /\ last < article'.evidence + moves'
    BY <1>1, <1>2, <1>4, <1>6, <2>1, JobsAreNumbers, AnalysisAssumption DEF Answered, Bounds
  <2>3. article' \in Articles /\ ShownAnalysisIsCurrent' /\ moves' \in Nat /\ faults' \in Nat
    BY <1>1, <1>4, <1>6 DEF IInv, ShownAnalysisIsCurrent
  <2>4. jobs' = Requested(jobs, article', TRUE)
    BY <1>6
  <2>5. QED  BY <1>1, <1>3, <1>4, <2>2, <2>3, <2>4, AskStep
<1>7. CASE article' \in Policy(article, job) /\ UNCHANGED jobs
  <2>1. /\ article' \in Articles /\ article'.evidence = article.evidence
        /\ article'.analysed = article.analysed
        /\ article'.review = "pending" => article' = article
    BY <1>1, <1>7, PolicyTypes
  <2>2. ASSUME InStep(job)
        PROVE  InStep(job)'
    BY <1>4, <1>7, <2>1, <2>2 DEF InStep, Hidden, Terminal, Active
  <2>3. Answered(last)'
    BY <1>2, <1>4, <1>7, <2>1, <2>2 DEF Answered
  <2>4. Requests'
    BY <1>1, <1>4, <2>1, <2>3 DEF Requests, Bounds
  <2>5. ShownAnalysisIsCurrent'
    BY <2>1 DEF IInv, ShownAnalysisIsCurrent
  <2>6. jobs' = [k \in Jobs |-> jobs'[k]]
    BY <1>1, <1>7
  <2>7. QED  BY <1>1, <1>4, <1>7, <2>1, <2>4, <2>5, <2>6, RowsStep
<1>8. QED  BY <1>5, <1>6, <1>7

-----------------------------------------------------------------------------
(* Steps of an execution.                                                  *)

\* The row of a worker whose lease holds runs, and its open step is known.
LEMMA OwnedRow ==
  ASSUME IInv, NEW t \in Tokens, worker[t].pc # "idle", Owns(t)
  PROVE  /\ worker[t].job \in Jobs /\ jobs[worker[t].job] \in Rows /\ RowOK(jobs[worker[t].job])
         /\ jobs[worker[t].job].status = "running" /\ jobs[worker[t].job].token = t
         /\ jobs[worker[t].job].active = IF worker[t].pc = "calling" THEN worker[t].step ELSE 0
         /\ worker[t].pc = "calling" => worker[t].step \in Steps
BY DEF IInv, TypeOK, Accounts, OpenStep, InOpenStep, Owns, OwnedBy

\* What a worker may write to the row it owns, and where that leaves it.
MayWrite(t, j, next, execution) ==
    /\ worker[t].pc # "idle" /\ Owns(t) /\ j = worker[t].job /\ j \in Jobs
    /\ Sound(jobs[j], next) /\ next.outcome = jobs[j].outcome
    /\ next.evidence = jobs[j].evidence /\ next.revision = jobs[j].revision
    /\ next.catalog \in {jobs[j].catalog, catalog}
    /\ next.status \in {"running", "queued", "failed"}
    /\ next.status = "running" => next.token = t
    /\ execution \in Executions
    /\ execution.pc # "idle" =>
          /\ execution.job = j
          /\ execution.pc = "calling" => execution.step \in Steps
          /\ next.active = IF execution.pc = "calling" THEN execution.step ELSE 0

\* The owner writes its row and goes on, or gives the row back and leaves.
LEMMA OwnerStep ==
  ASSUME IInv, NEW t \in Tokens, NEW j, NEW next, NEW execution,
         MayWrite(t, j, next, execution), jobs' = [jobs EXCEPT ![j] = next],
         UNCHANGED <<article, access, catalog, moves>>, faults' \in Nat,
         worker' = [worker EXCEPT ![t] = execution]
  PROVE  IInv' /\ OutputsKept
<1>1. /\ j \in Jobs /\ jobs[j].status = "running" /\ jobs[j].token = t
      /\ jobs \in [Jobs -> Rows] /\ worker \in [Tokens -> Executions]
  BY OwnedRow DEF IInv, TypeOK, MayWrite
<1>2. /\ worker' \in [Tokens -> Executions] /\ worker'[t] = execution
      /\ \A u \in Tokens : u # t => worker'[u] = worker[u]
  BY <1>1, WorkerMoves DEF MayWrite
<1>3. jobs'[j] = next /\ \A k \in Jobs : k # j => jobs'[k] = jobs[k]
  BY <1>1
<1>4. ASSUME NEW u \in Tokens, u # t
      PROVE  InOpenStep(u)'
  <2>1. worker'[u] = worker[u]
    BY <1>2, <1>4
  <2>2. \A k \in Jobs : \/ jobs'[k].status # "running"
                        \/ jobs'[k].token # u
                        \/ /\ jobs'[k].status = jobs[k].status
                           /\ jobs'[k].token = jobs[k].token
                           /\ jobs'[k].active = jobs[k].active
    BY <1>3, <1>4 DEF MayWrite
  <2>3. QED  BY <2>1, <2>2, OpenKept DEF IInv
<1>5. InOpenStep(t)'
  BY <1>2, <1>3 DEF MayWrite, InOpenStep, Owns, OwnedBy
<1>6. \A u \in Tokens : InOpenStep(u)'
  BY <1>4, <1>5
<1>7. jobs[j].status # "unused" /\ next.status # "unused" /\ Active(jobs[j])
  BY <1>1 DEF Active, MayWrite
<1>8. QED  BY <1>1, <1>2, <1>6, <1>7, RowStep DEF MayWrite

LEMMA LostStep ==
  ASSUME IInv, NEW t \in Tokens, Lost(t), UNCHANGED <<access, catalog, moves, faults>>
  PROVE  IInv' /\ OutputsKept
<1>1. faults' \in Nat
  BY DEF IInv, TypeOK
<1>2. QED  BY <1>1, LeaveStep DEF Lost

\* The next step to run is one of the steps.
LEMMA NextStepType == ASSUME NEW outputs  PROVE NextStep(outputs) \in {0} \cup Steps
<1> DEFINE missing == {s \in Steps : outputs[s] = "none"}
<1>1. missing \subseteq Nat
  BY StepsAreNumbers
<1>2. ASSUME missing # {}
      PROVE  Min(missing) \in missing
  <2>1. PICK m \in missing : \A s \in missing : ~ (<<s, m>> \in OpToRel(<, Nat))
    BY <1>1, <1>2, WFMin, NatLessThanWellFounded
  <2> HIDE DEF missing
  <2>2. \A s \in missing : ~ (s < m)
    BY <1>1, <2>1 DEF OpToRel
  <2>3. \A s \in missing : m <= s
    BY <1>1, <2>2
  <2>4. QED  BY <2>1, <2>3 DEF Min
<1>3. QED  BY <1>2 DEF NextStep

LEMMA ClaimStep ==
  ASSUME IInv, NEW j \in Jobs, Claim(j)
  PROVE  IInv' /\ OutputsKept
<1>1. PICK t \in Tokens : t = FreshToken
  BY DEF Claim, FreshToken
<1> DEFINE next == StartJob(jobs[j], t)
           execution == [Idle EXCEPT !.pc = "claimed", !.job = j]
<1>2. /\ jobs[j].status = "queued" /\ jobs' = [jobs EXCEPT ![j] = next]
      /\ worker' = [worker EXCEPT ![t] = execution]
      /\ UNCHANGED <<article, access, catalog, moves, faults>>
  BY <1>1 DEF Claim
<1>3. jobs \in [Jobs -> Rows] /\ jobs[j] \in Rows /\ RowOK(jobs[j]) /\ faults' \in Nat
      /\ worker \in [Tokens -> Executions]
  BY <1>2 DEF IInv, TypeOK, Accounts
<1>4. /\ Sound(jobs[j], next) /\ SameRequest(jobs[j], next) /\ next.status = "running"
      /\ next.token = t /\ next.active = 0
  BY <1>1, <1>2, <1>3, StartedRow
<1>5. execution \in Executions /\ execution.pc = "claimed" /\ execution.job = j
  BY IdleExecution DEF Executions
<1> HIDE DEF next, execution
<1>6. /\ worker' \in [Tokens -> Executions] /\ worker'[t] = execution
      /\ \A u \in Tokens : u # t => worker'[u] = worker[u]
  BY <1>1, <1>2, <1>3, <1>5, WorkerMoves
<1>7. jobs'[j] = next /\ \A k \in Jobs : k # j => jobs'[k] = jobs[k]
  BY <1>2, <1>3
<1>8. ASSUME NEW u \in Tokens, u # t
      PROVE  InOpenStep(u)'
  <2>1. \A k \in Jobs : \/ jobs'[k].status # "running"
                        \/ jobs'[k].token # u
                        \/ /\ jobs'[k].status = jobs[k].status
                           /\ jobs'[k].token = jobs[k].token
                           /\ jobs'[k].active = jobs[k].active
    BY <1>4, <1>7, <1>8
  <2>2. QED  BY <1>6, <1>8, <2>1, OpenKept DEF IInv
<1>9. InOpenStep(t)'
  BY <1>4, <1>5, <1>6, <1>7 DEF InOpenStep
<1>10. \A u \in Tokens : InOpenStep(u)'
  BY <1>8, <1>9
<1>11. jobs[j].status # "unused" /\ next.status # "unused" /\ Active(jobs[j])
  BY <1>2, <1>4 DEF Active
<1>12. QED  BY <1>2, <1>3, <1>4, <1>6, <1>10, <1>11, RowStep DEF SameRequest

LEMMA EndQueuedStep ==
  ASSUME IInv, NEW j \in Jobs, EndQueued(j)
  PROVE  IInv' /\ OutputsKept
<1> DEFINE outcome == ClaimOutcome(jobs[j])
<1>1. /\ Active(jobs[j]) /\ outcome # "none" /\ jobs' = Ended(j, outcome)
      /\ UNCHANGED <<article, access, catalog, worker, moves, faults>>
  BY DEF EndQueued, Active
<1>2. ~InStep(jobs[j])
  BY <1>1, InStepGoesOn
<1>3. outcome \in Outcomes /\ worker' \in [Tokens -> Executions]
  BY <1>1, OutcomeTypes DEF IInv, TypeOK
<1> HIDE DEF outcome
<1>4. QED  BY <1>1, <1>2, <1>3, EndedStep

LEMMA PrepareStep ==
  ASSUME IInv, NEW t \in Tokens, Prepare(t)
  PROVE  IInv' /\ OutputsKept
<1>1. CASE Lost(t)
  BY <1>1, LostStep DEF Prepare
<1>2. CASE Owns(t) /\ ~Lost(t)
  <2> DEFINE j == worker[t].job
             next == [jobs[j] EXCEPT !.catalog = catalog]
             execution == [worker[t] EXCEPT !.pc = "infer", !.catalog = catalog]
  <2>0. /\ jobs' = [jobs EXCEPT ![j].catalog = catalog]
        /\ worker' = [worker EXCEPT ![t].pc = "infer", ![t].catalog = catalog]
    BY <1>2 DEF Prepare
  <2>1. worker[t].pc = "claimed" /\ UNCHANGED <<article, access, catalog, moves, faults>>
    BY <1>2 DEF Prepare
  <2>2. /\ j \in Jobs /\ jobs[j] \in Rows /\ RowOK(jobs[j])
        /\ jobs[j].status = "running" /\ jobs[j].token = t /\ jobs[j].active = 0
    BY <1>2, <2>1, OwnedRow
  <2>3. /\ jobs \in [Jobs -> Rows] /\ worker \in [Tokens -> Executions]
        /\ worker[t] \in Executions /\ catalog \in Nat /\ faults' \in Nat
    BY <2>1 DEF IInv, TypeOK
  <2>4. /\ next \in Rows /\ next.status = jobs[j].status /\ next.attempts = jobs[j].attempts
        /\ next.deferrals = jobs[j].deferrals /\ next.active = jobs[j].active
        /\ next.outcome = jobs[j].outcome /\ next.error = jobs[j].error
        /\ next.steps = jobs[j].steps /\ next.token = jobs[j].token
        /\ next.evidence = jobs[j].evidence /\ next.revision = jobs[j].revision
        /\ next.catalog = catalog
    BY <2>2, <2>3 DEF Rows
  <2>5. execution \in Executions /\ execution.pc = "infer" /\ execution.job = j
    BY <2>3 DEF Executions
  <2>6. jobs' = [jobs EXCEPT ![j] = next] /\ worker' = [worker EXCEPT ![t] = execution]
    BY <2>0, <2>2, <2>3 DEF Executions
  <2>7. j = worker[t].job /\ worker[t].pc # "idle"
    BY <2>1
  <2> HIDE DEF j, next, execution
  <2>8. Sound(jobs[j], next)
    BY <2>2, <2>4, RowTouched
  <2>9. MayWrite(t, j, next, execution)
    BY <1>2, <2>2, <2>4, <2>5, <2>7, <2>8 DEF MayWrite
  <2>10. QED  BY <2>1, <2>3, <2>6, <2>9, OwnerStep
<1>3. QED  BY <1>1, <1>2 DEF Prepare

LEMMA ReuseStep ==
  ASSUME IInv, NEW t \in Tokens, Reuse(t)
  PROVE  IInv' /\ OutputsKept
<1> DEFINE w == worker[t]
           s == NextStep(w.outputs)
           output == jobs[w.job].steps[s].output
           execution == [w EXCEPT !.outputs[s] = output]
<1>1. /\ w.pc = "infer" /\ s # 0 /\ Owns(t) /\ worker' = [worker EXCEPT ![t].outputs[s] = output]
      /\ UNCHANGED <<article, access, catalog, jobs, moves, faults>>
  BY DEF Reuse
<1>2. s \in Steps
  BY <1>1, NextStepType
<1>3. w.job \in Jobs /\ jobs[w.job] \in Rows /\ jobs[w.job].active = 0
  BY <1>1, OwnedRow
<1>4. output \in Results \cup {"none"}
  BY <1>2, <1>3 DEF Rows, Entries
<1>5. worker \in [Tokens -> Executions] /\ w \in Executions /\ faults' \in Nat
  BY <1>1 DEF IInv, TypeOK
<1> HIDE DEF output, s
<1> DEFINE outputs == [w.outputs EXCEPT ![s] = output]
<1>6. outputs \in [Steps -> Results \cup {"none"}]
  BY <1>2, <1>4, <1>5 DEF Executions
<1>7. execution = [w EXCEPT !.outputs = outputs]
  BY <1>5 DEF Executions
<1>8. worker' = [worker EXCEPT ![t] = execution]
  BY <1>1, <1>5
<1> HIDE DEF outputs, execution
<1>9. execution \in Executions /\ execution.pc = "infer" /\ execution.job = w.job
  BY <1>1, <1>5, <1>6, <1>7 DEF Executions
<1>10. /\ worker' \in [Tokens -> Executions] /\ worker'[t] = execution
       /\ \A u \in Tokens : u # t => worker'[u] = worker[u]
  BY <1>5, <1>8, <1>9, WorkerMoves
<1>11. ASSUME NEW u \in Tokens
       PROVE  InOpenStep(u)'
  <2>1. CASE u = t
    BY <1>1, <1>3, <1>9, <1>10, <2>1 DEF InOpenStep
  <2>2. CASE u # t
    BY <1>1, <1>10, <2>2, OpenKept DEF IInv
  <2>3. QED  BY <2>1, <2>2
<1>12. QED  BY <1>1, <1>5, <1>10, <1>11, WorkerStep

\* Giving the row back, whatever is written to it.
LEMMA GiveBackStep ==
  ASSUME IInv, NEW t \in Tokens, worker[t].pc # "idle", Owns(t), NEW j, j = worker[t].job,
         NEW next, Sound(jobs[j], next), SameRequest(jobs[j], next),
         next.status \in {"queued", "failed"}, jobs' = [jobs EXCEPT ![j] = next],
         UNCHANGED <<article, access, catalog, moves>>, faults' \in Nat, Leave(t)
  PROVE  IInv' /\ OutputsKept
<1>1. j \in Jobs
  BY OwnedRow
<1>2. MayWrite(t, j, next, Idle)
  BY <1>1, IdleExecution DEF MayWrite, SameRequest
<1>3. QED  BY <1>2, OwnerStep DEF Leave

LEMMA StartStepStep ==
  ASSUME IInv, NEW t \in Tokens, StartStep(t)
  PROVE  IInv' /\ OutputsKept
<1> DEFINE w == worker[t]
           j == w.job
           s == NextStep(w.outputs)
           input == Digest(s, w.catalog)
           outcome == StepOutcome(jobs[j])
<1>1. w.pc = "infer" /\ s # 0 /\ UNCHANGED <<access, catalog, moves, faults>>
  BY DEF StartStep
<1>2. s \in Steps
  BY <1>1, NextStepType
<1>3. /\ jobs \in [Jobs -> Rows] /\ worker \in [Tokens -> Executions] /\ w \in Executions
      /\ faults' \in Nat /\ catalog \in Nat
  BY <1>1 DEF IInv, TypeOK
<1>4. CASE Lost(t)
  BY <1>1, <1>4, LostStep
<1>5. CASE Owns(t) /\ outcome # "none" /\ jobs' = Ended(j, outcome) /\ Leave(t) /\ UNCHANGED article
  <2>1. j \in Jobs /\ Active(jobs[j])
    BY <1>1, <1>5, OwnedRow DEF Active
  <2>2. ~InStep(jobs[j]) /\ outcome \in Outcomes
    BY <1>5, <2>1, InStepGoesOn, OutcomeTypes DEF IInv
  <2>3. /\ worker' \in [Tokens -> Executions]
        /\ \A u \in Tokens : worker'[u] = worker[u] \/ worker'[u].pc = "idle"
    BY <1>3, <1>5, IdleExecution, WorkerMoves DEF Leave
  <2> HIDE DEF j, outcome
  <2>4. QED  BY <1>1, <1>5, <2>1, <2>2, <2>3, EndedStep
<1>6. CASE /\ Owns(t) /\ ~Reusable(jobs[j].steps[s], input)
           /\ jobs' = [jobs EXCEPT ![j].steps[s] = RecordedStep(@, input),
                                   ![j].active = s, ![j].lease = "live"]
           /\ worker' = [worker EXCEPT ![t].pc = "calling", ![t].step = s]
           /\ UNCHANGED article
  <2> DEFINE next == Begun(jobs[j], s, input)
             execution == [w EXCEPT !.pc = "calling", !.step = s]
  <2>1. /\ j \in Jobs /\ jobs[j] \in Rows /\ RowOK(jobs[j])
        /\ jobs[j].status = "running" /\ jobs[j].token = t /\ jobs[j].active = 0
    BY <1>1, <1>6, OwnedRow
  <2>2. input \in Nat
    BY <1>3 DEF Digest, Executions
  <2>3. ~Reusable(jobs[j].steps[s], input) /\ j = w.job /\ Owns(t)
    BY <1>6
  <2>4. execution \in Executions /\ execution.pc = "calling" /\ execution.step = s
        /\ execution.job = j
    BY <1>2, <1>3 DEF Executions
  <2>5. worker' = [worker EXCEPT ![t] = execution]
    BY <1>3, <1>6 DEF Executions
  <2> HIDE DEF s, input, j
  <2>6. jobs' = [jobs EXCEPT ![j] = next]
    BY <1>3, <1>6, <2>1 DEF Begun, Rows
  <2>7. /\ Sound(jobs[j], next) /\ SameRequest(jobs[j], next) /\ next.status = "running"
        /\ next.token = jobs[j].token /\ next.active = s
    BY <1>2, <2>1, <2>2, <2>3, BegunRow
  <2> HIDE DEF next, execution
  <2>8. MayWrite(t, j, next, execution)
    BY <1>1, <1>2, <2>1, <2>3, <2>4, <2>7 DEF MayWrite, SameRequest
  <2>9. UNCHANGED <<article, access, catalog, moves>>
    BY <1>1, <1>6
  <2>10. QED  BY <1>3, <2>5, <2>6, <2>8, <2>9, OwnerStep
<1>7. QED  BY <1>4, <1>5, <1>6 DEF StartStep

LEMMA CompleteStepStep ==
  ASSUME IInv, NEW t \in Tokens, CompleteStep(t)
  PROVE  IInv' /\ OutputsKept
<1> DEFINE w == worker[t]
           j == w.job
           s == w.step
<1>1. w.pc = "calling" /\ UNCHANGED <<access, catalog, moves, faults>>
  BY DEF CompleteStep
<1>2. /\ jobs \in [Jobs -> Rows] /\ worker \in [Tokens -> Executions] /\ w \in Executions
      /\ faults' \in Nat
  BY <1>1 DEF IInv, TypeOK
<1>3. CASE Lost(t)
  BY <1>1, <1>3, LostStep
<1>4. ASSUME Owns(t), UNCHANGED article, NEW output \in StepResults(s),
             jobs' = [jobs EXCEPT ![j].steps[s].status = "succeeded",
                                  ![j].steps[s].output = output, ![j].active = 0],
             worker' = [worker EXCEPT ![t].pc = "infer", ![t].step = 0,
                                      ![t].outputs[s] = output]
      PROVE  IInv' /\ OutputsKept
  <2> DEFINE next == Completed(jobs[j], s, output)
             outputs == [w.outputs EXCEPT ![s] = output]
             execution == [w EXCEPT !.pc = "infer", !.step = 0, !.outputs = outputs]
  <2>1. /\ j \in Jobs /\ jobs[j] \in Rows /\ RowOK(jobs[j]) /\ s \in Steps
        /\ jobs[j].status = "running" /\ jobs[j].token = t /\ jobs[j].active = s
    BY <1>1, <1>4, OwnedRow
  <2>2. output \in Results
    BY <1>4 DEF StepResults
  <2>3. outputs \in [Steps -> Results \cup {"none"}]
    BY <1>2, <2>1, <2>2 DEF Executions
  <2>4. worker' = [worker EXCEPT ![t] = execution]
    BY <1>2, <1>4, <2>1 DEF Executions
  <2>5. jobs[j].steps \in [Steps -> Entries] /\ jobs[j].steps[s] \in Entries
    BY <2>1 DEF Rows
  <2>6. jobs' = [jobs EXCEPT ![j] = next]
    <3> HIDE DEF j, s
    <3>1. QED  BY <1>2, <1>4, <2>1, <2>5 DEF Completed, Rows, Entries
  <2> HIDE DEF outputs
  <2>7. execution \in Executions /\ execution.pc = "infer" /\ execution.job = j
    BY <1>2, <2>3 DEF Executions
  <2>8. j = w.job /\ w.pc # "idle"
    BY <1>1
  <2> HIDE DEF j, s
  <2>9. /\ Sound(jobs[j], next) /\ SameRequest(jobs[j], next) /\ next.status = "running"
        /\ next.token = jobs[j].token /\ next.active = 0
    BY <2>1, <2>2, CompletedRow
  <2> HIDE DEF next, execution
  <2>10. MayWrite(t, j, next, execution)
    BY <1>4, <2>1, <2>7, <2>8, <2>9 DEF MayWrite, SameRequest
  <2>11. UNCHANGED <<article, access, catalog, moves>>
    BY <1>1, <1>4
  <2>12. QED  BY <1>2, <2>4, <2>6, <2>10, <2>11, OwnerStep
<1>5. QED  BY <1>3, <1>4 DEF CompleteStep

LEMMA FailStepStep ==
  ASSUME IInv, NEW t \in Tokens, FailStep(t)
  PROVE  IInv' /\ OutputsKept
<1> DEFINE j == worker[t].job
           s == worker[t].step
<1>1. /\ worker[t].pc = "calling" /\ Owns(t) /\ Leave(t)
      /\ UNCHANGED <<article, access, catalog, moves, faults>>
  BY DEF FailStep
<1>2. \/ jobs' = [jobs EXCEPT ![j] = StepDeferred(jobs[j], s)]
      \/ \E retryable \in BOOLEAN : jobs' = [jobs EXCEPT ![j] = StepFailed(jobs[j], s, retryable)]
  BY DEF FailStep
<1>3. /\ j \in Jobs /\ jobs[j] \in Rows /\ RowOK(jobs[j]) /\ s \in Steps
      /\ jobs[j].status = "running" /\ jobs[j].active = s
  BY <1>1, OwnedRow
<1>4. j = worker[t].job /\ worker[t].pc # "idle" /\ faults' \in Nat
  BY <1>1 DEF IInv, TypeOK
<1> HIDE DEF j, s
<1>5. ASSUME NEW next, Sound(jobs[j], next), SameRequest(jobs[j], next),
             next.status \in {"queued", "failed"}, jobs' = [jobs EXCEPT ![j] = next]
      PROVE  IInv' /\ OutputsKept
  BY <1>1, <1>4, <1>5, GiveBackStep
<1>6. CASE jobs' = [jobs EXCEPT ![j] = StepDeferred(jobs[j], s)]
  <2> DEFINE next == StepDeferred(jobs[j], s)
  <2>1. Sound(jobs[j], next) /\ SameRequest(jobs[j], next) /\ next.status = "queued"
    BY <1>3, DeferredRow
  <2> HIDE DEF next
  <2>2. QED  BY <1>5, <1>6, <2>1 DEF next
<1>7. ASSUME NEW retryable \in BOOLEAN,
             jobs' = [jobs EXCEPT ![j] = StepFailed(jobs[j], s, retryable)]
      PROVE  IInv' /\ OutputsKept
  <2> DEFINE next == StepFailed(jobs[j], s, retryable)
  <2>1. /\ Sound(jobs[j], next) /\ SameRequest(jobs[j], next)
        /\ next.status \in {"queued", "failed"}
    BY <1>3, FailedStepRow
  <2> HIDE DEF next
  <2>2. QED  BY <1>5, <1>7, <2>1 DEF next
<1>8. QED  BY <1>2, <1>6, <1>7

\* A row fails between its steps.
LEMMA RowFailedStep ==
  ASSUME IInv, NEW t \in Tokens, worker[t].pc \in {"claimed", "infer", "applying"}, Owns(t),
         NEW retryable \in BOOLEAN,
         jobs' = [jobs EXCEPT ![worker[t].job] = RowFailed(jobs[worker[t].job], retryable)],
         UNCHANGED <<article, access, catalog, moves>>, faults' \in Nat, Leave(t)
  PROVE  IInv' /\ OutputsKept
<1> DEFINE j == worker[t].job
           next == RowFailed(jobs[j], retryable)
<1>1. /\ j \in Jobs /\ jobs[j] \in Rows /\ RowOK(jobs[j])
      /\ jobs[j].status = "running" /\ jobs[j].active = 0
  BY OwnedRow
<1>2. j = worker[t].job /\ worker[t].pc # "idle" /\ jobs' = [jobs EXCEPT ![j] = next]
  OBVIOUS
<1> HIDE DEF j
<1>3. /\ Sound(jobs[j], next) /\ SameRequest(jobs[j], next)
      /\ next.status \in {"queued", "failed"}
  BY <1>1, FailedRow
<1> HIDE DEF next
<1>4. QED  BY <1>2, <1>3, GiveBackStep

LEMMA FailOutsideStep ==
  ASSUME IInv, NEW t \in Tokens, FailOutside(t)
  PROVE  IInv' /\ OutputsKept
<1>1. /\ worker[t].pc \in {"claimed", "infer", "applying"} /\ Owns(t) /\ Leave(t)
      /\ UNCHANGED <<article, access, catalog, moves>>
      /\ \E retryable \in BOOLEAN :
            jobs' = [jobs EXCEPT ![worker[t].job] = RowFailed(jobs[worker[t].job], retryable)]
  BY DEF FailOutside
<1>2. faults \in Nat /\ faults' \in {faults, faults + 1}
  BY DEF FailOutside, IInv, TypeOK
<1>3. faults' \in Nat
  BY <1>2
<1>4. QED  BY <1>1, <1>3, RowFailedStep

LEMMA ReadStep ==
  ASSUME IInv, NEW t \in Tokens, ReadInputs(t)
  PROVE  IInv' /\ OutputsKept
<1> DEFINE execution == [worker[t] EXCEPT !.pc = "applying", !.catalog = catalog,
                                          !.evidence = article.evidence]
<1>1. /\ worker[t].pc = "infer" /\ UNCHANGED <<article, access, catalog, jobs, moves, faults>>
      /\ worker' = [worker EXCEPT ![t].pc = "applying", ![t].catalog = catalog,
                                  ![t].evidence = article.evidence]
  BY DEF ReadInputs
<1>2. /\ worker \in [Tokens -> Executions] /\ worker[t] \in Executions /\ catalog \in Nat
      /\ article.evidence \in Nat /\ faults' \in Nat
  BY <1>1 DEF IInv, TypeOK, Articles
<1>3. execution \in Executions /\ execution.pc = "applying" /\ execution.job = worker[t].job
  BY <1>2 DEF Executions
<1>4. worker' = [worker EXCEPT ![t] = execution]
  BY <1>1, <1>2 DEF Executions
<1> HIDE DEF execution
<1>5. /\ worker' \in [Tokens -> Executions] /\ worker'[t] = execution
      /\ \A u \in Tokens : u # t => worker'[u] = worker[u]
  BY <1>2, <1>3, <1>4, WorkerMoves
<1>6. UNCHANGED jobs
  BY <1>1
<1>7. InOpenStep(t)
  BY DEF IInv, OpenStep
<1>8. InOpenStep(t)'
  <2>1. worker[t].pc = "infer"
    BY <1>1
  <2>2. QED  BY <1>3, <1>5, <1>6, <1>7, <2>1 DEF InOpenStep, Owns, OwnedBy
<1>9. ASSUME NEW u \in Tokens
      PROVE  InOpenStep(u)'
  BY <1>5, <1>6, <1>8, OpenKept DEF IInv
<1>10. QED  BY <1>1, <1>2, <1>5, <1>9, WorkerStep

\* The row that is applied was in step with the article, and stays so: what it
\* was asked about is what it answers.
LEMMA AppliedStep ==
  ASSUME IInv, NEW t \in Tokens, worker[t].pc = "applying", Owns(t), ApplyOutcome = "none",
         NEW j, j = worker[t].job, jobs[j].catalog = catalog, Applicable(jobs[j]),
         NEW outcome \in {"applied", "insufficient_evidence"}, NEW result \in Results,
         jobs' = Finished(jobs, j, outcome, result),
         NEW a \in {article, Analysed(jobs[j])}, article' \in Policy(a, jobs'[j]),
         outcome = "applied" => a = Analysed(jobs[j]),
         Leave(t), UNCHANGED <<access, catalog, moves, faults>>
  PROVE  IInv' /\ OutputsKept
<1>1. /\ j \in Jobs /\ jobs[j] \in Rows /\ Active(jobs[j])
      /\ article \in Articles /\ jobs \in [Jobs -> Rows] /\ worker \in [Tokens -> Executions]
  BY OwnedRow DEF IInv, TypeOK, Active
<1>2. jobs[j].evidence = article.evidence /\ jobs[j].revision = article.revision
  BY DEF Applicable, SameInputs
<1>3. /\ a \in Articles /\ a.evidence = article.evidence /\ a.revision = article.revision
      /\ a.analysed \in {0, article.evidence}
      /\ outcome = "applied" => a.analysed = jobs[j].evidence
  <2>1. CASE a = article
    BY <1>1, <1>2, <2>1 DEF IInv, ShownAnalysisIsCurrent, Analysed, Articles
  <2>2. CASE a = Analysed(jobs[j])
    BY <1>1, <1>2, <2>2 DEF Analysed, Articles
  <2>3. QED  BY <2>1, <2>2
<1>4. /\ article' \in Articles /\ article'.evidence = article.evidence
      /\ article'.analysed = a.analysed
      /\ article'.review = "pending" => article'.revision = article.revision
  BY <1>3, PolicyTypes
<1>5. PICK last \in Jobs : Answered(last)
  BY DEF IInv, Requests
<1>6. Ends(jobs, last) /\ j = last
  BY <1>1, <1>5, ActiveIsLast DEF Answered
<1>7. /\ jobs' \in [Jobs -> Rows] /\ Ends(jobs', last)
      /\ Sound(jobs[j], jobs'[j]) /\ jobs'[j].status = "succeeded" /\ jobs'[j].outcome = outcome
      /\ jobs'[j].evidence = jobs[j].evidence /\ jobs'[j].revision = jobs[j].revision
      /\ jobs'[j].catalog = jobs[j].catalog
      /\ \A k \in Jobs : k # j => jobs'[k] = jobs[k]
  <2>1. outcome \in Outcomes /\ outcome # "none"
    BY DEF Outcomes
  <2> DEFINE rows == Finished(jobs, j, outcome, result)
  <2>2. /\ rows \in [Jobs -> Rows] /\ Ends(rows, last)
        /\ Sound(jobs[j], rows[j]) /\ rows[j].status = "succeeded" /\ rows[j].outcome = outcome
        /\ rows[j].evidence = jobs[j].evidence /\ rows[j].revision = jobs[j].revision
        /\ rows[j].catalog = jobs[j].catalog
        /\ \A k \in Jobs : k # j => rows[k] = jobs[k]
    BY <1>1, <1>6, <2>1, FinishedRows
  <2>3. jobs' = rows
    OBVIOUS
  <2> HIDE DEF rows
  <2>4. QED  BY <2>2, <2>3
<1>8. access = "open"
  BY DEF ApplyOutcome, IInv, TypeOK
<1>9. InStep(jobs[j])'
  BY <1>2, <1>3, <1>4, <1>7, <1>8 DEF InStep, Hidden, Active
<1>10. Answered(last)'
  BY <1>4, <1>5, <1>6, <1>7, <1>9 DEF Answered
<1>11. Requests'
  BY <1>4, <1>10 DEF Requests, Bounds, IInv
<1>12. ShownAnalysisIsCurrent'
  BY <1>3, <1>4 DEF ShownAnalysisIsCurrent
<1>13. \A k \in Jobs : \/ jobs'[k] = jobs[k]
                       \/ Sound(jobs[k], jobs'[k]) /\ jobs'[k].status # "running"
  BY <1>7
<1>14. /\ worker' \in [Tokens -> Executions]
       /\ \A u \in Tokens : worker'[u] = worker[u] \/ worker'[u].pc = "idle"
  BY <1>1, IdleExecution, WorkerMoves DEF Leave
<1>15. jobs' = [k \in Jobs |-> jobs'[k]]
  BY <1>7
<1>16. access' \in {"open", "unapproved", "aged"} /\ catalog' \in Nat /\ moves' \in Nat
       /\ faults' \in Nat
  BY DEF IInv, TypeOK
<1>17. QED  BY <1>4, <1>11, <1>12, <1>13, <1>14, <1>15, <1>16, RowsStep

LEMMA ApplyStep ==
  ASSUME IInv, NEW t \in Tokens, Apply(t)
  PROVE  IInv' /\ OutputsKept
<1> DEFINE w == worker[t]
           j == w.job
           changed == article.evidence # w.evidence \/ catalog # w.catalog
<1>1. w.pc = "applying" /\ UNCHANGED <<access, catalog, moves, faults>>
  BY DEF Apply
<1>2. /\ jobs \in [Jobs -> Rows] /\ worker \in [Tokens -> Executions] /\ w \in Executions
      /\ faults' \in Nat
  BY <1>1 DEF IInv, TypeOK
<1>3. Owns(t) => j \in Jobs /\ Active(jobs[j]) /\ jobs[j].active = 0
  BY <1>1, OwnedRow DEF Active
<1>4. CASE Lost(t)
  BY <1>1, <1>4, LostStep
<1>5. ASSUME Owns(t), NEW outcome \in Outcomes, outcome # "none", ~InStep(jobs[j]),
             jobs' = Ended(j, outcome), Leave(t), UNCHANGED article
      PROVE  IInv' /\ OutputsKept
  <2>1. /\ worker' \in [Tokens -> Executions]
        /\ \A u \in Tokens : worker'[u] = worker[u] \/ worker'[u].pc = "idle"
    BY <1>2, <1>5, IdleExecution, WorkerMoves DEF Leave
  <2> HIDE DEF j
  <2>2. QED  BY <1>1, <1>3, <1>5, <2>1, EndedStep
<1>6. CASE Owns(t) /\ ApplyOutcome # "none" /\ jobs' = Ended(j, ApplyOutcome) /\ Leave(t)
           /\ UNCHANGED article
  <2>1. ApplyOutcome \in Outcomes /\ ~InStep(jobs[j])
    BY <1>3, <1>6, OutcomeTypes, InStepGoesOn DEF IInv
  <2>2. QED  BY <1>5, <1>6, <2>1
<1>7. CASE /\ Owns(t)
           /\ worker' = [worker EXCEPT ![t].pc = "infer", ![t].tries = @ + 1, ![t].evidence = 0]
           /\ UNCHANGED <<article, jobs>>
  <2> DEFINE execution == [w EXCEPT !.pc = "infer", !.tries = w.tries + 1, !.evidence = 0]
  <2>1. w.tries + 1 \in Nat
    BY <1>2 DEF Executions
  <2>2. execution \in Executions /\ execution.pc = "infer" /\ execution.job = j
    BY <1>2, <2>1 DEF Executions
  <2>3. worker' = [worker EXCEPT ![t] = execution]
    BY <1>2, <1>7 DEF Executions
  <2> HIDE DEF execution
  <2>4. /\ worker' \in [Tokens -> Executions] /\ worker'[t] = execution
        /\ \A u \in Tokens : u # t => worker'[u] = worker[u]
    BY <1>2, <2>2, <2>3, WorkerMoves
  <2>5. UNCHANGED jobs
    BY <1>7
  <2>6. InOpenStep(t)'
    BY <1>3, <1>7, <2>2, <2>4, <2>5 DEF InOpenStep
  <2>7. ASSUME NEW u \in Tokens
        PROVE  InOpenStep(u)'
    BY <2>4, <2>5, <2>6, OpenKept DEF IInv
  <2>8. QED  BY <1>1, <1>2, <1>7, <2>4, <2>7, WorkerStep
<1>8. CASE Owns(t) /\ jobs' = [jobs EXCEPT ![j] = RowFailed(jobs[j], TRUE)] /\ Leave(t)
           /\ UNCHANGED article
  BY <1>1, <1>2, <1>8, RowFailedStep
<1>9. CASE /\ Owns(t) /\ (jobs[j].catalog # catalog \/ ~Applicable(jobs[j]))
           /\ jobs' = Ended(j, "superseded") /\ Leave(t) /\ UNCHANGED article
  <2>1. ~InStep(jobs[j])
    BY <1>3, <1>9, InStepGoesOn DEF Applicable
  <2>2. "superseded" \in Outcomes
    BY DEF Outcomes
  <2>3. QED  BY <1>5, <1>9, <2>1, <2>2
<1>10. CASE /\ Owns(t) /\ ApplyOutcome = "none" /\ jobs[j].catalog = catalog
            /\ Applicable(jobs[j]) /\ Leave(t)
            /\ \/ /\ jobs' = Finished(jobs, j, "applied", Result(w.outputs))
                  /\ article' \in Policy(Analysed(jobs[j]), jobs'[j])
               \/ /\ jobs' = Finished(jobs, j, "insufficient_evidence", Result(w.outputs))
                  /\ article' \in Policy(article, jobs'[j])
  <2> DEFINE result == Result(w.outputs)
  <2>1. result \in Results
    BY DEF Result, Results
  <2>2. j = worker[t].job
    OBVIOUS
  <2>3. \E a \in {article, Analysed(jobs[j])}, outcome \in {"applied", "insufficient_evidence"} :
           /\ outcome = "applied" => a = Analysed(jobs[j])
           /\ jobs' = Finished(jobs, j, outcome, result) /\ article' \in Policy(a, jobs'[j])
    BY <1>10
  <2> HIDE DEF j, result
  <2>4. QED  BY <1>1, <1>10, <2>1, <2>2, <2>3, AppliedStep
<1>11. QED  BY <1>4, <1>6, <1>7, <1>8, <1>9, <1>10 DEF Apply

-----------------------------------------------------------------------------
(* Faults, time and recovery.                                              *)

LEMMA DieStep ==
  ASSUME IInv, NEW t \in Tokens, Die(t)
  PROVE  IInv' /\ OutputsKept
<1>1. faults' \in Nat
  BY DEF Die, IInv, TypeOK
<1>2. QED  BY <1>1, LeaveStep DEF Die

\* A row moves while its execution, if any, stays where it was: it is not
\* running any more, or nobody's lease changes hands.
LEMMA TimeStep ==
  ASSUME IInv, NEW j \in Jobs, jobs[j].status # "unused", NEW next, Sound(jobs[j], next),
         SameRequest(jobs[j], next), next.status # "unused", Active(next) => Active(jobs[j]),
         \/ next.status # "running"
         \/ /\ next.status = jobs[j].status /\ next.token = jobs[j].token
            /\ next.active = jobs[j].active,
         jobs' = [jobs EXCEPT ![j] = next],
         UNCHANGED <<article, access, catalog, worker, moves>>, faults' \in Nat
  PROVE  IInv' /\ OutputsKept
<1>1. jobs \in [Jobs -> Rows] /\ worker' \in [Tokens -> Executions]
  BY DEF IInv, TypeOK
<1>2. jobs'[j] = next /\ \A k \in Jobs : k # j => jobs'[k] = jobs[k]
  BY <1>1
<1>3. ASSUME NEW t \in Tokens
      PROVE  InOpenStep(t)'
  BY <1>2, OpenKept DEF IInv
<1>4. QED  BY <1>1, <1>3, RowStep DEF SameRequest

LEMMA ExpireStep ==
  ASSUME IInv, NEW j \in Jobs, ExpireLease(j)
  PROVE  IInv' /\ OutputsKept
<1> DEFINE next == [jobs[j] EXCEPT !.lease = "expired"]
<1>1. /\ jobs[j].status = "running" /\ jobs' = [jobs EXCEPT ![j].lease = "expired"]
      /\ UNCHANGED <<article, access, catalog, worker, moves>>
  BY DEF ExpireLease
<1>2. jobs[j] \in Rows /\ RowOK(jobs[j]) /\ jobs \in [Jobs -> Rows]
  BY DEF IInv, TypeOK, Accounts
<1>3. faults' \in Nat
  BY DEF ExpireLease, IInv, TypeOK
<1>4. jobs' = [jobs EXCEPT ![j] = next]
  BY <1>1, <1>2
<1>5. /\ next \in Rows /\ next.status = jobs[j].status /\ next.attempts = jobs[j].attempts
      /\ next.deferrals = jobs[j].deferrals /\ next.active = jobs[j].active
      /\ next.outcome = jobs[j].outcome /\ next.error = jobs[j].error
      /\ next.steps = jobs[j].steps /\ next.token = jobs[j].token
      /\ SameRequest(jobs[j], next)
  BY <1>2 DEF Rows, Leases, SameRequest
<1> HIDE DEF next
<1>6. Sound(jobs[j], next)
  BY <1>2, <1>5, RowTouched
<1>7. QED  BY <1>1, <1>3, <1>4, <1>5, <1>6, TimeStep DEF Active

LEMMA DueStep ==
  ASSUME IInv, NEW j \in Jobs, BecomeDue(j)
  PROVE  IInv' /\ OutputsKept
<1> DEFINE next == [jobs[j] EXCEPT !.available = "due"]
<1>1. /\ jobs[j].status = "queued" /\ jobs' = [jobs EXCEPT ![j].available = "due"]
      /\ UNCHANGED <<article, access, catalog, worker, moves, faults>>
  BY DEF BecomeDue
<1>2. jobs[j] \in Rows /\ RowOK(jobs[j]) /\ jobs \in [Jobs -> Rows] /\ faults' \in Nat
  BY <1>1 DEF IInv, TypeOK, Accounts
<1>3. jobs' = [jobs EXCEPT ![j] = next]
  BY <1>1, <1>2
<1>4. /\ next \in Rows /\ next.status = jobs[j].status /\ next.attempts = jobs[j].attempts
      /\ next.deferrals = jobs[j].deferrals /\ next.active = jobs[j].active
      /\ next.outcome = jobs[j].outcome /\ next.error = jobs[j].error
      /\ next.steps = jobs[j].steps /\ SameRequest(jobs[j], next)
  BY <1>2 DEF Rows, Availability, SameRequest
<1> HIDE DEF next
<1>5. Sound(jobs[j], next)
  BY <1>2, <1>4, RowTouched
<1>6. QED  BY <1>1, <1>2, <1>3, <1>4, <1>5, TimeStep DEF Active

LEMMA RecoverStep ==
  ASSUME IInv, NEW j \in Jobs, Recover(j)
  PROVE  IInv' /\ OutputsKept
<1> DEFINE next == IF jobs[j].active # 0 THEN StepFailed(jobs[j], jobs[j].active, TRUE)
                                         ELSE RowFailed(jobs[j], TRUE)
<1>1. /\ jobs[j].status = "running" /\ jobs' = [jobs EXCEPT ![j] = next]
      /\ UNCHANGED <<article, access, catalog, worker, moves, faults>>
  BY DEF Recover
<1>2. jobs[j] \in Rows /\ RowOK(jobs[j]) /\ faults' \in Nat
  BY <1>1 DEF IInv, TypeOK, Accounts
<1>3. /\ Sound(jobs[j], next) /\ SameRequest(jobs[j], next)
      /\ next.status \in {"queued", "failed"}
  <2>1. CASE jobs[j].active # 0
    <3>1. jobs[j].active \in Steps
      BY <1>2, <2>1, RowTypes
    <3>2. QED  BY <1>1, <1>2, <2>1, <3>1, FailedStepRow
  <2>2. CASE jobs[j].active = 0
    BY <1>1, <1>2, <2>2, FailedRow
  <2>3. QED  BY <2>1, <2>2
<1> HIDE DEF next
<1>4. QED  BY <1>1, <1>2, <1>3, TimeStep DEF Active

-----------------------------------------------------------------------------
(* The theorems.                                                           *)

LEMMA StepKeeps ==
  ASSUME IInv, Next
  PROVE  IInv' /\ OutputsKept
<1>1. CASE NewEvidence
  BY <1>1, EvidenceStep
<1>2. CASE Edit \/ Decide \/ CatalogChanges \/ AccessChanges
  BY <1>2, EditStep, MoveStep
<1>3. CASE RetryFailed
  BY <1>3, RetryStep
<1>4. CASE Reconsider
  BY <1>4, ReconsiderStep
<1>5. ASSUME NEW j \in Jobs,
             Claim(j) \/ EndQueued(j) \/ ExpireLease(j) \/ Recover(j) \/ BecomeDue(j)
      PROVE  IInv' /\ OutputsKept
  BY <1>5, ClaimStep, EndQueuedStep, ExpireStep, RecoverStep, DueStep
<1>6. ASSUME NEW t \in Tokens, Execute(t)
      PROVE  IInv' /\ OutputsKept
  BY <1>6, PrepareStep, ReuseStep, StartStepStep, CompleteStepStep, FailStepStep,
     FailOutsideStep, ReadStep, ApplyStep DEF Execute
<1>7. ASSUME NEW t \in Tokens, Die(t)
      PROVE  IInv' /\ OutputsKept
  BY <1>7, DieStep
<1>8. QED  BY <1>1, <1>2, <1>3, <1>4, <1>5, <1>6, <1>7 DEF Next

LEMMA StutterKeeps ==
  ASSUME IInv, UNCHANGED vars
  PROVE  IInv' /\ OutputsKept
<1>1. /\ UNCHANGED <<article, access, catalog, jobs, moves>> /\ faults' \in Nat
      /\ worker' \in [Tokens -> Executions] /\ \A t \in Tokens : worker'[t] = worker[t]
  BY DEF vars, IInv, TypeOK
<1>2. \A t \in Tokens : InOpenStep(t)'
  BY <1>1, OpenKept DEF IInv
<1>3. QED  BY <1>1, <1>2, WorkerStep

\* The invariant, with everything the properties rest on.
THEOREM Invariant == Spec => []IInv
<1>1. Init => IInv
  BY InitStep
<1>2. IInv /\ [Next]_vars => IInv'
  BY StepKeeps, StutterKeeps
<1>3. QED  BY <1>1, <1>2, PTL DEF Spec

\* Rows, executions and the article keep their types, whoever writes them.
THEOREM TypeCorrect == Spec => []TypeOK
<1>1. IInv => TypeOK
  BY DEF IInv
<1>2. QED  BY <1>1, Invariant, PTL

\* No interleaving of enrichment, editor and late workers leaves an article
\* showing what was drawn from other evidence (apply_analysis, SameInputs).
THEOREM ShownIsCurrent == Spec => []ShownAnalysisIsCurrent
<1>1. IInv => ShownAnalysisIsCurrent
  BY DEF IInv
<1>2. QED  BY <1>1, Invariant, PTL

\* No specialist is tried beyond its budget and its pauses, however many
\* workers, deaths and recoveries share the attempts (record_step, fail_step).
THEOREM StepsAreBounded == Spec => []StepBudget
<1>1. IInv => StepBudget
  BY DEF IInv, Accounts, RowOK, StepOK, StepBudget
<1>2. QED  BY <1>1, Invariant, PTL

\* A row given up as retried out had its attempts, pauses aside: the ledger of
\* the step that failed last cannot run ahead of the row's (fail_analysis).
THEOREM GivenUpIsSpent == Spec => []GivenUpOnlyWhenSpent
<1>1. IInv => GivenUpOnlyWhenSpent
  BY DEF IInv, Accounts, RowOK, GivenUpOnlyWhenSpent
<1>2. QED  BY <1>1, Invariant, PTL

\* Requests never outnumber what there was to ask about: no loop of enrichment,
\* supersession and automation creates rows of its own (request_analysis).
THEOREM RequestsAreAnswers == Spec => []RequestsAnswerChanges
<1>1. IInv => RequestsAnswerChanges
  <2> SUFFICES ASSUME IInv, NEW j \in Jobs, jobs[j].status # "unused"
               PROVE  j <= article.evidence + moves
    BY DEF RequestsAnswerChanges
  <2>1. PICK last \in Jobs : Answered(last)
    BY DEF IInv, Requests
  <2>2. j <= last /\ last <= article.evidence + moves
    BY <2>1 DEF Answered, Ends
  <2>3. QED  BY <2>2, JobsAreNumbers, AnalysisAssumption DEF IInv, Requests, Bounds
<1>2. QED  BY <1>1, Invariant, PTL

\* A valid output of a specialist is only given up with its row, or for a
\* call in another context (infer, start_step, preserve_analysis_steps).
THEOREM OutputsAreKept == Spec => OutputsSurvive
<1>1. IInv /\ [Next]_vars => [OutputsKept]_vars
  BY StepKeeps, StutterKeeps
<1>2. OutputsKept
        <=> \A j \in Jobs, s \in Steps :
              (/\ jobs[j].steps[s].status = "succeeded" /\ jobs'[j].steps[s].status # "succeeded"
               /\ ~Terminal(jobs'[j]))
                 => jobs'[j].steps[s].input # jobs[j].steps[s].input
  BY DEF OutputsKept, Survives
<1>3. QED  BY <1>1, <1>2, Invariant, PTL DEF Spec, OutputsSurvive

\* Once a person has rejected or published an article, nothing but a person
\* changes that, and no analysis writes to it (start_step, apply, apply_analysis).
THEOREM DecisionsAreKept == Spec => DecisionsStand
<1> DEFINE Decided == article.review = "rejected" \/ article.publication = "published"
           Stands == Decided /\ moves' = moves
                        => /\ article'.review = article.review
                           /\ article'.publication = article.publication
                           /\ article'.analysed \in {article.analysed, 0}
<1>1. ASSUME IInv, Next
      PROVE  Stands
  <2>1. article \in Articles /\ moves \in Nat /\ access \in {"open", "unapproved", "aged"}
    BY <1>1 DEF IInv, TypeOK
  <2>2. CASE NewEvidence
    <3>1. article.publication = "unpublished" /\ article' = Invalidated(article)
      BY <2>2 DEF NewEvidence
    <3>2. QED  BY <2>1, <3>1 DEF Invalidated, Articles
  <2>3. CASE moves' = moves + 1
    BY <2>1, <2>3
  <2>4. CASE Reconsider
    BY <2>4 DEF Reconsider
  <2>5. CASE UNCHANGED article
    BY <2>5
  <2>6. ASSUME NEW t \in Tokens, Apply(t), ~ UNCHANGED article
        PROVE  Stands
    <3>1. ApplyOutcome = "none" /\ Applicable(jobs[worker[t].job])
      BY <2>6 DEF Apply, Lost
    <3>2. ~Decided
      BY <2>1, <3>1 DEF ApplyOutcome, Applicable, SameInputs
    <3>3. QED  BY <3>2
  <2>7. ASSUME NEW t \in Tokens, Execute(t), ~Apply(t)
        PROVE  UNCHANGED article
    BY <2>7 DEF Execute, Prepare, Reuse, StartStep, CompleteStep, FailStep, FailOutside,
                ReadInputs, Lost
  <2>8. ASSUME NEW j \in Jobs,
               Claim(j) \/ EndQueued(j) \/ ExpireLease(j) \/ Recover(j) \/ BecomeDue(j)
        PROVE  UNCHANGED article
    BY <2>8 DEF Claim, EndQueued, ExpireLease, Recover, BecomeDue
  <2>9. CASE Edit \/ Decide \/ CatalogChanges \/ AccessChanges \/ RetryFailed
    BY <2>3, <2>9 DEF Edit, Decide, CatalogChanges, AccessChanges, RetryFailed
  <2>10. ASSUME NEW t \in Tokens, Die(t)
         PROVE  UNCHANGED article
    BY <2>10 DEF Die
  <2> HIDE DEF Stands
  <2>11. QED  BY <1>1, <2>2, <2>4, <2>5, <2>6, <2>7, <2>8, <2>9, <2>10 DEF Next
<1>2. IInv /\ [Next]_vars => [Stands]_vars
  BY <1>1
<1>3. QED  BY <1>2, Invariant, PTL DEF Spec, DecisionsStand

=============================================================================
