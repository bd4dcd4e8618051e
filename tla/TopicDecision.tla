--------------------------- MODULE TopicDecision ----------------------------
(***************************************************************************)
(* The bounded decision about one topic proposal: its durable budget       *)
(* (topic_decision_budget.py), its execution in checkpointed stages        *)
(* (topic_decisions.py, topic_decision_tasks.py), and the operators who    *)
(* review, edit, retry, delete or grant it more budget meanwhile.          *)
(*                                                                         *)
(* Every paid call is three steps: a transaction that reserves its cost,   *)
(* the call itself outside any lock, and a transaction that settles the    *)
(* reservation, even after the worker lost its lease.  A worker is named   *)
(* by the lease token it drew; one whose lease was recovered goes on as a  *)
(* zombie until its next transaction finds the token gone.                 *)
(*                                                                         *)
(* Delivery of queued jobs is the subject of IngestionOutbox; here a due   *)
(* job may be claimed.  Token counts are in units of the smallest prompt.  *)
(***************************************************************************)
EXTENDS AnalysisJob, Sequences, FiniteSetsExt

CONSTANTS
    MaxJobs,        \* bound: analysis rows of the proposal
    MaxEdits,       \* bound: rewrites of the draft by other research
    MaxFaults,      \* bound: deaths, leases lost by live workers, settings off at a claim
    MaxCalls,       \* topic_decision_max_calls
    MaxTokens,      \* topic_decision_max_tokens
    CallTokens,     \* topic_decision_call_tokens
    MaxSearches,    \* topic_decision_max_searches
    Usage,          \* usage a call may report, 0 when it reports none
    Overshoot,      \* how far a call's usage can pass its reservation
    MaxGrants,      \* grants an operator may make (2 in the code)
    GrantCalls,     \* calls added by one grant
    GrantTokens,    \* tokens added by one grant
    Website         \* the draft names a website

ASSUME DecisionAssumption ==
    /\ {MaxJobs, MaxEdits, MaxFaults, MaxSearches, Overshoot, MaxGrants} \subseteq Nat
    /\ {MaxCalls, MaxTokens, CallTokens, GrantCalls, GrantTokens} \subseteq Nat \ {0}
    /\ Usage \subseteq Nat /\ 0 \in Usage
    /\ Website \in BOOLEAN

VARIABLES
    proposal,   \* TopicProposal: its status and the version of its draft
    run,        \* TopicDecisionRun
    jobs,       \* the proposal's TopicAnalysisJob rows, oldest first
    worker,     \* the execution each lease token stands for
    faults      \* faults so far

vars == <<proposal, run, jobs, worker, faults>>

Jobs == 1 .. MaxJobs

Checkpoints == {"hint_evidence", "discovery", "evidence", "draft", "draft_verification",
                "escalated_draft", "escalated_draft_verification", "escalated_verification"}

\* What a stage may leave in a checkpoint.
Outputs(key) ==
    CASE key \in {"hint_evidence", "evidence"} -> {"readable", "unreadable"}
      [] key = "discovery" -> {"sources", "nothing"}
      [] key \in {"draft", "escalated_draft"} -> {"ready", "invalid"}
      [] OTHER -> {"malformed", "verified", "rejected", "unresolved"}

Nothing == [value |-> "none", epoch |-> 0]

Idle == [pc |-> "idle", job |-> 0, key |-> "evidence", call |-> 0, value |-> "none"]

NewJob == [status |-> "queued", attempts |-> 0, available |-> "due",
           dispatched |-> "never", lease |-> "none", token |-> NoToken,
           deferrals |-> 0, hash |-> proposal.hash, usage |-> 0]

NoJob == [NewJob EXCEPT !.status = "unused", !.hash = 0]

NoRun == [status |-> "none", hash |-> 0, calls |-> <<>>, grants |-> 0,
          limits |-> [calls |-> 0, tokens |-> 0, searches |-> 0, escalations |-> 0],
          saved |-> [key \in Checkpoints |-> Nothing]]

InitialRun(hash) ==
    [NoRun EXCEPT !.status = "active", !.hash = hash,
                  !.limits = [calls |-> MaxCalls, tokens |-> MaxTokens,
                              searches |-> MaxSearches, escalations |-> 1]]

Init ==
    /\ proposal = [status |-> "pending", hash |-> 0]
    /\ run = NoRun
    /\ jobs = [j \in Jobs |-> NoJob]
    /\ worker = [t \in Tokens |-> Idle]
    /\ faults = 0

-----------------------------------------------------------------------------
(* The ledger of paid calls.                                               *)

Charged == SumFunction([i \in DOMAIN run.calls |-> run.calls[i].charged])

ChargedSearches == SumFunction([i \in DOMAIN run.calls |-> run.calls[i].searches])

Escalations == Cardinality({i \in DOMAIN run.calls : run.calls[i].escalated})

TokensLeft == run.limits.tokens - Charged

SearchesLeft == run.limits.searches - ChargedSearches

\* Mutant: the last reservation is not cut to what the budget has left.
UncappedReservation == CallTokens

Reservation == IF TokensLeft < CallTokens THEN TokensLeft ELSE CallTokens

\* Mutant: a lost call no longer stops the workflow.
ReservableBesideRunning(escalated, web) ==
    /\ Len(run.calls) < run.limits.calls
    /\ escalated => Escalations < run.limits.escalations
    /\ Reservation \in 1 .. CallTokens
    /\ web => SearchesLeft \in Nat \ {0}

\* reserve's five refusals that do not depend on the clock.
Reservable(escalated, web) ==
    /\ \A i \in DOMAIN run.calls : run.calls[i].status # "running"
    /\ Len(run.calls) < run.limits.calls
    /\ escalated => Escalations < run.limits.escalations
    /\ Reservation \in 1 .. CallTokens
    /\ web => SearchesLeft \in Nat \ {0}

Reserve(escalated, web) ==
    Append(run.calls,
           [status |-> "running", escalated |-> escalated, reserved |-> Reservation,
            charged |-> Reservation, searches |-> IF web THEN SearchesLeft ELSE 0,
            tokens |-> 0])

Measurable(call) == {u \in Usage : u <= call.reserved + Overshoot}

Larger(a, b) == IF a > b THEN a ELSE b

\* Mutant: a failed call is charged what it reports, which may be nothing.
SettledAtCost(call, succeeded, measured, searches) ==
    IF call.status # "running" THEN call
    ELSE [call EXCEPT !.status = IF succeeded THEN "returned" ELSE "failed",
                      !.tokens = measured,
                      !.charged = measured,
                      !.searches = searches]

\* settle changes only a call that is still running.
Settled(call, succeeded, measured, searches) ==
    IF call.status # "running" THEN call
    ELSE [call EXCEPT !.status = IF succeeded THEN "returned" ELSE "failed",
                      !.tokens = measured,
                      !.charged = IF ~succeeded THEN Larger(measured, call.reserved)
                                  ELSE IF measured = 0 THEN call.reserved ELSE measured,
                      !.searches = IF succeeded THEN searches
                                   ELSE Larger(searches, call.searches)]

-----------------------------------------------------------------------------
(* The stages of run_decision.  NextStage reads the checkpoints and names  *)
(* what the workflow does next; a call carries its escalation, a save its  *)
(* key.                                                                    *)

Value(key) == run.saved[key].value

Missing(key) == Value(key) = "none"

CallFor(key, stage, escalated) ==
    [do |-> "call", key |-> key, escalated |-> escalated, web |-> stage = "discovery"]

Do(what, key) == [do |-> what, key |-> key, escalated |-> FALSE, web |-> FALSE]

Decide(decision, check) == Do(decision, check)

Defer == Do("defer", "evidence")

\* The checkpoint a verification of this pass is kept under.
CheckKey(escalation, retry) ==
    IF retry THEN "escalated_verification"
    ELSE IF escalation THEN "escalated_draft_verification" ELSE "draft_verification"

\* A verdict counts as malformed when its input hash is not that of the
\* draft; only one kept from before a grant can be about another draft.
Verdict(key, otherDraft) ==
    IF otherDraft /\ run.saved[key].epoch # run.grants THEN "malformed" ELSE Value(key)

\* The second pass retries either the verification or the whole draft.
SecondPass(retry, otherDraft) ==
    LET draft == IF retry THEN "draft" ELSE "escalated_draft"
        check == CheckKey(TRUE, retry)
    IN  IF Missing(draft) THEN CallFor(draft, "draft", TRUE)
        ELSE IF Value(draft) = "invalid" THEN Defer
        ELSE IF Missing(check) THEN CallFor(check, "verification", retry)
        ELSE IF Verdict(check, otherDraft) \in {"verified", "rejected"}
             THEN Decide(Value(check), check)
        ELSE Defer

FirstPass(otherDraft) ==
    LET check == CheckKey(FALSE, FALSE)
    IN  IF Missing("draft") THEN CallFor("draft", "draft", FALSE)
        ELSE IF Value("draft") = "invalid" THEN SecondPass(FALSE, otherDraft)
        ELSE IF Missing(check) THEN CallFor(check, "verification", FALSE)
        ELSE IF Verdict(check, otherDraft) \in {"verified", "rejected"}
             THEN Decide(Value(check), check)
        ELSE SecondPass(Verdict(check, otherDraft) = "malformed", otherDraft)

NextStage(otherDraft) ==
    IF ~Missing("evidence")
    THEN IF Value("evidence") = "readable" THEN FirstPass(otherDraft) ELSE Defer
    ELSE IF Website /\ Missing("hint_evidence") THEN Do("fetch", "hint_evidence")
    ELSE IF Website /\ Value("hint_evidence") = "readable" THEN Do("copy", "evidence")
    ELSE IF Missing("discovery") THEN CallFor("discovery", "discovery", FALSE)
    ELSE IF Value("discovery") = "nothing" THEN Defer
    ELSE Do("fetch", "evidence")

-----------------------------------------------------------------------------
(* Admission and the other writers of the proposal.                        *)

Busy == \E j \in Jobs : Active(jobs[j])

NextJob == CHOOSE j \in Jobs : jobs[j].status = "unused"
                               /\ \A k \in Jobs : k < j => jobs[k].status # "unused"

\* schedule_decisions: only a pending proposal that was never attempted.
Schedule ==
    /\ proposal.status = "pending" /\ run.status = "none" /\ ~Busy
    /\ \E j \in Jobs : jobs[j].status = "unused"
    /\ jobs' = [jobs EXCEPT ![NextJob] = NewJob]
    /\ UNCHANGED <<proposal, run, worker, faults>>

\* retry_failed_job and the admin's request, both request_topic_analysis.
RequestAnalysis ==
    /\ proposal.status = "pending" /\ ~Busy
    /\ \E j \in Jobs : jobs[j].status = "unused"
    /\ jobs' = [jobs EXCEPT ![NextJob] = NewJob]
    /\ UNCHANGED <<proposal, run, worker, faults>>

\* Branding, or research while the bounded workflow is switched off,
\* rewrites a pending draft; the active index keeps it from overlapping.  A
\* rewrite before the first decision is only another initial draft.
Edit ==
    /\ proposal.status = "pending" /\ ~Busy /\ run.status # "none"
    /\ proposal.hash < MaxEdits
    /\ proposal' = [proposal EXCEPT !.hash = @ + 1]
    /\ UNCHANGED <<run, jobs, worker, faults>>

\* review_proposal by an administrator; approving or rejecting are not told
\* apart.
Review ==
    /\ proposal.status = "pending"
    /\ proposal' = [proposal EXCEPT !.status = "reviewed"]
    /\ UNCHANGED <<run, jobs, worker, faults>>

\* Deleting the proposal cascades to its run and its jobs.
Remove ==
    /\ proposal.status # "deleted" /\ ~Busy
    /\ proposal' = [proposal EXCEPT !.status = "deleted"]
    /\ run' = NoRun
    /\ jobs' = [j \in Jobs |-> NoJob]
    /\ UNCHANGED <<worker, faults>>

\* grant_budget: more of every limit, a lost call keeps its reservation,
\* and the checkpoints it lists start afresh.
GrantBudget ==
    /\ proposal.status = "pending" /\ run.status \in {"deferred", "review"} /\ ~Busy
    /\ run.grants < MaxGrants
    /\ \E j \in Jobs : jobs[j].status = "unused"
    /\ run' = [run EXCEPT
                 !.status = "active", !.hash = proposal.hash, !.grants = @ + 1,
                 !.calls = [i \in DOMAIN @ |->
                              IF @[i].status = "running"
                              THEN [@[i] EXCEPT !.status = "unknown"] ELSE @[i]],
                 !.saved = [key \in Checkpoints |->
                              IF key = "escalated_verification" THEN @[key] ELSE Nothing],
                 !.limits = [calls |-> @.calls + GrantCalls, tokens |-> @.tokens + GrantTokens,
                             searches |-> @.searches + MaxSearches,
                             escalations |-> @.escalations + 1]]
    /\ jobs' = [jobs EXCEPT ![NextJob] = NewJob]
    /\ UNCHANGED <<proposal, worker, faults>>

-----------------------------------------------------------------------------
(* One execution.                                                          *)

Current(j) == proposal.status = "pending" /\ proposal.hash = jobs[j].hash

Owns(t) == OwnedBy(jobs[worker[t].job], t)

FreshTokens == {t \in Tokens : worker[t].pc = "idle" /\ \A j \in Jobs : jobs[j].token # t}

Renewed(j) == [jobs EXCEPT ![j].lease = "live"]

\* _analyze: claim a due row, or end it when the draft moved on.
Claim(j, t) ==
    /\ jobs[j].status = "queued" /\ jobs[j].available = "due"
    /\ Current(j) /\ t \in FreshTokens
    /\ jobs' = [jobs EXCEPT ![j] = StartJob(@, t)]
    /\ worker' = [worker EXCEPT ![t] = [Idle EXCEPT !.pc = "start", !.job = j]]
    /\ UNCHANGED <<proposal, run, faults>>

SupersedeQueued(j) ==
    /\ jobs[j].status = "queued" /\ jobs[j].available = "due"
    /\ ~Current(j)
    /\ jobs' = [jobs EXCEPT ![j] = FinishJob(@)]
    /\ UNCHANGED <<proposal, run, worker, faults>>

\* _analyze with a setting off: proposals of this origin are paused, and the
\* row waits, or there is no AI at all, and it fails.
PutOff(j) ==
    /\ jobs[j].status = "queued" /\ jobs[j].available = "due" /\ faults < MaxFaults
    /\ faults' = faults + 1
    /\ \/ jobs' = [jobs EXCEPT ![j].available = "later", ![j].dispatched = "never"]
       \/ jobs' = [jobs EXCEPT ![j] = FailOrRetry(@, FALSE, NormalAttempts(@), MaxAttempts)]
    /\ UNCHANGED <<proposal, run, worker>>

Leave(t) == worker' = [worker EXCEPT ![t] = Idle]

\* Mutant: the except clause ends the job and forgets the run.
RunUntouched == run

Deferred == IF run.status = "active" THEN [run EXCEPT !.status = "deferred"] ELSE run

\* The except clause: an exhausted provider postpones the job, anything else
\* defers the decision.  Raising is local to the process, so the clause is
\* part of the step that raises; only Settle commits before it raises.
Abort(t, capacity) ==
    LET j == worker[t].job
    IN  /\ \/ ~Owns(t) /\ UNCHANGED <<run, jobs>>
           \/ /\ Owns(t) /\ capacity
              /\ jobs' = [jobs EXCEPT ![j] = FailAnalysis(@, TRUE)]
              /\ UNCHANGED run
           \/ /\ Owns(t) /\ ~capacity
              /\ run' = Deferred
              /\ jobs' = [jobs EXCEPT ![j] = FinishJob(@)]
        /\ Leave(t)

\* locked(): every transaction of the workflow proper begins with it.
Locked(t) == Owns(t) /\ Current(worker[t].job)

\* The first transaction creates the run or takes up its checkpoints.
Start(t) ==
    LET w == worker[t]
        hash == jobs[w.job].hash
    IN  /\ w.pc = "start"
        /\ \/ /\ Locked(t) /\ run.status = "none"
              /\ run' = InitialRun(hash)
              /\ jobs' = Renewed(w.job)
              /\ worker' = [worker EXCEPT ![t].pc = "ready"]
           \/ /\ Locked(t) /\ run.status = "active" /\ run.hash = hash
              /\ jobs' = Renewed(w.job)
              /\ worker' = [worker EXCEPT ![t].pc = "ready"]
              /\ UNCHANGED run
           \/ /\ ~Locked(t) \/ (run.status # "none" /\ ~(run.status = "active" /\ run.hash = hash))
              /\ Abort(t, FALSE)
        /\ UNCHANGED <<proposal, faults>>

\* The reservation of a paid call; it commits before the call begins.
BeginCall(t) ==
    \E otherDraft \in BOOLEAN :
        LET stage == NextStage(otherDraft)
        IN  /\ worker[t].pc = "ready" /\ stage.do = "call"
            /\ Locked(t) /\ run.status = "active"
            /\ Reservable(stage.escalated, stage.web)
            /\ run' = [run EXCEPT !.calls = Reserve(stage.escalated, stage.web)]
            /\ jobs' = Renewed(worker[t].job)
            /\ worker' = [worker EXCEPT ![t].pc = "calling", ![t].key = stage.key,
                                        ![t].call = Len(run.calls) + 1]
            /\ UNCHANGED <<proposal, faults>>

\* Mutant: the settlement is attributed to the job without asking whether
\* this call was still open.
AlwaysNew(call) == TRUE

NewlySettled(call) == call.status = "running"

\* The finally clause: charges are kept whoever owns the job by now.
Settle(t) ==
    LET w == worker[t]
        call == run.calls[w.call]
    IN  /\ w.pc = "calling" /\ w.call \in DOMAIN run.calls
        /\ \E succeeded \in BOOLEAN, measured \in Measurable(call),
              searches \in 0 .. call.searches :
            /\ run' = [run EXCEPT !.calls[w.call] = Settled(call, succeeded, measured, searches)]
            /\ jobs' = IF NewlySettled(call)
                       THEN [jobs EXCEPT ![w.job].usage = @ + measured] ELSE jobs
            /\ \/ /\ succeeded
                  /\ \E value \in Outputs(w.key) :
                        worker' = [worker EXCEPT ![t].pc = "save", ![t].value = value]
               \/ /\ succeeded /\ w.key = "discovery"      \* not a DiscoveryResult
                  /\ worker' = [worker EXCEPT ![t].pc = "failed", ![t].value = "deferred"]
               \/ /\ ~succeeded
                  /\ \E error \in {"capacity", "deferred"} :
                        worker' = [worker EXCEPT ![t].pc = "failed", ![t].value = error]
        /\ UNCHANGED <<proposal, faults>>

\* The rows went with the proposal: the assertion in the finally clause.
SettleMissing(t) ==
    /\ worker[t].pc = "calling" /\ worker[t].call \notin DOMAIN run.calls
    /\ Abort(t, FALSE)
    /\ UNCHANGED <<proposal, faults>>

Saved(key, value) == [run EXCEPT !.saved[key] = [value |-> value, epoch |-> run.grants]]

\* Keep what a call returned, an invalid draft too; the worker remembers
\* whether it has begun to draft.
SaveResult(t) ==
    LET w == worker[t]
    IN  /\ w.pc = "save"
        /\ \/ /\ Locked(t)
              /\ run' = Saved(w.key, w.value)
              /\ jobs' = Renewed(w.job)
              /\ worker' = [worker EXCEPT ![t] = [Idle EXCEPT !.pc = "ready", !.job = w.job,
                                  !.key = IF w.key = "discovery" THEN "evidence" ELSE "draft"]]
           \/ /\ ~Locked(t)
              /\ Abort(t, FALSE)
        /\ UNCHANGED <<proposal, faults>>

\* Fetch pages outside the lock, or copy the hint, and save the evidence.
Gather(t) ==
    LET stage == NextStage(FALSE)
    IN  /\ worker[t].pc = "ready" /\ stage.do \in {"fetch", "copy"}
        /\ \/ /\ Locked(t)
              /\ \E value \in Outputs(stage.key) :
                    /\ stage.do = "copy" => value = "readable"
                    /\ run' = Saved(stage.key, value)
              /\ jobs' = Renewed(worker[t].job)
              /\ UNCHANGED worker
           \/ /\ ~Locked(t)
              /\ Abort(t, FALSE)
        /\ UNCHANGED <<proposal, faults>>

\* DecisionDeferred: a refused reservation, a lost lease or a changed draft,
\* nothing left to try.  The clock may have exhausted the seconds of a call,
\* or the evidence, which is asked for its age before the first draft.
GiveUp(t) ==
    /\ worker[t].pc = "ready"
    /\ \/ ~Owns(t)
       \/ ~Missing("evidence") /\ worker[t].key = "evidence"
       \/ \E otherDraft \in BOOLEAN : NextStage(otherDraft).do \in {"call", "defer"}
    /\ Abort(t, FALSE)
    /\ UNCHANGED <<proposal, faults>>

\* Mutant: the draft is not compared again before the decision is applied.
UncheckedCurrent(j) == proposal.status # "deleted"

ApplyCurrent(j) == Current(j)

\* The applying transaction: ownership, then the draft, then the decision.
Apply(t) ==
    LET j == worker[t].job
    IN  /\ worker[t].pc = "ready"
        /\ \E otherDraft \in BOOLEAN :
            LET stage == NextStage(otherDraft)
            IN  /\ stage.do \in {"verified", "rejected"}
                /\ Owns(t)
                /\ \/ /\ ~ApplyCurrent(j)
                      /\ run' = [run EXCEPT !.status = "deferred"]
                      /\ UNCHANGED proposal
                   \/ /\ ApplyCurrent(j) /\ stage.do = "rejected"
                      /\ \E automated \in BOOLEAN :
                            /\ proposal' = [proposal EXCEPT !.status =
                                              IF automated THEN "reviewed" ELSE @]
                            /\ run' = [run EXCEPT !.status =
                                              IF automated THEN "decided" ELSE "review"]
                   \/ /\ ApplyCurrent(j) /\ stage.do = "verified"
                      /\ \E automated \in BOOLEAN :
                            /\ proposal' = [status |-> IF automated THEN "reviewed"
                                                       ELSE proposal.status,
                                            hash |-> proposal.hash + 1]
                            /\ run' = [run EXCEPT !.status =
                                              IF automated THEN "decided" ELSE "review"]
        /\ jobs' = [jobs EXCEPT ![j] = FinishJob(@)]
        /\ Leave(t)
        /\ UNCHANGED faults

FailCall(t) ==
    /\ worker[t].pc = "failed"
    /\ Abort(t, worker[t].value = "capacity")
    /\ UNCHANGED <<proposal, faults>>

-----------------------------------------------------------------------------
(* Faults, time and recovery.                                              *)

Die(t) ==
    /\ worker[t].pc # "idle" /\ faults < MaxFaults
    /\ faults' = faults + 1
    /\ Leave(t)
    /\ UNCHANGED <<proposal, run, jobs>>

Abandoned(j) == worker[jobs[j].token].pc = "idle"

\* A lease runs out under a live worker only by a fault, such as a long stall.
ExpireLease(j) ==
    /\ jobs[j].status = "running" /\ jobs[j].lease = "live"
    /\ Abandoned(j) \/ faults < MaxFaults
    /\ faults' = IF Abandoned(j) THEN faults ELSE faults + 1
    /\ jobs' = [jobs EXCEPT ![j].lease = "expired"]
    /\ UNCHANGED <<proposal, run, worker>>

\* recover_jobs of the scheduler's tick.
Recover(j) ==
    /\ jobs[j].status = "running" /\ jobs[j].lease = "expired"
    /\ jobs' = [jobs EXCEPT ![j] = FailAnalysis(@, FALSE)]
    /\ UNCHANGED <<proposal, run, worker, faults>>

BecomeDue(j) ==
    /\ jobs[j].status = "queued" /\ jobs[j].available = "later"
    /\ jobs' = [jobs EXCEPT ![j].available = "due"]
    /\ UNCHANGED <<proposal, run, worker, faults>>

Execute(t) ==
    \/ Start(t) \/ BeginCall(t) \/ Settle(t) \/ SettleMissing(t)
    \/ SaveResult(t) \/ Gather(t) \/ GiveUp(t) \/ Apply(t) \/ FailCall(t)

Next ==
    \/ Schedule \/ RequestAnalysis \/ Edit \/ Review \/ Remove \/ GrantBudget
    \/ \E j \in Jobs, t \in Tokens : Claim(j, t)
    \/ \E j \in Jobs : SupersedeQueued(j) \/ PutOff(j) \/ ExpireLease(j) \/ Recover(j) \/ BecomeDue(j)
    \/ \E t \in Tokens : Execute(t) \/ Die(t)

Spec == Init /\ [][Next]_vars

JobStep(j) ==
    \/ \E t \in Tokens : Claim(j, t)
    \/ SupersedeQueued(j) \/ Recover(j) \/ BecomeDue(j)
    \/ ExpireLease(j) /\ Abandoned(j)

\* Calls and fetches have timeouts, the worker loop claims what is due, the
\* tick recovers what expired, and a lease that nobody renews runs out.
Fairness ==
    /\ WF_vars(\E t \in Tokens : Execute(t))
    /\ WF_vars(\E j \in Jobs : JobStep(j))

FairSpec == Spec /\ Fairness

-----------------------------------------------------------------------------
(* Properties.                                                             *)

Values == {"none"} \cup UNION {Outputs(key) : key \in Checkpoints}

Proposals == [status : {"pending", "reviewed", "deleted"}, hash : Nat]

Calls == [status : {"running", "returned", "failed", "unknown"}, escalated : BOOLEAN,
          reserved : Nat, charged : Nat, searches : Nat, tokens : Nat]

Runs == [status : {"none", "active", "deferred", "review", "decided"}, hash : Nat, grants : Nat,
         calls : Seq(Calls),
         limits : [calls : Nat, tokens : Nat, searches : Nat, escalations : Nat],
         saved : [Checkpoints -> [value : Values, epoch : Nat]]]

Rows == [status : Statuses, attempts : Nat, available : Availability, dispatched : Dispatches,
         lease : Leases, token : Tokens \cup {NoToken}, deferrals : Nat, hash : Nat, usage : Nat]

Executions == [pc : {"idle", "start", "ready", "calling", "save", "failed"}, job : Nat,
               key : Checkpoints, call : Nat, value : Values \cup {"capacity", "deferred"}]

TypeOK ==
    /\ proposal \in Proposals
    /\ run \in Runs
    /\ jobs \in [Jobs -> Rows]
    /\ worker \in [Tokens -> Executions]
    /\ faults \in Nat

\* The charges of a decision never pass its budget by more than one call's
\* overshoot, whatever fails, is interrupted or is granted (reserve, settle).
BudgetBound == Charged <= run.limits.tokens + Overshoot

\* Each invocation is attributed to its job exactly once: the jobs' usage adds
\* up to the usage in the ledger, also when a call is settled after its worker
\* lost the lease or after a grant wrote it off (newly_settled in call).
UsageAttributedOnce ==
    SumFunction([j \in Jobs |-> jobs[j].usage])
        = SumFunction([i \in DOMAIN run.calls |-> run.calls[i].tokens])

\* Two paid calls of one decision are in flight together only when an operator
\* granted budget over a lost one: a successor of a dead or slow worker stops
\* at the open reservation (reserve's interrupted_call_requires_review).
CallsInFlight ==
    proposal.status # "deleted" =>
        Cardinality({t \in Tokens : worker[t].pc = "calling"}) <= 1 + run.grants

\* A decision that is still open has a job that will carry it on, or ended in
\* a failure the operator can retry; it is never left active and unattended
\* (execute_decision's except clause, grant_budget).
ActiveRunHasWork ==
    (proposal.status = "pending" /\ run.status = "active") =>
        \/ Busy
        \/ \E j \in Jobs : /\ jobs[j].status = "failed"
                           /\ \A k \in Jobs : k > j => jobs[k].status = "unused"

\* A failed or interrupted call cannot regain budget: a charge only shrinks
\* when its call returned (the module's own promise, settle and grant_budget).
NoRegainedBudget ==
    [][\A i \in DOMAIN run.calls :
         (i \in DOMAIN run'.calls /\ run'.calls[i].charged < run.calls[i].charged)
            => run'.calls[i].status = "returned"]_vars

\* A workflow that is slower than a reviewer never overwrites the review:
\* once approved or rejected a proposal is only deleted (execute_decision's
\* recheck under the lock).
ReviewIsFinal ==
    [][proposal.status = "reviewed" =>
         (proposal' = proposal \/ proposal'.status = "deleted")]_vars

\* A proposal with a job under way is eventually without one, whatever workers die, calls
\* fail or capacity runs out: deferrals for capacity end with the call budget.
EveryDecisionSettles == Busy ~> ~Busy

\* After a grant a decision rests on fresh evidence and prompts: no verdict
\* given before the grant approves or rejects the proposal (grant_budget).
VerdictsAreFresh ==
    \A t \in Tokens, otherDraft \in BOOLEAN :
        (worker[t].pc = "ready" /\ Owns(t) /\ NextStage(otherDraft).do \in {"verified", "rejected"})
            => run.saved[NextStage(otherDraft).key].epoch = run.grants

=============================================================================
