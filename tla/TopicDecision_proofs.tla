------------------------ MODULE TopicDecision_proofs ------------------------
(***************************************************************************)
(* Theorems about TopicDecision, for any number of rows, workers, calls,   *)
(* tokens and grants.                                                      *)
(*                                                                         *)
(* One part of the invariant is about the ledger: every worker inside a    *)
(* paid call holds an open entry of its own, at most one entry is running, *)
(* and a grant writes at most one off as unknown.  Another is about the    *)
(* rows: only the last one in use is active, and it is about the draft as  *)
(* it stands.  On these two rest the accounts, what the ledger and the     *)
(* rows add up to.                                                         *)
(***************************************************************************)
EXTENDS TopicDecision, Sums

\* A worker has a row, and what it is about to save is the output of a stage.
AtWork ==
    \A t \in Tokens :
        /\ worker[t].pc # "idle" => worker[t].job \in Jobs
        /\ worker[t].pc = "save" => worker[t].value \in Values

\* An open call is charged what was reserved for it.
OpenIsReserved ==
    \A i \in DOMAIN run.calls :
        run.calls[i].status = "running" => run.calls[i].charged = run.calls[i].reserved

Calling == {t \in Tokens : worker[t].pc = "calling"}

With(calls, status) == {i \in DOMAIN calls : calls[i].status = status}

\* A worker inside a call holds an entry that nobody has settled, its own.
HoldsEntry ==
    /\ \A t \in Calling : worker[t].call \in With(run.calls, "running") \cup With(run.calls, "unknown")
    /\ \A t, u \in Calling : worker[t].call = worker[u].call => t = u

\* Only grants write calls off, each at most the one that was running.
WrittenOff ==
    /\ run.status = "none" => run.calls = <<>>
    /\ \A i, j \in With(run.calls, "running") : i = j
    /\ Cardinality(With(run.calls, "unknown")) <= run.grants

Ledger == proposal.status # "deleted" => HoldsEntry /\ WrittenOff

\* Rows are used in order, and only the last of them is active.
LastIsActive ==
    \A j, k \in Jobs : j < k =>
        /\ jobs[j].status = "unused" => jobs[k].status = "unused"
        /\ Active(jobs[j]) => jobs[k].status = "unused"

\* The draft of a pending proposal is not rewritten under an active row.
ActiveIsCurrent ==
    proposal.status = "pending" =>
        \A j \in Jobs : Active(jobs[j]) => jobs[j].hash = proposal.hash

IInv ==
    /\ TypeOK /\ AtWork /\ OpenIsReserved /\ Ledger
    /\ LastIsActive /\ ActiveIsCurrent /\ ActiveRunHasWork

-----------------------------------------------------------------------------
(* Rows and ledgers.                                                       *)

LEMMA StartedRow ==
  ASSUME NEW row \in Rows, NEW t \in Tokens
  PROVE  /\ StartJob(row, t) \in Rows /\ StartJob(row, t).status = "running"
         /\ StartJob(row, t).hash = row.hash /\ StartJob(row, t).usage = row.usage
<1>1. row.attempts + 1 \in Nat
  BY DEF Rows
<1> DEFINE begun == [row EXCEPT !.status = "running", !.attempts = row.attempts + 1]
<1>2. begun \in Rows /\ begun.status = "running" /\ begun.hash = row.hash
      /\ begun.usage = row.usage
  BY <1>1 DEF Rows, Statuses
<1>3. StartJob(row, t) = [begun EXCEPT !.token = t, !.lease = "live"]
  BY DEF StartJob
<1> HIDE DEF begun
<1>4. QED  BY <1>2, <1>3 DEF Rows, Leases

LEMMA FinishedRow ==
  ASSUME NEW row \in Rows
  PROVE  /\ FinishJob(row) \in Rows /\ FinishJob(row).status = "succeeded"
         /\ FinishJob(row).hash = row.hash /\ FinishJob(row).usage = row.usage
<1>1. ClearLease(row) \in Rows /\ ClearLease(row).hash = row.hash
      /\ ClearLease(row).usage = row.usage
  BY DEF ClearLease, Rows, Leases
<1>2. QED  BY <1>1 DEF FinishJob, Rows, Statuses

LEMMA FailedRow ==
  ASSUME NEW row \in Rows, NEW capacity \in BOOLEAN
  PROVE  /\ FailAnalysis(row, capacity) \in Rows
         /\ FailAnalysis(row, capacity).status \in {"queued", "failed"}
         /\ FailAnalysis(row, capacity).hash = row.hash
         /\ FailAnalysis(row, capacity).usage = row.usage
<1>1. ClearLease(row) \in Rows /\ ClearLease(row).hash = row.hash
      /\ ClearLease(row).usage = row.usage
  BY DEF ClearLease, Rows, Leases
<1>2. DeferForCapacity(row) \in Rows /\ DeferForCapacity(row).status = "queued"
      /\ DeferForCapacity(row).hash = row.hash /\ DeferForCapacity(row).usage = row.usage
  <2> DEFINE waiting == [ClearLease(row) EXCEPT !.status = "queued", !.available = "later"]
  <2>1. waiting \in Rows /\ waiting.status = "queued" /\ waiting.hash = row.hash
        /\ waiting.usage = row.usage
    BY <1>1 DEF Rows, Statuses, Availability
  <2>2. ClearLease(row).deferrals + 1 \in Nat
    BY <1>1 DEF Rows
  <2>3. DeferForCapacity(row)
          = [waiting EXCEPT !.dispatched = "never", !.deferrals = ClearLease(row).deferrals + 1]
    BY DEF DeferForCapacity
  <2> HIDE DEF waiting
  <2>4. QED  BY <2>1, <2>2, <2>3 DEF Rows, Dispatches
<1>3. ASSUME NEW n
      PROVE  /\ FailOrRetry(row, TRUE, n, MaxAttempts) \in Rows
             /\ FailOrRetry(row, TRUE, n, MaxAttempts).status \in {"queued", "failed"}
             /\ FailOrRetry(row, TRUE, n, MaxAttempts).hash = row.hash
             /\ FailOrRetry(row, TRUE, n, MaxAttempts).usage = row.usage
  BY <1>1 DEF FailOrRetry, Rows, Statuses, Availability, Dispatches
<1>4. QED  BY <1>2, <1>3 DEF FailAnalysis

\* A row that meets a setting that is off waits or fails; nothing else changes.
LEMMA PutOffRow ==
  ASSUME TypeOK, NEW j \in Jobs, PutOff(j)
  PROVE  \E row \in Rows :
            /\ row.status \in {"queued", "failed"} /\ row.hash = jobs[j].hash
            /\ row.usage = jobs[j].usage /\ jobs' = [jobs EXCEPT ![j] = row]
<1>1. jobs[j] \in Rows /\ jobs[j].status = "queued" /\ jobs \in [Jobs -> Rows]
  BY DEF TypeOK, PutOff
<1> DEFINE waiting == [jobs[j] EXCEPT !.available = "later", !.dispatched = "never"]
           failed == FailOrRetry(jobs[j], FALSE, NormalAttempts(jobs[j]), MaxAttempts)
<1>2. /\ waiting \in Rows /\ waiting.status = "queued" /\ waiting.hash = jobs[j].hash
      /\ waiting.usage = jobs[j].usage
  BY <1>1 DEF Rows, Availability, Dispatches
<1>3. /\ failed \in Rows /\ failed.status = "failed" /\ failed.hash = jobs[j].hash
      /\ failed.usage = jobs[j].usage
  <2>1. ClearLease(jobs[j]) \in Rows /\ ClearLease(jobs[j]).hash = jobs[j].hash
        /\ ClearLease(jobs[j]).usage = jobs[j].usage
    BY <1>1 DEF ClearLease, Rows, Leases
  <2>2. QED  BY <2>1 DEF FailOrRetry, Rows, Statuses, Dispatches
<1>4. jobs' = [jobs EXCEPT ![j] = waiting] \/ jobs' = [jobs EXCEPT ![j] = failed]
  BY <1>1 DEF PutOff
<1> HIDE DEF waiting, failed
<1>5. QED  BY <1>2, <1>3, <1>4

LEMMA QueuedRow ==
  ASSUME TypeOK, TokenAssumption
  PROVE  NewJob \in Rows /\ NewJob.status = "queued" /\ NewJob.hash = proposal.hash
         /\ NewJob.usage = 0
  BY DEF NewJob, Rows, TypeOK, Proposals, Statuses, Availability, Dispatches, Leases

LEMMA UnusedRow ==
  ASSUME TypeOK
  PROVE  NoJob \in Rows /\ NoJob.status = "unused" /\ NoJob.usage = 0
  BY QueuedRow, TokenAssumption DEF NoJob, Rows, Statuses

\* The next row to use is the first that is unused.
LEMMA NextRow ==
  ASSUME TypeOK, DecisionAssumption, \E j \in Jobs : jobs[j].status = "unused"
  PROVE  /\ NextJob \in Jobs /\ jobs[NextJob].status = "unused"
         /\ \A k \in Jobs : k < NextJob => jobs[k].status # "unused"
<1> DEFINE unused == {j \in Jobs : jobs[j].status = "unused"}
<1>1. unused \subseteq Nat /\ unused # {}
  BY DEF Jobs, DecisionAssumption
<1>2. PICK j \in unused : \A k \in unused : ~ (<<k, j>> \in OpToRel(<, Nat))
  BY <1>1, WFMin, NatLessThanWellFounded
<1>3. \A k \in Jobs : k < j => jobs[k].status # "unused"
  BY <1>1, <1>2 DEF OpToRel
<1>4. QED  BY <1>2, <1>3 DEF NextJob

LEMMA StageOutputs == \A key \in Checkpoints : Outputs(key) \subseteq Values
  BY DEF Values

LEMMA StageTypes ==
  ASSUME NEW otherDraft \in BOOLEAN
  PROVE  NextStage(otherDraft).key \in Checkpoints /\ NextStage(otherDraft).escalated \in BOOLEAN
         /\ NextStage(otherDraft).web \in BOOLEAN
  BY DEF NextStage, FirstPass, SecondPass, CallFor, Do, Decide, Defer, CheckKey, Checkpoints

LEMMA EmptyRun ==
  ASSUME DecisionAssumption, NEW hash \in Nat
  PROVE  /\ NoRun \in Runs /\ NoRun.calls = <<>> /\ NoRun.status = "none" /\ NoRun.grants = 0
         /\ InitialRun(hash) \in Runs /\ InitialRun(hash).calls = <<>>
         /\ InitialRun(hash).status = "active" /\ InitialRun(hash).grants = 0
<1>1. "none" \in Values /\ <<>> \in Seq(Calls)
  BY DEF Values
<1>2. NoRun \in Runs /\ NoRun.calls = <<>> /\ NoRun.status = "none" /\ NoRun.grants = 0
  BY <1>1 DEF NoRun, Runs, Nothing
<1>3. QED  BY <1>2 DEF InitialRun, Runs, DecisionAssumption

\* A step that leaves the ledger alone and starts no call.
LEMMA LedgerKept ==
  ASSUME OpenIsReserved, Ledger,
         proposal'.status # "deleted" => proposal.status # "deleted",
         run'.calls = run.calls, run'.grants = run.grants,
         run'.status = "none" => run.status = "none",
         \A t \in Tokens : worker'[t].pc = "calling" =>
                             worker[t].pc = "calling" /\ worker'[t].call = worker[t].call
  PROVE  Ledger' /\ OpenIsReserved'
<1>1. OpenIsReserved'
  BY DEF OpenIsReserved
<1>2. ASSUME HoldsEntry  PROVE HoldsEntry'
  BY <1>2 DEF HoldsEntry, Calling, With
<1>3. ASSUME WrittenOff  PROVE WrittenOff'
  BY <1>3 DEF WrittenOff, With
<1>4. QED  BY <1>1, <1>2, <1>3 DEF Ledger

\* Entries of a ledger are finitely many.
LEMMA FiniteEntries ==
  ASSUME NEW calls \in Seq(Calls), NEW status
  PROVE  IsFiniteSet(With(calls, status)) /\ Cardinality(With(calls, status)) \in Nat
<1>1. DOMAIN calls = 1 .. Len(calls) /\ Len(calls) \in Nat
  OBVIOUS
<1>2. IsFiniteSet(1 .. Len(calls))
  BY <1>1, FS_Interval
<1>3. With(calls, status) \in SUBSET (1 .. Len(calls))
  BY <1>1 DEF With
<1>4. QED  BY <1>2, <1>3, FS_Subset, FS_CardinalityType

-----------------------------------------------------------------------------
(* What may happen to the rows.                                            *)

RowsOK == LastIsActive /\ ActiveIsCurrent /\ ActiveRunHasWork

\* No row begins or ends to be active, and the draft stays.
LEMMA RowsKept ==
  ASSUME RowsOK,
         \A j \in Jobs : /\ Active(jobs'[j]) <=> Active(jobs[j])
                         /\ jobs'[j].status = "unused" <=> jobs[j].status = "unused"
                         /\ jobs'[j].status = "failed" <=> jobs[j].status = "failed"
                         /\ jobs'[j].hash = jobs[j].hash,
         proposal'.status = "pending" =>
            proposal.status = "pending" /\ proposal'.hash = proposal.hash,
         run'.status = "active" => run.status = "active" \/ Busy
  PROVE  RowsOK'
<1>1. LastIsActive'
  BY DEF RowsOK, LastIsActive, Active
<1>2. ActiveIsCurrent'
  BY DEF RowsOK, ActiveIsCurrent, Active
<1>3. ActiveRunHasWork'
  BY DEF RowsOK, ActiveRunHasWork, Busy, Active
<1>4. QED  BY <1>1, <1>2, <1>3 DEF RowsOK

\* request_topic_analysis: the new row is about the draft and follows all others.
LEMMA RowRequested ==
  ASSUME DecisionAssumption, TokenAssumption, TypeOK, RowsOK, ~Busy,
         \E j \in Jobs : jobs[j].status = "unused",
         proposal' = proposal, jobs' = [jobs EXCEPT ![NextJob] = NewJob]
  PROVE  RowsOK' /\ jobs' \in [Jobs -> Rows]
<1> DEFINE n == NextJob
           row == NewJob
<1>1. /\ n \in Jobs /\ jobs[n].status = "unused"
      /\ \A k \in Jobs : k < n => jobs[k].status # "unused"
  BY NextRow
<1>2. row \in Rows /\ row.status = "queued" /\ row.hash = proposal.hash
  BY QueuedRow
<1>3. jobs' = [jobs EXCEPT ![n] = row] /\ jobs \in [Jobs -> Rows] /\ Jobs \subseteq Nat
  BY DEF TypeOK, Jobs, DecisionAssumption
<1> HIDE DEF n, row
<1>4. jobs' \in [Jobs -> Rows] /\ jobs'[n] = row
      /\ \A k \in Jobs : k # n => jobs'[k] = jobs[k]
  BY <1>1, <1>2, <1>3
<1>5. LastIsActive'
  <2> SUFFICES ASSUME NEW j \in Jobs, NEW k \in Jobs, j < k
               PROVE  /\ jobs'[j].status = "unused" => jobs'[k].status = "unused"
                      /\ Active(jobs'[j]) => jobs'[k].status = "unused"
    BY DEF LastIsActive, Active
  <2>1. jobs[j].status = "unused" => jobs[k].status = "unused"
    BY DEF RowsOK, LastIsActive
  <2>2. CASE j = n
    BY <1>1, <1>2, <1>3, <1>4, <2>1, <2>2
  <2>3. CASE j # n
    BY <1>1, <1>2, <1>3, <1>4, <2>1, <2>3 DEF Active, Busy
  <2>4. QED  BY <2>2, <2>3
<1>6. ActiveIsCurrent'
  BY <1>1, <1>2, <1>4 DEF ActiveIsCurrent, Active, Busy
<1>7. Busy'
  BY <1>1, <1>2, <1>4 DEF Active, Busy
<1>8. QED  BY <1>4, <1>5, <1>6, <1>7 DEF RowsOK, ActiveRunHasWork

\* A row stops being active: it may end only with the decision itself, or wait
\* for another attempt, or fail and be the last.
LEMMA RowEnded ==
  ASSUME DecisionAssumption, TypeOK, RowsOK, NEW j \in Jobs, Active(jobs[j]),
         NEW row \in Rows, row.status \in {"succeeded", "queued", "failed"},
         row.hash = jobs[j].hash, jobs' = [jobs EXCEPT ![j] = row],
         row.status = "succeeded" => ~(proposal'.status = "pending" /\ run'.status = "active"),
         proposal'.status = "pending" =>
            /\ proposal.status = "pending"
            /\ proposal'.hash = proposal.hash \/ row.status = "succeeded"
  PROVE  RowsOK' /\ jobs' \in [Jobs -> Rows]
<1>1. jobs' \in [Jobs -> Rows] /\ jobs'[j] = row /\ \A k \in Jobs : k # j => jobs'[k] = jobs[k]
  BY DEF TypeOK
<1>2. Jobs \subseteq Nat
  BY DEF Jobs, DecisionAssumption
<1>3. LastIsActive'
  BY <1>1, <1>2 DEF RowsOK, LastIsActive, Active
<1>4. \A k \in Jobs : k # j => ~Active(jobs[k])
  BY <1>2 DEF RowsOK, LastIsActive, Active
<1>5. ActiveIsCurrent'
  BY <1>1, <1>4 DEF RowsOK, ActiveIsCurrent, Active
<1>6. \A k \in Jobs : k > j => jobs'[k].status = "unused"
  BY <1>1, <1>2 DEF RowsOK, LastIsActive
<1>7. ActiveRunHasWork'
  BY <1>1, <1>6 DEF ActiveRunHasWork, Busy, Active
<1>8. QED  BY <1>1, <1>3, <1>5, <1>7 DEF RowsOK

\* A lease is renewed: nothing else of the rows changes.
LEMMA RenewedRows ==
  ASSUME TypeOK, NEW j \in Jobs
  PROVE  /\ Renewed(j) \in [Jobs -> Rows]
         /\ \A k \in Jobs : /\ Renewed(j)[k].status = jobs[k].status
                           /\ Renewed(j)[k].hash = jobs[k].hash
                           /\ Renewed(j)[k].usage = jobs[k].usage
<1> DEFINE row == [jobs[j] EXCEPT !.lease = "live"]
<1>1. /\ row \in Rows /\ row.status = jobs[j].status /\ row.hash = jobs[j].hash
      /\ row.usage = jobs[j].usage
  BY DEF TypeOK, Rows, Leases
<1>2. Renewed(j) = [jobs EXCEPT ![j] = row]
  BY DEF Renewed
<1> HIDE DEF row
<1>3. QED  BY <1>1, <1>2 DEF TypeOK

\* The worker of a step is idle afterwards, or still about its row.
LEMMA WorkerMoves ==
  ASSUME TypeOK, AtWork, NEW t \in Tokens, NEW execution \in Executions,
         worker' = [worker EXCEPT ![t] = execution],
         execution.pc # "idle" => execution.job \in Jobs,
         execution.pc = "save" => execution.value \in Values
  PROVE  /\ worker' \in [Tokens -> Executions] /\ AtWork'
         /\ worker'[t] = execution /\ \A u \in Tokens : u # t => worker'[u] = worker[u]
  BY DEF TypeOK, AtWork

LEMMA IdleExecution ==
  Idle \in Executions /\ Idle.pc = "idle" /\ Idle.key = "evidence" /\ Idle.call = 0
  BY DEF Idle, Executions, Checkpoints, Values

\* The row of a worker whose lease holds is active.
LEMMA OwnedRow ==
  ASSUME TypeOK, AtWork, NEW t \in Tokens, worker[t].pc # "idle"
  PROVE  /\ worker[t].job \in Jobs /\ jobs[worker[t].job] \in Rows
         /\ Owns(t) => Active(jobs[worker[t].job]) /\ Busy
  BY DEF TypeOK, AtWork, Owns, OwnedBy, Active, Busy

LEMMA DeferredRun ==
  ASSUME TypeOK
  PROVE  /\ Deferred \in Runs /\ Deferred.calls = run.calls /\ Deferred.grants = run.grants
         /\ Deferred.status # "active" /\ (Deferred.status = "none" => run.status = "none")
  BY DEF TypeOK, Deferred, Runs

\* The except clause keeps the invariant from whatever stage it is raised.
LEMMA AbortStep ==
  ASSUME DecisionAssumption, IInv, NEW t \in Tokens, worker[t].pc # "idle",
         NEW capacity \in BOOLEAN, Abort(t, capacity), UNCHANGED <<proposal, faults>>
  PROVE  IInv'
<1> DEFINE j == worker[t].job
<1>1. /\ j \in Jobs /\ jobs[j] \in Rows /\ TypeOK /\ AtWork /\ RowsOK
      /\ Owns(t) => Active(jobs[j])
  BY OwnedRow DEF IInv, RowsOK
<1>2. /\ worker' \in [Tokens -> Executions] /\ AtWork'
      /\ worker'[t] = Idle /\ \A u \in Tokens : u # t => worker'[u] = worker[u]
  BY <1>1, IdleExecution, WorkerMoves DEF Abort, Leave
<1>3. ASSUME run'.calls = run.calls, run'.grants = run.grants,
             run'.status = "none" => run.status = "none"
      PROVE  Ledger' /\ OpenIsReserved'
  BY <1>2, <1>3, IdleExecution, LedgerKept DEF IInv
<1>4. CASE ~Owns(t)
  <2>1. UNCHANGED <<run, jobs>>
    BY <1>4 DEF Abort
  <2>2. RowsOK'
    BY <1>1, <2>1, RowsKept DEF RowsOK
  <2>3. QED  BY <1>1, <1>2, <1>3, <2>1, <2>2 DEF IInv, TypeOK, RowsOK
<1>5. CASE Owns(t) /\ capacity
  <2> DEFINE row == FailAnalysis(jobs[j], TRUE)
  <2>1. jobs' = [jobs EXCEPT ![j] = row] /\ run' = run
    BY <1>5 DEF Abort
  <2>2. row \in Rows /\ row.status \in {"queued", "failed"} /\ row.hash = jobs[j].hash
    BY <1>1, FailedRow
  <2> HIDE DEF row
  <2>3. RowsOK' /\ jobs' \in [Jobs -> Rows]
    BY <1>1, <1>5, <2>1, <2>2, RowEnded
  <2>4. QED  BY <1>1, <1>2, <1>3, <2>1, <2>3 DEF IInv, TypeOK, RowsOK
<1>6. CASE Owns(t) /\ ~capacity
  <2> DEFINE row == FinishJob(jobs[j])
  <2>1. jobs' = [jobs EXCEPT ![j] = row] /\ run' = Deferred
    BY <1>6 DEF Abort
  <2>2. row \in Rows /\ row.status = "succeeded" /\ row.hash = jobs[j].hash
    BY <1>1, FinishedRow
  <2>3. /\ run' \in Runs /\ run'.calls = run.calls /\ run'.grants = run.grants
        /\ run'.status # "active" /\ (run'.status = "none" => run.status = "none")
    BY <1>1, <2>1, DeferredRun
  <2> HIDE DEF row
  <2>4. RowsOK' /\ jobs' \in [Jobs -> Rows]
    BY <1>1, <1>6, <2>1, <2>2, <2>3, RowEnded
  <2>5. QED  BY <1>1, <1>2, <1>3, <2>3, <2>4 DEF IInv, TypeOK, RowsOK
<1>7. QED  BY <1>4, <1>5, <1>6

-----------------------------------------------------------------------------
(* Steps of the operators and of time.                                     *)

LEMMA InitStep ==
  ASSUME DecisionAssumption, TokenAssumption, Init
  PROVE  IInv
<1>1. /\ NoRun \in Runs /\ NoRun.calls = <<>> /\ NoRun.status = "none" /\ NoRun.grants = 0
  BY EmptyRun
<1>2. NoJob \in Rows /\ NoJob.status = "unused"
  <2> DEFINE row == NewJob
  <2>1. row \in Rows
    BY DEF Init, NewJob, Rows, Statuses, Availability, Dispatches, Leases
  <2>2. NoJob = [row EXCEPT !.status = "unused", !.hash = 0]
    BY DEF NoJob
  <2> HIDE DEF row
  <2>3. QED  BY <2>1, <2>2 DEF Rows, Statuses
<1>3. TypeOK /\ AtWork
  BY <1>1, <1>2, IdleExecution DEF Init, TypeOK, AtWork, Proposals
<1>4. OpenIsReserved
  BY <1>1 DEF Init, OpenIsReserved
<1>5. HoldsEntry
  BY IdleExecution DEF Init, HoldsEntry, Calling
<1>6. WrittenOff
  <2>1. With(run.calls, "running") = {} /\ With(run.calls, "unknown") = {}
    BY <1>1 DEF Init, With
  <2>2. Cardinality({}) = 0
    BY FS_EmptySet
  <2>3. run.calls = <<>> /\ run.grants = 0
    BY <1>1 DEF Init
  <2>4. Cardinality(With(run.calls, "unknown")) = 0
    BY <2>1, <2>2
  <2>5. Cardinality(With(run.calls, "unknown")) <= run.grants
    BY <2>3, <2>4
  <2>6. \A i, j \in With(run.calls, "running") : i = j
    BY <2>1
  <2>7. QED  BY <2>3, <2>5, <2>6 DEF WrittenOff
<1>7. LastIsActive /\ ActiveIsCurrent /\ ActiveRunHasWork
  BY <1>1, <1>2 DEF Init, LastIsActive, ActiveIsCurrent, ActiveRunHasWork, Active
<1>8. QED  BY <1>3, <1>4, <1>5, <1>6, <1>7 DEF IInv, Ledger

LEMMA RequestStep ==
  ASSUME DecisionAssumption, TokenAssumption, IInv, Schedule \/ RequestAnalysis
  PROVE  IInv'
<1>1. /\ ~Busy /\ (\E j \in Jobs : jobs[j].status = "unused")
      /\ jobs' = [jobs EXCEPT ![NextJob] = NewJob]
      /\ UNCHANGED <<proposal, run, worker, faults>>
  BY DEF Schedule, RequestAnalysis
<1>2. RowsOK' /\ jobs' \in [Jobs -> Rows]
  BY <1>1, RowRequested DEF IInv, RowsOK
<1>3. Ledger' /\ OpenIsReserved'
  BY <1>1, LedgerKept DEF IInv
<1>4. QED  BY <1>1, <1>2, <1>3 DEF IInv, RowsOK, TypeOK, AtWork

LEMMA EditStep ==
  ASSUME DecisionAssumption, IInv, Edit
  PROVE  IInv'
<1>1. Ledger' /\ OpenIsReserved'
  BY LedgerKept DEF IInv, Edit, TypeOK, Proposals
<1>2. proposal' \in Proposals
  BY DEF IInv, TypeOK, Edit, Proposals
<1>3. ActiveIsCurrent' /\ ActiveRunHasWork'
  BY DEF IInv, TypeOK, Proposals, Edit, ActiveIsCurrent, ActiveRunHasWork, Busy, Active
<1>4. QED  BY <1>1, <1>2, <1>3 DEF IInv, TypeOK, AtWork, LastIsActive, Active, Edit

LEMMA ReviewStep ==
  ASSUME DecisionAssumption, IInv, Review
  PROVE  IInv'
<1>1. Ledger' /\ OpenIsReserved'
  BY LedgerKept DEF IInv, Review, TypeOK, Proposals
<1>2. proposal' \in Proposals /\ proposal'.status = "reviewed"
  BY DEF IInv, TypeOK, Review, Proposals
<1>3. QED
  BY <1>1, <1>2
  DEF IInv, TypeOK, AtWork, LastIsActive, Active, ActiveIsCurrent, ActiveRunHasWork, Review

LEMMA RemoveStep ==
  ASSUME DecisionAssumption, TokenAssumption, IInv, Remove
  PROVE  IInv'
<1>1. proposal' \in Proposals /\ proposal'.status = "deleted"
  BY DEF IInv, TypeOK, Remove, Proposals
<1>2. run' \in Runs /\ run'.calls = <<>>
  BY EmptyRun DEF Remove
<1>3. jobs' \in [Jobs -> Rows] /\ \A j \in Jobs : jobs'[j].status = "unused"
  BY UnusedRow DEF IInv, Remove
<1>4. Ledger' /\ OpenIsReserved'
  BY <1>1, <1>2 DEF Ledger, OpenIsReserved
<1>5. LastIsActive' /\ ActiveIsCurrent' /\ ActiveRunHasWork'
  BY <1>1, <1>3 DEF LastIsActive, ActiveIsCurrent, ActiveRunHasWork, Active
<1>6. QED  BY <1>1, <1>2, <1>3, <1>4, <1>5 DEF IInv, TypeOK, AtWork, Remove

\* A grant turns at most one call from running into unknown.
LEMMA GrantedLedger ==
  ASSUME DecisionAssumption, TypeOK, Ledger, OpenIsReserved, GrantBudget
  PROVE  Ledger' /\ OpenIsReserved' /\ run' \in Runs
<1> DEFINE lost(call) == IF call.status = "running"
                         THEN [call EXCEPT !.status = "unknown"] ELSE call
           written == [i \in DOMAIN run.calls |-> lost(run.calls[i])]
<1>1. /\ run \in Runs /\ proposal.status = "pending" /\ run.calls \in Seq(Calls)
      /\ run.calls \in [1 .. Len(run.calls) -> Calls] /\ Len(run.calls) \in Nat
      /\ DOMAIN run.calls = 1 .. Len(run.calls)
  <2>1. run \in Runs /\ proposal.status = "pending"
    BY DEF TypeOK, GrantBudget
  <2>2. run.calls \in Seq(Calls)
    BY <2>1 DEF Runs
  <2>3. QED  BY <2>1, <2>2
<1>2. ASSUME NEW call \in Calls
      PROVE  /\ lost(call) \in Calls /\ lost(call).status # "running"
             /\ lost(call).status = "unknown" <=> call.status \in {"running", "unknown"}
  BY DEF Calls
<1> DEFINE kept == [key \in Checkpoints |-> IF key = "escalated_verification"
                                            THEN run.saved[key] ELSE Nothing]
           more == [calls |-> run.limits.calls + GrantCalls,
                    tokens |-> run.limits.tokens + GrantTokens,
                    searches |-> run.limits.searches + MaxSearches,
                    escalations |-> run.limits.escalations + 1]
<1>3. run'.calls = written /\ run'.grants = run.grants + 1 /\ run'.status = "active"
      /\ run'.hash = proposal.hash /\ run'.saved = kept /\ run'.limits = more
      /\ run' = [status |-> "active", hash |-> proposal.hash, grants |-> run.grants + 1,
                 calls |-> written, limits |-> more, saved |-> kept]
  BY <1>1 DEF GrantBudget, Runs
<1> HIDE DEF lost
<1>4. written \in [1 .. Len(run.calls) -> Calls] /\ \A i \in DOMAIN written : written[i].status # "running"
  BY <1>1, <1>2
<1>5. written \in Seq(Calls) /\ DOMAIN written = DOMAIN run.calls
  BY <1>1, <1>4
<1>6. kept \in [Checkpoints -> [value : Values, epoch : Nat]]
  BY <1>1 DEF Runs, Nothing, Values
<1>7. more \in [calls : Nat, tokens : Nat, searches : Nat, escalations : Nat]
  <2>1. GrantCalls \in Nat /\ GrantTokens \in Nat /\ MaxSearches \in Nat
    BY DEF DecisionAssumption
  <2>2. run.limits \in [calls : Nat, tokens : Nat, searches : Nat, escalations : Nat]
    BY <1>1 DEF Runs
  <2>3. QED  BY <2>1, <2>2
<1>8. run' \in Runs
  <2> HIDE DEF kept, more, written
  <2>1. run.grants + 1 \in Nat /\ proposal.hash \in Nat
    BY <1>1 DEF Runs, TypeOK, Proposals
  <2>2. QED  BY <1>3, <1>5, <1>6, <1>7, <2>1 DEF Runs
<1>9. With(written, "running") = {}
      /\ With(written, "unknown") = With(run.calls, "running") \cup With(run.calls, "unknown")
  BY <1>1, <1>2, <1>4, <1>5 DEF With
<1> HIDE DEF written, kept, more
<1>10. HoldsEntry'
  <2>1. HoldsEntry
    BY <1>1 DEF Ledger
  <2>2. Calling' = Calling /\ worker' = worker
    BY DEF Calling, GrantBudget
  <2>3. QED  BY <1>3, <1>9, <2>1, <2>2 DEF HoldsEntry
<1>11. WrittenOff'
  <2>1. WrittenOff /\ run.grants \in Nat
    BY <1>1 DEF Ledger, Runs
  <2>2. IsFiniteSet(With(run.calls, "unknown")) /\ Cardinality(With(run.calls, "unknown")) \in Nat
    BY <1>1, FiniteEntries
  <2>3. Cardinality(With(written, "unknown")) <= Cardinality(With(run.calls, "unknown")) + 1
    <3>1. CASE With(run.calls, "running") = {}
      BY <1>9, <2>2, <3>1
    <3>2. ASSUME NEW i \in With(run.calls, "running")
          PROVE  Cardinality(With(written, "unknown"))
                   <= Cardinality(With(run.calls, "unknown")) + 1
      <4>1. With(written, "unknown") = With(run.calls, "unknown") \cup {i}
        BY <1>9, <2>1, <3>2 DEF WrittenOff
      <4>2. Cardinality(With(run.calls, "unknown") \cup {i})
              = IF i \in With(run.calls, "unknown") THEN Cardinality(With(run.calls, "unknown"))
                ELSE Cardinality(With(run.calls, "unknown")) + 1
        BY <2>2, FS_AddElement
      <4>3. QED  BY <2>2, <4>1, <4>2
    <3>3. QED  BY <3>1, <3>2
  <2>4. Cardinality(With(written, "unknown")) \in Nat
    BY <1>5, FiniteEntries
  <2>5. Cardinality(With(run'.calls, "unknown")) <= run'.grants
    BY <1>3, <2>1, <2>2, <2>3, <2>4 DEF WrittenOff
  <2>6. QED  BY <1>3, <1>9, <2>5 DEF WrittenOff
<1>12. OpenIsReserved'
  BY <1>3, <1>4 DEF OpenIsReserved
<1>13. QED  BY <1>8, <1>10, <1>11, <1>12 DEF Ledger

LEMMA GrantStep ==
  ASSUME DecisionAssumption, TokenAssumption, IInv, GrantBudget
  PROVE  IInv'
<1>1. Ledger' /\ OpenIsReserved' /\ run' \in Runs
  BY GrantedLedger DEF IInv
<1>2. RowsOK' /\ jobs' \in [Jobs -> Rows]
  BY RowRequested DEF IInv, RowsOK, GrantBudget
<1>3. QED  BY <1>1, <1>2 DEF IInv, RowsOK, TypeOK, AtWork, GrantBudget

-----------------------------------------------------------------------------
(* Steps of the rows' lifecycle.                                           *)

LEMMA ClaimStep ==
  ASSUME DecisionAssumption, IInv, NEW j \in Jobs, NEW t \in Tokens, Claim(j, t)
  PROVE  IInv'
<1> DEFINE row == StartJob(jobs[j], t)
           begun == [Idle EXCEPT !.pc = "start", !.job = j]
<1>1. /\ jobs[j] \in Rows /\ jobs[j].status = "queued"
      /\ jobs' = [jobs EXCEPT ![j] = row] /\ worker' = [worker EXCEPT ![t] = begun]
      /\ UNCHANGED <<proposal, run, faults>> /\ TypeOK /\ AtWork
  BY DEF Claim, IInv, TypeOK
<1>2. row \in Rows /\ row.status = "running" /\ row.hash = jobs[j].hash
  BY <1>1, StartedRow
<1>3. begun \in Executions /\ begun.pc = "start" /\ begun.job = j
  <2>1. j \in Nat
    BY DEF Jobs, DecisionAssumption
  <2>2. QED  BY <2>1, IdleExecution DEF Executions
<1> HIDE DEF row, begun
<1>4. jobs' \in [Jobs -> Rows] /\ jobs'[j] = row /\ \A k \in Jobs : k # j => jobs'[k] = jobs[k]
  BY <1>1, <1>2 DEF TypeOK
<1>5. /\ worker' \in [Tokens -> Executions] /\ AtWork'
      /\ worker'[t] = begun /\ \A u \in Tokens : u # t => worker'[u] = worker[u]
  BY <1>1, <1>3, WorkerMoves
<1>6. RowsOK'
  BY <1>1, <1>2, <1>4, RowsKept DEF IInv, RowsOK, Active
<1>7. Ledger' /\ OpenIsReserved'
  BY <1>1, <1>3, <1>5, LedgerKept DEF IInv
<1>8. QED  BY <1>1, <1>4, <1>5, <1>6, <1>7 DEF IInv, RowsOK, TypeOK

\* A row whose draft has moved on ends; the decision is then no longer pending.
LEMMA SupersedeStep ==
  ASSUME DecisionAssumption, IInv, NEW j \in Jobs, SupersedeQueued(j)
  PROVE  IInv'
<1> DEFINE row == FinishJob(jobs[j])
<1>1. /\ jobs[j] \in Rows /\ jobs[j].status = "queued" /\ jobs' = [jobs EXCEPT ![j] = row]
      /\ UNCHANGED <<proposal, run, worker, faults>> /\ TypeOK /\ RowsOK
  BY DEF SupersedeQueued, IInv, TypeOK, RowsOK
<1>2. row \in Rows /\ row.status = "succeeded" /\ row.hash = jobs[j].hash
  BY <1>1, FinishedRow
<1>3. proposal.status # "pending"
  BY <1>1 DEF SupersedeQueued, Current, RowsOK, ActiveIsCurrent, Active
<1> HIDE DEF row
<1>4. RowsOK' /\ jobs' \in [Jobs -> Rows]
  BY <1>1, <1>2, <1>3, RowEnded DEF Active
<1>5. Ledger' /\ OpenIsReserved'
  BY <1>1, LedgerKept DEF IInv
<1>6. QED  BY <1>1, <1>4, <1>5 DEF IInv, RowsOK, TypeOK, AtWork

LEMMA RecoverStep ==
  ASSUME DecisionAssumption, IInv, NEW j \in Jobs, Recover(j)
  PROVE  IInv'
<1> DEFINE row == FailAnalysis(jobs[j], FALSE)
<1>1. /\ jobs[j] \in Rows /\ jobs[j].status = "running" /\ jobs' = [jobs EXCEPT ![j] = row]
      /\ UNCHANGED <<proposal, run, worker, faults>> /\ TypeOK /\ RowsOK
  BY DEF Recover, IInv, TypeOK, RowsOK
<1>2. row \in Rows /\ row.status \in {"queued", "failed"} /\ row.hash = jobs[j].hash
  BY <1>1, FailedRow
<1> HIDE DEF row
<1>3. RowsOK' /\ jobs' \in [Jobs -> Rows]
  BY <1>1, <1>2, RowEnded DEF Active
<1>4. Ledger' /\ OpenIsReserved'
  BY <1>1, LedgerKept DEF IInv
<1>5. QED  BY <1>1, <1>3, <1>4 DEF IInv, RowsOK, TypeOK, AtWork

LEMMA PutOffStep ==
  ASSUME DecisionAssumption, IInv, NEW j \in Jobs, PutOff(j)
  PROVE  IInv'
<1>1. /\ jobs[j].status = "queued" /\ UNCHANGED <<proposal, run, worker>> /\ faults' \in Nat
      /\ TypeOK /\ RowsOK
  BY DEF PutOff, IInv, TypeOK, RowsOK
<1>2. PICK row \in Rows : /\ row.status \in {"queued", "failed"} /\ row.hash = jobs[j].hash
                          /\ jobs' = [jobs EXCEPT ![j] = row]
  BY <1>1, PutOffRow
<1>3. RowsOK' /\ jobs' \in [Jobs -> Rows]
  BY <1>1, <1>2, RowEnded DEF Active
<1>4. Ledger' /\ OpenIsReserved'
  BY <1>1, LedgerKept DEF IInv
<1>5. AtWork'
  BY <1>1, <1>2 DEF AtWork, IInv, TypeOK
<1>6. QED  BY <1>1, <1>3, <1>4, <1>5 DEF IInv, RowsOK, TypeOK

\* The clock changes what a row is due for, never its status.
LEMMA ClockStep ==
  ASSUME DecisionAssumption, IInv, NEW j \in Jobs, ExpireLease(j) \/ BecomeDue(j)
  PROVE  IInv'
<1>1. PICK row \in Rows :
         /\ row.status = jobs[j].status /\ row.hash = jobs[j].hash
         /\ jobs' = [jobs EXCEPT ![j] = row]
  <2>1. jobs[j] \in Rows
    BY DEF IInv, TypeOK
  <2>2. CASE ExpireLease(j)
    <3> DEFINE row == [jobs[j] EXCEPT !.lease = "expired"]
    <3>1. row \in Rows /\ row.status = jobs[j].status /\ row.hash = jobs[j].hash
      BY <2>1 DEF Rows, Leases
    <3>2. QED  BY <2>2, <3>1 DEF ExpireLease
  <2>3. CASE BecomeDue(j)
    <3> DEFINE row == [jobs[j] EXCEPT !.available = "due"]
    <3>1. row \in Rows /\ row.status = jobs[j].status /\ row.hash = jobs[j].hash
      BY <2>1 DEF Rows, Availability
    <3>2. QED  BY <2>3, <3>1 DEF BecomeDue
  <2>4. QED  BY <2>2, <2>3
<1>2. UNCHANGED <<proposal, run, worker>> /\ faults' \in Nat
  BY DEF ExpireLease, BecomeDue, IInv, TypeOK
<1>3. jobs' \in [Jobs -> Rows]
      /\ \A k \in Jobs : jobs'[k].status = jobs[k].status /\ jobs'[k].hash = jobs[k].hash
  BY <1>1 DEF IInv, TypeOK
<1>4. RowsOK'
  BY <1>2, <1>3, RowsKept DEF IInv, RowsOK, Active
<1>5. Ledger' /\ OpenIsReserved'
  BY <1>2, LedgerKept DEF IInv
<1>6. QED  BY <1>2, <1>3, <1>4, <1>5 DEF IInv, RowsOK, TypeOK, AtWork

LEMMA DieStep ==
  ASSUME DecisionAssumption, IInv, NEW t \in Tokens, Die(t)
  PROVE  IInv'
<1>1. UNCHANGED <<proposal, run, jobs>> /\ faults' \in Nat /\ TypeOK /\ AtWork
  BY DEF Die, IInv, TypeOK
<1>2. /\ worker' \in [Tokens -> Executions] /\ AtWork'
      /\ worker'[t] = Idle /\ \A u \in Tokens : u # t => worker'[u] = worker[u]
  BY <1>1, IdleExecution, WorkerMoves DEF Die, Leave
<1>3. Ledger' /\ OpenIsReserved'
  BY <1>1, <1>2, IdleExecution, LedgerKept DEF IInv
<1>4. QED
  BY <1>1, <1>2, <1>3
  DEF IInv, TypeOK, LastIsActive, ActiveIsCurrent, ActiveRunHasWork, Active, Busy

-----------------------------------------------------------------------------
(* Steps of a worker.                                                      *)

\* A stage that keeps its lease, leaves the ledger alone and the decision open.
LEMMA StageKept ==
  ASSUME DecisionAssumption, IInv, NEW t \in Tokens, worker[t].pc # "idle", Owns(t),
         NEW execution \in Executions, worker' = [worker EXCEPT ![t] = execution],
         execution.pc \notin {"idle", "calling"}, execution.job = worker[t].job,
         execution.pc = "save" => execution.value \in Values,
         run' \in Runs, run'.calls = run.calls, run'.grants = run.grants,
         run'.status = "none" => run.status = "none", jobs' = Renewed(worker[t].job), UNCHANGED <<proposal, faults>>
  PROVE  IInv'
<1>1. /\ TypeOK /\ AtWork /\ RowsOK /\ worker[t].job \in Jobs /\ Busy
  BY OwnedRow DEF IInv, RowsOK
<1>2. /\ jobs' \in [Jobs -> Rows]
      /\ \A k \in Jobs : jobs'[k].status = jobs[k].status /\ jobs'[k].hash = jobs[k].hash
  BY <1>1, RenewedRows
<1>3. /\ worker' \in [Tokens -> Executions] /\ AtWork'
      /\ worker'[t] = execution /\ \A u \in Tokens : u # t => worker'[u] = worker[u]
  BY <1>1, WorkerMoves
<1>4. Ledger' /\ OpenIsReserved'
  BY <1>3, LedgerKept DEF IInv
<1>5. RowsOK'
  BY <1>1, <1>2, RowsKept DEF Active
<1>6. QED  BY <1>1, <1>2, <1>3, <1>4, <1>5 DEF IInv, RowsOK, TypeOK

LEMMA StartStep ==
  ASSUME DecisionAssumption, IInv, NEW t \in Tokens, Start(t)
  PROVE  IInv'
<1> DEFINE w == worker[t]
           hash == jobs[w.job].hash
           execution == [w EXCEPT !.pc = "ready"]
<1>1. /\ w.pc = "start" /\ w \in Executions /\ UNCHANGED <<proposal, faults>>
      /\ w.job \in Jobs /\ hash \in Nat /\ TypeOK /\ AtWork /\ RowsOK
      /\ Owns(t) => Busy
  BY OwnedRow DEF Start, IInv, TypeOK, Rows, RowsOK
<1>2. /\ execution \in Executions /\ execution.pc = "ready" /\ execution.job = w.job
      /\ [worker EXCEPT ![t].pc = "ready"] = [worker EXCEPT ![t] = execution]
  BY <1>1 DEF Executions
<1>3. CASE /\ Locked(t) /\ run.status = "none" /\ run' = InitialRun(hash)
           /\ jobs' = Renewed(w.job) /\ worker' = [worker EXCEPT ![t].pc = "ready"]
  <2>1. /\ run' \in Runs /\ run'.calls = <<>> /\ run'.status = "active" /\ run'.grants = 0
    BY <1>1, <1>3, EmptyRun
  <2>2. HoldsEntry /\ WrittenOff /\ Owns(t)
    BY <1>3 DEF IInv, Ledger, Locked, Current
  <2>3. run.calls = <<>>
    BY <1>3, <2>2 DEF WrittenOff
  <2>4. With(<<>>, "running") = {} /\ With(<<>>, "unknown") = {} /\ Cardinality({}) = 0
    BY FS_EmptySet DEF With
  <2>5. Calling = {}
    BY <2>2, <2>3, <2>4 DEF HoldsEntry
  <2>6. /\ worker' \in [Tokens -> Executions] /\ AtWork'
        /\ worker'[t] = execution /\ \A u \in Tokens : u # t => worker'[u] = worker[u]
    <3> HIDE DEF execution
    <3>1. QED  BY <1>1, <1>2, <1>3, WorkerMoves
  <2>7. Calling' = {}
    BY <1>2, <2>5, <2>6 DEF Calling
  <2>8. HoldsEntry'
    BY <2>7 DEF HoldsEntry
  <2>9. WrittenOff'
    <3>1. Cardinality(With(run'.calls, "unknown")) = 0
      BY <2>1, <2>4
    <3>2. \A i, j \in With(run'.calls, "running") : i = j
      BY <2>1, <2>4
    <3>3. Cardinality(With(run'.calls, "unknown")) <= run'.grants
      BY <2>1, <3>1
    <3>4. QED  BY <2>1, <3>2, <3>3 DEF WrittenOff
  <2>10. OpenIsReserved'
    BY <2>1 DEF OpenIsReserved
  <2>11. /\ jobs' \in [Jobs -> Rows]
         /\ \A k \in Jobs : jobs'[k].status = jobs[k].status /\ jobs'[k].hash = jobs[k].hash
    BY <1>1, <1>3, RenewedRows
  <2>12. RowsOK'
    BY <1>1, <2>2, <2>11, RowsKept DEF Active
  <2>13. QED  BY <1>1, <2>1, <2>6, <2>8, <2>9, <2>10, <2>11, <2>12 DEF IInv, Ledger, RowsOK, TypeOK
<1>4. CASE /\ Locked(t) /\ run.status = "active" /\ jobs' = Renewed(w.job)
           /\ worker' = [worker EXCEPT ![t].pc = "ready"] /\ UNCHANGED run
  <2> HIDE DEF execution
  <2>1. QED  BY <1>1, <1>2, <1>4, StageKept DEF Locked, TypeOK
<1>5. CASE Abort(t, FALSE)
  BY <1>1, <1>5, AbortStep
<1>6. QED  BY <1>3, <1>4, <1>5 DEF Start

LEMMA SavedRun ==
  ASSUME TypeOK, NEW key \in Checkpoints, NEW value \in Values
  PROVE  /\ Saved(key, value) \in Runs /\ Saved(key, value).calls = run.calls
         /\ Saved(key, value).grants = run.grants /\ Saved(key, value).status = run.status
<1> DEFINE entry == [value |-> value, epoch |-> run.grants]
           saved == [run.saved EXCEPT ![key] = entry]
<1>1. run \in Runs /\ entry \in [value : Values, epoch : Nat]
  BY DEF TypeOK, Runs
<1> HIDE DEF entry
<1>2. saved \in [Checkpoints -> [value : Values, epoch : Nat]]
  BY <1>1 DEF Runs
<1>3. Saved(key, value) = [run EXCEPT !.saved = saved]
  BY DEF Saved, entry
<1> HIDE DEF saved
<1>4. QED  BY <1>1, <1>2, <1>3 DEF Runs

LEMMA SaveStep ==
  ASSUME DecisionAssumption, IInv, NEW t \in Tokens, SaveResult(t)
  PROVE  IInv'
<1> DEFINE w == worker[t]
           execution == [Idle EXCEPT !.pc = "ready", !.job = w.job,
                                     !.key = IF w.key = "discovery" THEN "evidence" ELSE "draft"]
<1>1. /\ w.pc = "save" /\ w \in Executions /\ w.key \in Checkpoints /\ w.value \in Values
      /\ UNCHANGED <<proposal, faults>> /\ TypeOK
  BY DEF SaveResult, IInv, TypeOK, AtWork, Executions
<1>2. execution \in Executions /\ execution.pc = "ready" /\ execution.job = w.job
  BY <1>1, IdleExecution DEF Executions, Checkpoints
<1>3. CASE /\ Locked(t) /\ run' = Saved(w.key, w.value) /\ jobs' = Renewed(w.job)
           /\ worker' = [worker EXCEPT ![t] = execution]
  <2> HIDE DEF execution
  <2>1. QED  BY <1>1, <1>2, <1>3, SavedRun, StageKept DEF Locked
<1>4. CASE Abort(t, FALSE)
  BY <1>1, <1>4, AbortStep
<1>5. QED  BY <1>3, <1>4 DEF SaveResult

LEMMA GatherStep ==
  ASSUME DecisionAssumption, IInv, NEW t \in Tokens, Gather(t)
  PROVE  IInv'
<1> DEFINE stage == NextStage(FALSE)
<1>1. /\ worker[t].pc = "ready" /\ worker[t] \in Executions /\ stage.key \in Checkpoints
      /\ UNCHANGED <<proposal, faults>> /\ TypeOK
  BY StageTypes DEF Gather, IInv, TypeOK
<1>2. CASE /\ Locked(t) /\ jobs' = Renewed(worker[t].job) /\ UNCHANGED worker
           /\ \E value \in Outputs(stage.key) : run' = Saved(stage.key, value)
  <2>1. PICK value \in Values : run' = Saved(stage.key, value)
    BY <1>1, <1>2, StageOutputs
  <2>2. worker' = [worker EXCEPT ![t] = worker[t]]
    BY <1>1, <1>2 DEF TypeOK
  <2>3. QED  BY <1>1, <1>2, <2>1, <2>2, SavedRun, StageKept DEF Locked
<1>3. CASE Abort(t, FALSE)
  BY <1>1, <1>3, AbortStep
<1>4. QED  BY <1>2, <1>3 DEF Gather

\* A reservation is made only when no entry is running, so it is the worker's own.
LEMMA BeginStep ==
  ASSUME DecisionAssumption, IInv, NEW t \in Tokens, BeginCall(t)
  PROVE  IInv'
<1>1. PICK otherDraft \in BOOLEAN :
        LET stage == NextStage(otherDraft)
        IN  /\ worker[t].pc = "ready" /\ stage.do = "call"
            /\ Locked(t) /\ run.status = "active"
            /\ Reservable(stage.escalated, stage.web)
            /\ run' = [run EXCEPT !.calls = Reserve(stage.escalated, stage.web)]
            /\ jobs' = Renewed(worker[t].job)
            /\ worker' = [worker EXCEPT ![t].pc = "calling", ![t].key = stage.key,
                                        ![t].call = Len(run.calls) + 1]
            /\ UNCHANGED <<proposal, faults>>
  BY DEF BeginCall
<1> DEFINE stage == NextStage(otherDraft)
           n == Len(run.calls)
           entry == [status |-> "running", escalated |-> stage.escalated, reserved |-> Reservation,
                     charged |-> Reservation, searches |-> IF stage.web THEN SearchesLeft ELSE 0,
                     tokens |-> 0]
           called == [worker[t] EXCEPT !.pc = "calling", !.key = stage.key]
           execution == [called EXCEPT !.call = n + 1]
<1>2. /\ stage.key \in Checkpoints /\ stage.escalated \in BOOLEAN /\ stage.web \in BOOLEAN
  BY StageTypes
<1>3. /\ TypeOK /\ AtWork /\ RowsOK /\ run \in Runs /\ worker[t] \in Executions
      /\ worker[t].job \in Jobs /\ Busy
  BY <1>1, OwnedRow DEF IInv, RowsOK, Locked, TypeOK
<1>4. run.calls \in Seq(Calls) /\ n \in Nat /\ DOMAIN run.calls = 1 .. n
  <2>1. run.calls \in Seq(Calls)
    BY <1>3 DEF Runs
  <2>2. QED  BY <2>1
<1>5. Reservation \in Nat /\ (stage.web => SearchesLeft \in Nat)
      /\ \A i \in DOMAIN run.calls : run.calls[i].status # "running"
  BY <1>1 DEF Reservable
<1>6. entry \in Calls /\ entry.status = "running" /\ entry.charged = entry.reserved
  BY <1>2, <1>5 DEF Calls
<1>7. run' = [run EXCEPT !.calls = Append(run.calls, entry)]
  BY <1>1 DEF Reserve
<1>8. /\ execution \in Executions /\ execution.pc = "calling" /\ execution.job = worker[t].job
      /\ execution.call = n + 1
  <2>1. called \in Executions /\ called.pc = "calling" /\ called.job = worker[t].job
    BY <1>2, <1>3 DEF Executions
  <2>2. n + 1 \in Nat
    BY <1>4
  <2> HIDE DEF called, n
  <2>3. QED  BY <2>1, <2>2 DEF Executions
<1>9. worker' = [worker EXCEPT ![t] = execution]
  BY <1>1
<1> HIDE DEF entry, execution, stage
<1>10. /\ run' \in Runs /\ run'.calls = Append(run.calls, entry) /\ run'.grants = run.grants
       /\ run'.status = run.status
  <2>1. Append(run.calls, entry) \in Seq(Calls)
    BY <1>4, <1>6
  <2>2. QED  BY <1>3, <1>7, <2>1 DEF Runs
<1>11. /\ DOMAIN run'.calls = 1 .. n + 1 /\ run'.calls[n + 1] = entry
       /\ \A i \in 1 .. n : run'.calls[i] = run.calls[i]
  BY <1>4, <1>6, <1>10
<1>12. /\ worker' \in [Tokens -> Executions] /\ AtWork'
       /\ worker'[t] = execution /\ \A u \in Tokens : u # t => worker'[u] = worker[u]
  BY <1>3, <1>8, <1>9, WorkerMoves
<1>13. /\ With(run'.calls, "running") = {n + 1}
       /\ With(run'.calls, "unknown") = With(run.calls, "unknown")
       /\ With(run.calls, "running") = {} /\ With(run.calls, "unknown") \subseteq 1 .. n
  <2>1. \A i \in DOMAIN run'.calls : i \in 1 .. n \/ i = n + 1
    BY <1>4, <1>11
  <2>2. n + 1 \in DOMAIN run'.calls /\ n + 1 \notin 1 .. n /\ 1 .. n \subseteq DOMAIN run'.calls
    BY <1>4, <1>11
  <2>3. QED  BY <1>4, <1>5, <1>6, <1>11, <2>1, <2>2 DEF With
<1>14. HoldsEntry /\ WrittenOff
  BY <1>1 DEF IInv, Ledger, Locked, Current
<1>15. HoldsEntry'
  <2>1. ASSUME NEW u \in Calling', u # t
        PROVE  u \in Calling /\ worker'[u] = worker[u] /\ worker[u].call \in 1 .. n
               /\ worker[u].call \in With(run.calls, "unknown")
    BY <1>12, <1>13, <1>14, <2>1 DEF Calling, HoldsEntry
  <2>2. worker'[t].call = n + 1 /\ n + 1 \notin 1 .. n
    BY <1>4, <1>8, <1>12
  <2>3. QED  BY <1>13, <1>14, <2>1, <2>2 DEF HoldsEntry
<1>16. WrittenOff'
  <2>1. \A i, j \in With(run'.calls, "running") : i = j
    BY <1>13
  <2>2. Cardinality(With(run'.calls, "unknown")) <= run'.grants
    BY <1>10, <1>13, <1>14 DEF WrittenOff
  <2>3. run'.status # "none"
    BY <1>1, <1>10
  <2>4. QED  BY <2>1, <2>2, <2>3 DEF WrittenOff
<1>17. OpenIsReserved'
  <2> SUFFICES ASSUME NEW i \in DOMAIN run'.calls
               PROVE  run'.calls[i].status = "running"
                        => run'.calls[i].charged = run'.calls[i].reserved
    BY DEF OpenIsReserved
  <2>1. i \in 1 .. n \/ i = n + 1
    BY <1>4, <1>11
  <2>2. QED  BY <1>4, <1>6, <1>11, <2>1 DEF IInv, OpenIsReserved
<1>18. /\ jobs' \in [Jobs -> Rows]
       /\ \A k \in Jobs : jobs'[k].status = jobs[k].status /\ jobs'[k].hash = jobs[k].hash
  BY <1>1, <1>3, RenewedRows
<1>19. RowsOK'
  BY <1>1, <1>3, <1>18, RowsKept DEF Active
<1>20. QED
  BY <1>1, <1>3, <1>10, <1>12, <1>15, <1>16, <1>17, <1>18, <1>19 DEF IInv, Ledger, RowsOK, TypeOK

\* A settlement closes an open entry and leaves any other as it is.
LEMMA SettledCall ==
  ASSUME DecisionAssumption, NEW call \in Calls, NEW succeeded \in BOOLEAN,
         NEW measured \in Measurable(call), NEW searches \in 0 .. call.searches,
         NEW settled, settled = Settled(call, succeeded, measured, searches)
  PROVE  /\ settled \in Calls /\ settled.status # "running"
         /\ call.status # "running" => settled = call
         /\ call.status = "running" => settled.status \in {"returned", "failed"}
         /\ (call.status = "running" /\ settled.charged < call.reserved)
               => settled.status = "returned"
         /\ call.status = "running" =>
               settled.tokens = measured /\ settled.charged <= call.reserved + Overshoot
<1> DEFINE charge == IF ~succeeded THEN Larger(measured, call.reserved)
                     ELSE IF measured = 0 THEN call.reserved ELSE measured
           paid == IF succeeded THEN searches ELSE Larger(searches, call.searches)
           status == IF succeeded THEN "returned" ELSE "failed"
<1>1. measured \in Nat /\ searches \in Nat /\ call.reserved \in Nat /\ call.searches \in Nat
      /\ call.escalated \in BOOLEAN
  BY DEF Measurable, Calls, DecisionAssumption
<1>2. Overshoot \in Nat /\ measured <= call.reserved + Overshoot
  BY DEF Measurable, DecisionAssumption
<1>3. /\ charge \in Nat /\ paid \in Nat /\ charge <= call.reserved + Overshoot
      /\ ~succeeded => ~ (charge < call.reserved)
  BY <1>1, <1>2 DEF Larger
<1>4. CASE call.status = "running"
  <2>1. settled = [status |-> status, escalated |-> call.escalated, reserved |-> call.reserved,
                   charged |-> charge, searches |-> paid, tokens |-> measured]
    BY <1>4 DEF Settled, Calls
  <2> HIDE DEF charge, paid
  <2>2. QED  BY <1>1, <1>3, <1>4, <2>1 DEF Calls
<1>5. CASE call.status # "running"
  BY <1>5 DEF Settled
<1>6. QED  BY <1>4, <1>5

\* Settling a call of the ledger: the worker is no longer inside it.
LEMMA SettleStep ==
  ASSUME DecisionAssumption, IInv, NEW t \in Tokens, Settle(t)
  PROVE  IInv' /\ (\A i \in DOMAIN run.calls :
                     (i \in DOMAIN run'.calls /\ run'.calls[i].charged < run.calls[i].charged)
                       => run'.calls[i].status = "returned")
<1> DEFINE w == worker[t]
           c == w.call
           call == run.calls[c]
           j == w.job
<1>1. /\ w.pc = "calling" /\ c \in DOMAIN run.calls /\ UNCHANGED <<proposal, faults>>
      /\ TypeOK /\ AtWork /\ RowsOK /\ OpenIsReserved /\ run \in Runs /\ w \in Executions
      /\ j \in Jobs /\ jobs[j] \in Rows
  BY OwnedRow DEF Settle, IInv, RowsOK, TypeOK
<1>2. run.calls \in Seq(Calls) /\ Len(run.calls) \in Nat /\ DOMAIN run.calls = 1 .. Len(run.calls)
      /\ call \in Calls /\ \A i \in DOMAIN run.calls : run.calls[i] \in Calls
  <2>1. run.calls \in Seq(Calls)
    BY <1>1 DEF Runs
  <2>2. QED  BY <1>1, <2>1
<1>3. PICK succeeded \in BOOLEAN, measured \in Measurable(call), searches \in 0 .. call.searches :
        /\ run' = [run EXCEPT !.calls[c] = Settled(call, succeeded, measured, searches)]
        /\ jobs' = IF NewlySettled(call) THEN [jobs EXCEPT ![j].usage = @ + measured] ELSE jobs
        /\ \/ /\ succeeded
              /\ \E value \in Outputs(w.key) :
                    worker' = [worker EXCEPT ![t].pc = "save", ![t].value = value]
           \/ /\ succeeded /\ w.key = "discovery"
              /\ worker' = [worker EXCEPT ![t].pc = "failed", ![t].value = "deferred"]
           \/ /\ ~succeeded
              /\ \E error \in {"capacity", "deferred"} :
                    worker' = [worker EXCEPT ![t].pc = "failed", ![t].value = error]
  BY DEF Settle
<1> DEFINE settled == Settled(call, succeeded, measured, searches)
           written == [run.calls EXCEPT ![c] = settled]
<1>4. /\ settled \in Calls /\ settled.status # "running"
      /\ call.status # "running" => settled = call
      /\ call.status = "running" => settled.status \in {"returned", "failed"}
      /\ (call.status = "running" /\ settled.charged < call.reserved)
            => settled.status = "returned"
  <2> HIDE DEF call
  <2>1. QED  BY <1>2, SettledCall
<1>5. run' = [run EXCEPT !.calls = written]
  BY <1>3
<1> HIDE DEF settled
<1>6. /\ written \in Seq(Calls) /\ DOMAIN written = DOMAIN run.calls /\ written[c] = settled
      /\ \A i \in DOMAIN run.calls : i # c => written[i] = run.calls[i]
  BY <1>1, <1>2, <1>4
<1> HIDE DEF written
<1>7. /\ run' \in Runs /\ run'.calls = written /\ run'.grants = run.grants
      /\ run'.status = run.status
  BY <1>1, <1>5, <1>6 DEF Runs
<1>8. PICK execution \in Executions :
        /\ worker' = [worker EXCEPT ![t] = execution] /\ execution.pc \in {"save", "failed"}
        /\ execution.job = j /\ (execution.pc = "save" => execution.value \in Values)
  <2>1. Outputs(w.key) \subseteq Values
    BY <1>1, StageOutputs DEF Executions
  <2>2. PICK pc \in {"save", "failed"}, value \in Values \cup {"capacity", "deferred"} :
          /\ worker' = [worker EXCEPT ![t].pc = pc, ![t].value = value]
          /\ pc = "save" => value \in Values
    BY <1>3, <2>1
  <2> DEFINE execution == [w EXCEPT !.pc = pc, !.value = value]
  <2>3. /\ execution \in Executions /\ execution.pc = pc /\ execution.job = j
        /\ execution.value = value
    BY <1>1 DEF Executions
  <2>4. worker' = [worker EXCEPT ![t] = execution]
    BY <1>1, <2>2 DEF TypeOK
  <2> HIDE DEF execution
  <2>5. QED  BY <2>2, <2>3, <2>4
<1>9. /\ worker' \in [Tokens -> Executions] /\ AtWork'
      /\ worker'[t] = execution /\ \A u \in Tokens : u # t => worker'[u] = worker[u]
  BY <1>1, <1>8, WorkerMoves
<1>10. /\ jobs' \in [Jobs -> Rows]
       /\ \A k \in Jobs : jobs'[k].status = jobs[k].status /\ jobs'[k].hash = jobs[k].hash
  <2> DEFINE row == [jobs[j] EXCEPT !.usage = jobs[j].usage + measured]
  <2>1. jobs[j].usage + measured \in Nat
    BY <1>1, <1>3 DEF Rows, Measurable, DecisionAssumption
  <2>2. row \in Rows /\ row.status = jobs[j].status /\ row.hash = jobs[j].hash
    BY <1>1, <2>1 DEF Rows
  <2>3. jobs' = jobs \/ jobs' = [jobs EXCEPT ![j] = row]
    BY <1>3
  <2> HIDE DEF row
  <2>4. QED  BY <1>1, <2>2, <2>3 DEF TypeOK
<1>11. RowsOK'
  BY <1>1, <1>7, <1>10, RowsKept DEF Active
<1>12. /\ With(written, "unknown") = With(run.calls, "unknown")
       /\ With(written, "running") = With(run.calls, "running") \ {c}
  BY <1>1, <1>4, <1>6 DEF With
<1>13. Ledger'
  <2> SUFFICES ASSUME proposal.status # "deleted"
               PROVE  HoldsEntry' /\ WrittenOff'
    BY <1>1 DEF Ledger
  <2>1. HoldsEntry /\ WrittenOff
    BY DEF IInv, Ledger
  <2>2. ASSUME NEW u \in Calling'
        PROVE  u \in Calling /\ u # t /\ worker'[u] = worker[u]
    BY <1>8, <1>9, <2>2 DEF Calling
  <2>3. t \in Calling
    BY <1>1 DEF Calling
  <2>4. HoldsEntry'
    BY <1>7, <1>12, <2>1, <2>2, <2>3 DEF HoldsEntry
  <2>5. run.status # "none"
    BY <1>1, <2>1 DEF WrittenOff
  <2>6. WrittenOff'
    BY <1>7, <1>12, <2>1, <2>5 DEF WrittenOff
  <2>7. QED  BY <2>4, <2>6
<1>14. OpenIsReserved'
  BY <1>1, <1>4, <1>6, <1>7 DEF OpenIsReserved
<1>15. ASSUME NEW i \in DOMAIN run.calls, run'.calls[i].charged < run.calls[i].charged
       PROVE  run'.calls[i].status = "returned"
  <2>1. run.calls[i] \in Calls /\ run.calls[i].charged \in Nat
    <3>1. run.calls[i] \in Calls
      BY <1>2, <1>15
    <3>2. QED  BY <3>1 DEF Calls
  <2>2. i = c /\ call.status = "running"
    BY <1>4, <1>6, <1>7, <1>15, <2>1
  <2>3. QED  BY <1>1, <1>4, <1>6, <1>7, <1>15, <2>2 DEF OpenIsReserved
<1>16. QED
  BY <1>1, <1>7, <1>9, <1>10, <1>11, <1>13, <1>14, <1>15 DEF IInv, RowsOK, TypeOK

\* The three stages that do nothing but raise.
LEMMA RaiseStep ==
  ASSUME DecisionAssumption, IInv, NEW t \in Tokens,
         SettleMissing(t) \/ GiveUp(t) \/ FailCall(t)
  PROVE  IInv'
<1>1. worker[t].pc # "idle" /\ UNCHANGED <<proposal, faults>>
  BY DEF SettleMissing, GiveUp, FailCall
<1>2. PICK capacity \in BOOLEAN : Abort(t, capacity)
  BY DEF SettleMissing, GiveUp, FailCall
<1>3. QED  BY <1>1, <1>2, AbortStep

\* The decision ends together with its row.
LEMMA ApplyStep ==
  ASSUME DecisionAssumption, IInv, NEW t \in Tokens, Apply(t)
  PROVE  IInv'
<1> DEFINE j == worker[t].job
           row == FinishJob(jobs[j])
<1>1. /\ worker[t].pc = "ready" /\ Owns(t) /\ jobs' = [jobs EXCEPT ![j] = row] /\ faults' = faults
      /\ TypeOK /\ AtWork /\ RowsOK
  BY DEF Apply, IInv, RowsOK
<1>2. /\ j \in Jobs /\ jobs[j] \in Rows /\ Active(jobs[j])
  BY <1>1, OwnedRow
<1>3. row \in Rows /\ row.status = "succeeded" /\ row.hash = jobs[j].hash
  BY <1>2, FinishedRow
<1> HIDE DEF row
<1>4. /\ worker' \in [Tokens -> Executions] /\ AtWork'
      /\ worker'[t] = Idle /\ \A u \in Tokens : u # t => worker'[u] = worker[u]
  BY <1>1, IdleExecution, WorkerMoves DEF Apply, Leave
<1>5. PICK status \in {"deferred", "decided", "review"} : run' = [run EXCEPT !.status = status]
  BY DEF Apply
<1>6. /\ run' \in Runs /\ run'.calls = run.calls /\ run'.grants = run.grants
      /\ run'.status \notin {"none", "active"}
  BY <1>1, <1>5 DEF TypeOK, Runs
<1>7. /\ proposal' \in Proposals
      /\ proposal'.status = "pending" => proposal.status = "pending"
      /\ proposal'.status # "deleted" => proposal.status # "deleted"
  BY <1>1 DEF Apply, ApplyCurrent, Current, TypeOK, Proposals
<1>8. RowsOK' /\ jobs' \in [Jobs -> Rows]
  BY <1>1, <1>2, <1>3, <1>6, <1>7, RowEnded
<1>9. Ledger' /\ OpenIsReserved'
  BY <1>4, <1>6, <1>7, IdleExecution, LedgerKept DEF IInv
<1>10. QED  BY <1>1, <1>4, <1>6, <1>7, <1>8, <1>9 DEF IInv, RowsOK, TypeOK

LEMMA ExecuteStep ==
  ASSUME DecisionAssumption, IInv, NEW t \in Tokens, Execute(t)
  PROVE  IInv'
<1>1. CASE Start(t)
  BY <1>1, StartStep
<1>2. CASE BeginCall(t)
  BY <1>2, BeginStep
<1>3. CASE Settle(t)
  BY <1>3, SettleStep
<1>4. CASE SettleMissing(t) \/ GiveUp(t) \/ FailCall(t)
  BY <1>4, RaiseStep
<1>5. CASE SaveResult(t)
  BY <1>5, SaveStep
<1>6. CASE Gather(t)
  BY <1>6, GatherStep
<1>7. CASE Apply(t)
  BY <1>7, ApplyStep
<1>8. QED  BY <1>1, <1>2, <1>3, <1>4, <1>5, <1>6, <1>7 DEF Execute

LEMMA NextStep ==
  ASSUME DecisionAssumption, TokenAssumption, IInv, [Next]_vars
  PROVE  IInv'
<1>1. CASE Schedule \/ RequestAnalysis
  BY <1>1, RequestStep
<1>2. CASE Edit
  BY <1>2, EditStep
<1>3. CASE Review
  BY <1>3, ReviewStep
<1>4. CASE Remove
  BY <1>4, RemoveStep
<1>5. CASE GrantBudget
  BY <1>5, GrantStep
<1>6. ASSUME NEW j \in Jobs, NEW t \in Tokens, Claim(j, t)
      PROVE  IInv'
  BY <1>6, ClaimStep
<1>7. ASSUME NEW j \in Jobs, SupersedeQueued(j) \/ PutOff(j) \/ ExpireLease(j) \/ Recover(j) \/ BecomeDue(j)
      PROVE  IInv'
  BY <1>7, SupersedeStep, PutOffStep, ClockStep, RecoverStep
<1>8. ASSUME NEW t \in Tokens, Execute(t) \/ Die(t)
      PROVE  IInv'
  BY <1>8, ExecuteStep, DieStep
<1>9. CASE UNCHANGED vars
  BY <1>9
  DEF vars, IInv, TypeOK, AtWork, OpenIsReserved, Ledger, HoldsEntry, WrittenOff, Calling,
      LastIsActive, ActiveIsCurrent, ActiveRunHasWork, Active, Busy
<1>10. QED  BY <1>1, <1>2, <1>3, <1>4, <1>5, <1>6, <1>7, <1>8, <1>9 DEF Next

-----------------------------------------------------------------------------
(* The accounts: what the ledger adds up to.                               *)

ChargesOf(calls) == [i \in DOMAIN calls |-> calls[i].charged]

TokensOf(calls) == [i \in DOMAIN calls |-> calls[i].tokens]

UsageOf(rows) == [j \in Jobs |-> rows[j].usage]

\* The ledger goes with the proposal.
DeletedIsEmpty == proposal.status = "deleted" => run.calls = <<>>

\* An open call has reported nothing yet.
OpenIsUnreported ==
    \A i \in DOMAIN run.calls : run.calls[i].status = "running" => run.calls[i].tokens = 0

UnusedIsFree == \A j \in Jobs : jobs[j].status = "unused" => jobs[j].usage = 0

\* While a call is open nothing has been overspent yet: the reservation came
\* out of what was left.
OpenWithinBudget ==
    With(run.calls, "running") # {} => Charged <= run.limits.tokens

\* Until the proposal goes, every worker's row is there.
RowsInUse ==
    proposal.status # "deleted" =>
        \A t \in Tokens : worker[t].pc # "idle" => jobs[worker[t].job].status # "unused"

Accounts ==
    /\ DeletedIsEmpty /\ OpenIsUnreported /\ UnusedIsFree
    /\ OpenWithinBudget /\ BudgetBound /\ UsageAttributedOnce

LEMMA Totals ==
  /\ Charged = SumFunction(ChargesOf(run.calls))
  /\ UsageAttributedOnce <=> SumFunction(UsageOf(jobs)) = SumFunction(TokensOf(run.calls))
BY DEF Charged, ChargesOf, UsageAttributedOnce, UsageOf, TokensOf

LEMMA TotalsNext ==
  /\ Charged' = SumFunction(ChargesOf(run'.calls))
  /\ UsageAttributedOnce' <=> SumFunction(UsageOf(jobs')) = SumFunction(TokensOf(run'.calls))
BY DEF Charged, ChargesOf, UsageAttributedOnce, UsageOf, TokensOf

LEMMA TypedCalls ==
  ASSUME NEW calls \in Seq(Calls)
  PROVE  /\ DOMAIN calls = 1 .. Len(calls) /\ Len(calls) \in Nat /\ IsFiniteSet(DOMAIN calls)
         /\ \A i \in DOMAIN calls : calls[i] \in Calls
         /\ ChargesOf(calls) \in [DOMAIN calls -> Nat] /\ SumFunction(ChargesOf(calls)) \in Nat
         /\ TokensOf(calls) \in [DOMAIN calls -> Nat] /\ SumFunction(TokensOf(calls)) \in Nat
<1>1. DOMAIN calls = 1 .. Len(calls) /\ Len(calls) \in Nat /\ \A i \in DOMAIN calls : calls[i] \in Calls
  OBVIOUS
<1>2. IsFiniteSet(DOMAIN calls)
  BY <1>1, FS_Interval
<1>3. \A i \in DOMAIN calls : calls[i].charged \in Nat /\ calls[i].tokens \in Nat
  BY <1>1 DEF Calls
<1>4. ChargesOf(calls) \in [DOMAIN calls -> Nat] /\ TokensOf(calls) \in [DOMAIN calls -> Nat]
  BY <1>3 DEF ChargesOf, TokensOf
<1>5. QED  BY <1>1, <1>2, <1>4, SumType

LEMMA TypedUsage ==
  ASSUME DecisionAssumption, NEW rows \in [Jobs -> Rows]
  PROVE  /\ IsFiniteSet(Jobs) /\ UsageOf(rows) \in [Jobs -> Nat]
         /\ SumFunction(UsageOf(rows)) \in Nat
<1>1. IsFiniteSet(Jobs)
  <2>1. MaxJobs \in Int /\ 1 \in Int
    BY DEF DecisionAssumption
  <2>2. QED  BY <2>1, FS_Interval DEF Jobs
<1>2. UsageOf(rows) \in [Jobs -> Nat]
  BY DEF UsageOf, Rows
<1>3. QED  BY <1>1, <1>2, SumType

LEMMA NoCalls ==
  SumFunction(ChargesOf(<<>>)) = 0 /\ SumFunction(TokensOf(<<>>)) = 0
<1>1. DOMAIN ChargesOf(<<>>) = {} /\ DOMAIN TokensOf(<<>>) = {}
  BY DEF ChargesOf, TokensOf
<1>2. QED  BY <1>1, SumEmpty

\* A step that leaves charges, limits and usage alone.
LEMMA AccountsKept ==
  ASSUME Accounts, run'.calls = run.calls, run'.limits = run.limits,
         \A k \in Jobs : /\ jobs'[k].usage = jobs[k].usage
                         /\ jobs'[k].status = "unused" => jobs[k].status = "unused",
         proposal'.status = "deleted" => proposal.status = "deleted"
  PROVE  Accounts'
<1>1. DeletedIsEmpty' /\ OpenIsUnreported' /\ UnusedIsFree'
  BY DEF Accounts, DeletedIsEmpty, OpenIsUnreported, UnusedIsFree
<1>2. Charged' = Charged
  BY Totals, TotalsNext
<1>3. OpenWithinBudget' /\ BudgetBound'
  BY <1>2 DEF Accounts, OpenWithinBudget, BudgetBound
<1>4. UsageOf(jobs') = UsageOf(jobs)
  BY DEF UsageOf
<1>5. UsageAttributedOnce'
  BY <1>4, Totals, TotalsNext DEF Accounts
<1>6. QED  BY <1>1, <1>3, <1>5 DEF Accounts

\* An entry more: its charge and its tokens are added.
LEMMA EntryAdded ==
  ASSUME NEW calls, NEW written, NEW a, a \notin DOMAIN calls, IsFiniteSet(DOMAIN calls),
         DOMAIN written = DOMAIN calls \cup {a}, written[a] \in Calls,
         \A i \in DOMAIN calls : calls[i] \in Calls /\ written[i] = calls[i]
  PROVE  /\ SumFunction(ChargesOf(written)) = SumFunction(ChargesOf(calls)) + written[a].charged
         /\ SumFunction(TokensOf(written)) = SumFunction(TokensOf(calls)) + written[a].tokens
<1>1. /\ ChargesOf(calls) \in [DOMAIN calls -> Nat] /\ TokensOf(calls) \in [DOMAIN calls -> Nat]
      /\ ChargesOf(written) \in [DOMAIN calls \cup {a} -> Nat]
      /\ TokensOf(written) \in [DOMAIN calls \cup {a} -> Nat]
  BY DEF ChargesOf, TokensOf, Calls
<1>2. /\ \A i \in DOMAIN calls : /\ ChargesOf(written)[i] = ChargesOf(calls)[i]
                                 /\ TokensOf(written)[i] = TokensOf(calls)[i]
      /\ ChargesOf(written)[a] = written[a].charged /\ TokensOf(written)[a] = written[a].tokens
  BY DEF ChargesOf, TokensOf
<1>3. SumFunction(ChargesOf(written)) = SumFunction(ChargesOf(calls)) + ChargesOf(written)[a]
  BY <1>1, <1>2, SumAdded
<1>4. SumFunction(TokensOf(written)) = SumFunction(TokensOf(calls)) + TokensOf(written)[a]
  BY <1>1, <1>2, SumAdded
<1>5. QED  BY <1>2, <1>3, <1>4

\* An entry rewritten: the sums change by the difference.
LEMMA EntryChanged ==
  ASSUME NEW calls, NEW written, NEW a \in DOMAIN calls, IsFiniteSet(DOMAIN calls),
         DOMAIN written = DOMAIN calls, written[a] \in Calls,
         \A i \in DOMAIN calls : calls[i] \in Calls,
         \A i \in DOMAIN calls \ {a} : written[i] = calls[i]
  PROVE  /\ SumFunction(ChargesOf(written)) + calls[a].charged
              = SumFunction(ChargesOf(calls)) + written[a].charged
         /\ SumFunction(TokensOf(written)) + calls[a].tokens
              = SumFunction(TokensOf(calls)) + written[a].tokens
<1>1. /\ ChargesOf(calls) \in [DOMAIN calls -> Nat] /\ TokensOf(calls) \in [DOMAIN calls -> Nat]
      /\ ChargesOf(written) \in [DOMAIN calls -> Nat] /\ TokensOf(written) \in [DOMAIN calls -> Nat]
  <2>1. \A i \in DOMAIN calls : written[i] \in Calls
    OBVIOUS
  <2>2. QED  BY <2>1 DEF ChargesOf, TokensOf, Calls
<1>2. /\ \A i \in DOMAIN calls \ {a} : /\ ChargesOf(written)[i] = ChargesOf(calls)[i]
                                       /\ TokensOf(written)[i] = TokensOf(calls)[i]
      /\ ChargesOf(written)[a] = written[a].charged /\ TokensOf(written)[a] = written[a].tokens
      /\ ChargesOf(calls)[a] = calls[a].charged /\ TokensOf(calls)[a] = calls[a].tokens
  BY DEF ChargesOf, TokensOf
<1>3. SumFunction(ChargesOf(written)) + ChargesOf(calls)[a]
        = SumFunction(ChargesOf(calls)) + ChargesOf(written)[a]
  BY <1>1, <1>2, SumChanged
<1>4. SumFunction(TokensOf(written)) + TokensOf(calls)[a]
        = SumFunction(TokensOf(calls)) + TokensOf(written)[a]
  BY <1>1, <1>2, SumChanged
<1>5. QED  BY <1>2, <1>3, <1>4

\* A row rewritten: the usage of the rows changes by the difference.
LEMMA RowChanged ==
  ASSUME DecisionAssumption, NEW rows, NEW written, NEW j \in Jobs,
         rows \in [Jobs -> Rows], written \in [Jobs -> Rows],
         \A k \in Jobs \ {j} : written[k] = rows[k]
  PROVE  SumFunction(UsageOf(written)) + rows[j].usage
           = SumFunction(UsageOf(rows)) + written[j].usage
<1>1. UsageOf(written) \in [Jobs -> Nat] /\ UsageOf(rows) \in [Jobs -> Nat] /\ IsFiniteSet(Jobs)
  BY TypedUsage
<1>2. /\ \A k \in Jobs \ {j} : UsageOf(written)[k] = UsageOf(rows)[k]
      /\ UsageOf(written)[j] = written[j].usage /\ UsageOf(rows)[j] = rows[j].usage
  BY DEF UsageOf
<1>3. SumFunction(UsageOf(written)) + UsageOf(rows)[j]
        = SumFunction(UsageOf(rows)) + UsageOf(written)[j]
  BY <1>1, <1>2, SumChanged
<1>4. QED  BY <1>2, <1>3

\* The row of a request is new, and free.
LEMMA RequestedUsage ==
  ASSUME DecisionAssumption, TokenAssumption, TypeOK, UnusedIsFree,
         \E j \in Jobs : jobs[j].status = "unused", jobs' = [jobs EXCEPT ![NextJob] = NewJob]
  PROVE  /\ jobs' \in [Jobs -> Rows]
         /\ \A k \in Jobs : /\ jobs'[k].usage = jobs[k].usage
                            /\ jobs'[k].status = "unused" => jobs[k].status = "unused"
<1> DEFINE n == NextJob
           row == NewJob
<1>1. n \in Jobs /\ jobs[n].status = "unused"
  BY NextRow
<1>2. row \in Rows /\ row.usage = 0 /\ row.status = "queued"
  BY QueuedRow
<1>3. jobs' = [jobs EXCEPT ![n] = row] /\ jobs \in [Jobs -> Rows]
  BY DEF TypeOK
<1>4. jobs[n].usage = 0
  BY <1>1 DEF UnusedIsFree
<1> HIDE DEF n, row
<1>5. QED  BY <1>1, <1>2, <1>3, <1>4

\* A row that goes on keeps its usage.
LEMMA RowGoesOn ==
  ASSUME TypeOK, NEW j \in Jobs, jobs[j].status # "unused", NEW row, row.status # "unused",
         row.usage = jobs[j].usage, jobs' = [jobs EXCEPT ![j] = row]
  PROVE  \A k \in Jobs : /\ jobs'[k].usage = jobs[k].usage
                         /\ jobs'[k].status = "unused" => jobs[k].status = "unused"
BY DEF TypeOK

LEMMA RenewedUsage ==
  ASSUME TypeOK, NEW j \in Jobs, jobs' = Renewed(j)
  PROVE  \A k \in Jobs : /\ jobs'[k].usage = jobs[k].usage
                         /\ jobs'[k].status = "unused" => jobs[k].status = "unused"
BY RenewedRows

LEMMA GrantAccounts ==
  ASSUME DecisionAssumption, TokenAssumption, IInv, Accounts, GrantBudget
  PROVE  Accounts'
<1>1. /\ run \in Runs /\ run.calls \in Seq(Calls) /\ proposal.status = "pending"
      /\ proposal' = proposal
  BY DEF GrantBudget, IInv, TypeOK, Runs
<1>2. \A i \in DOMAIN run.calls : run.calls[i] \in Calls
  BY <1>1, TypedCalls
<1>3. /\ DOMAIN run'.calls = DOMAIN run.calls
      /\ run'.limits.tokens = run.limits.tokens + GrantTokens
      /\ \A i \in DOMAIN run.calls :
            run'.calls[i] = IF run.calls[i].status = "running"
                            THEN [run.calls[i] EXCEPT !.status = "unknown"] ELSE run.calls[i]
  BY <1>1 DEF GrantBudget, Runs
<1>4. \A i \in DOMAIN run.calls :
         /\ run'.calls[i].charged = run.calls[i].charged
         /\ run'.calls[i].tokens = run.calls[i].tokens
         /\ run'.calls[i].status # "running"
  BY <1>2, <1>3 DEF Calls
<1>5. ChargesOf(run'.calls) = ChargesOf(run.calls) /\ TokensOf(run'.calls) = TokensOf(run.calls)
  BY <1>3, <1>4 DEF ChargesOf, TokensOf
<1>6. Charged' = Charged
  BY <1>5, Totals, TotalsNext
<1>7. /\ \A k \in Jobs : /\ jobs'[k].usage = jobs[k].usage
                         /\ jobs'[k].status = "unused" => jobs[k].status = "unused"
  BY RequestedUsage DEF GrantBudget, IInv, Accounts
<1>8. UsageOf(jobs') = UsageOf(jobs)
  BY <1>7 DEF UsageOf
<1>9. UsageAttributedOnce'
  BY <1>5, <1>8, Totals, TotalsNext DEF Accounts
<1>10. UnusedIsFree' /\ DeletedIsEmpty' /\ OpenIsUnreported' /\ OpenWithinBudget'
  <2>1. UnusedIsFree'
    BY <1>7 DEF Accounts, UnusedIsFree
  <2>2. DeletedIsEmpty'
    BY <1>1 DEF DeletedIsEmpty
  <2>3. \A i \in DOMAIN run'.calls : run'.calls[i].status # "running"
    BY <1>3, <1>4
  <2>4. QED  BY <2>1, <2>2, <2>3 DEF OpenIsUnreported, OpenWithinBudget, With
<1>11. BudgetBound'
  <2>1. Charged \in Nat
    BY <1>1, TypedCalls, Totals
  <2>2. run.limits.tokens \in Nat /\ GrantTokens \in Nat /\ Overshoot \in Nat
    BY <1>1 DEF Runs, DecisionAssumption
  <2>3. Charged <= run.limits.tokens + Overshoot
    BY DEF Accounts, BudgetBound
  <2>4. Charged <= (run.limits.tokens + GrantTokens) + Overshoot
    BY <2>1, <2>2, <2>3
  <2>5. QED  BY <1>3, <1>6, <2>4 DEF BudgetBound
<1>12. QED  BY <1>9, <1>10, <1>11 DEF Accounts

LEMMA RemoveAccounts ==
  ASSUME DecisionAssumption, TokenAssumption, IInv, Remove
  PROVE  Accounts'
<1>1. /\ run'.calls = <<>> /\ run' \in Runs
  BY EmptyRun DEF Remove
<1>2. \A j \in Jobs : jobs'[j].usage = 0
  BY UnusedRow DEF Remove, IInv
<1>3. IsFiniteSet(Jobs)
  BY TypedUsage, TypedUsage DEF IInv, TypeOK
<1>4. SumFunction(UsageOf(jobs')) = 0
  BY <1>2, <1>3, SumZero DEF UsageOf
<1>5. UsageAttributedOnce'
  BY <1>1, <1>4, NoCalls, TotalsNext
<1>6. Charged' = 0
  BY <1>1, NoCalls, TotalsNext
<1>7. BudgetBound'
  <2>1. run'.limits.tokens \in Nat /\ Overshoot \in Nat
    BY <1>1 DEF Runs, DecisionAssumption
  <2>2. 0 <= run'.limits.tokens + Overshoot
    BY <2>1
  <2>3. QED  BY <1>6, <2>2 DEF BudgetBound
<1>8. DeletedIsEmpty' /\ OpenIsUnreported' /\ UnusedIsFree' /\ OpenWithinBudget'
  BY <1>1, <1>2 DEF DeletedIsEmpty, OpenIsUnreported, UnusedIsFree, OpenWithinBudget, With
<1>9. QED  BY <1>5, <1>7, <1>8 DEF Accounts

LEMMA InitAccounts ==
  ASSUME DecisionAssumption, TokenAssumption, Init
  PROVE  Accounts
<1>1. TypeOK
  BY InitStep DEF IInv
<1>2. run.calls = <<>> /\ run \in Runs /\ proposal.status = "pending"
  BY EmptyRun DEF Init
<1>3. \A j \in Jobs : jobs[j].usage = 0
  BY <1>1, UnusedRow DEF Init
<1>4. IsFiniteSet(Jobs)
  BY <1>1, TypedUsage DEF TypeOK
<1>5. SumFunction(UsageOf(jobs)) = 0
  BY <1>3, <1>4, SumZero DEF UsageOf
<1>6. UsageAttributedOnce /\ Charged = 0
  BY <1>2, <1>5, NoCalls, Totals
<1>7. BudgetBound
  <2>1. run.limits.tokens \in Nat /\ Overshoot \in Nat
    BY <1>2 DEF Runs, DecisionAssumption
  <2>2. 0 <= run.limits.tokens + Overshoot
    BY <2>1
  <2>3. QED  BY <1>6, <2>2 DEF BudgetBound
<1>8. DeletedIsEmpty /\ OpenIsUnreported /\ UnusedIsFree /\ OpenWithinBudget
  BY <1>2, <1>3 DEF DeletedIsEmpty, OpenIsUnreported, UnusedIsFree, OpenWithinBudget, With
<1>9. QED  BY <1>6, <1>7, <1>8 DEF Accounts

LEMMA RequestAccounts ==
  ASSUME DecisionAssumption, TokenAssumption, IInv, Accounts, Schedule \/ RequestAnalysis
  PROVE  Accounts'
<1>1. /\ (\E j \in Jobs : jobs[j].status = "unused") /\ jobs' = [jobs EXCEPT ![NextJob] = NewJob]
      /\ run' = run /\ proposal' = proposal
  BY DEF Schedule, RequestAnalysis
<1>2. \A k \in Jobs : /\ jobs'[k].usage = jobs[k].usage
                      /\ jobs'[k].status = "unused" => jobs[k].status = "unused"
  BY <1>1, RequestedUsage DEF IInv, Accounts
<1>3. QED  BY <1>1, <1>2, AccountsKept

\* The except clause spends nothing.
LEMMA AbortAccounts ==
  ASSUME DecisionAssumption, IInv, Accounts, NEW t \in Tokens, worker[t].pc # "idle",
         NEW capacity \in BOOLEAN, Abort(t, capacity), proposal' = proposal
  PROVE  Accounts'
<1> DEFINE j == worker[t].job
<1>1. TypeOK /\ run \in Runs /\ j \in Jobs /\ jobs[j] \in Rows /\ (Owns(t) => jobs[j].status # "unused")
  BY OwnedRow DEF IInv, TypeOK, Active
<1>2. run'.calls = run.calls /\ run'.limits = run.limits
  BY <1>1 DEF Abort, Deferred, Runs
<1>3. \A k \in Jobs : /\ jobs'[k].usage = jobs[k].usage
                      /\ jobs'[k].status = "unused" => jobs[k].status = "unused"
  <2>1. CASE ~Owns(t)
    BY <2>1 DEF Abort
  <2>2. ASSUME Owns(t), NEW row, row.status # "unused", row.usage = jobs[j].usage,
               jobs' = [jobs EXCEPT ![j] = row]
        PROVE  \A k \in Jobs : /\ jobs'[k].usage = jobs[k].usage
                               /\ jobs'[k].status = "unused" => jobs[k].status = "unused"
    BY <1>1, <2>2, RowGoesOn
  <2>3. CASE Owns(t) /\ capacity
    BY <1>1, <2>2, <2>3, FailedRow DEF Abort
  <2>4. CASE Owns(t) /\ ~capacity
    BY <1>1, <2>2, <2>4, FinishedRow DEF Abort
  <2>5. QED  BY <2>1, <2>3, <2>4
<1>4. QED  BY <1>2, <1>3, AccountsKept

LEMMA StartAccounts ==
  ASSUME DecisionAssumption, IInv, Accounts, NEW t \in Tokens, Start(t)
  PROVE  Accounts'
<1> DEFINE w == worker[t]
           hash == jobs[w.job].hash
<1>1. /\ w.pc = "start" /\ proposal' = proposal /\ w.job \in Jobs /\ hash \in Nat
      /\ TypeOK /\ run \in Runs
  BY OwnedRow DEF Start, IInv, TypeOK, Rows
<1>2. CASE /\ Locked(t) /\ run.status = "none" /\ run' = InitialRun(hash) /\ jobs' = Renewed(w.job)
  <2>1. run'.calls = <<>> /\ run' \in Runs
    BY <1>1, <1>2, EmptyRun
  <2>2. run.calls = <<>> /\ proposal.status = "pending"
    BY <1>2 DEF IInv, Ledger, WrittenOff, Locked, Current
  <2>3. \A k \in Jobs : /\ jobs'[k].usage = jobs[k].usage
                        /\ jobs'[k].status = "unused" => jobs[k].status = "unused"
    BY <1>1, <1>2, RenewedUsage
  <2>4. UsageOf(jobs') = UsageOf(jobs)
    BY <2>3 DEF UsageOf
  <2>5. UsageAttributedOnce' /\ Charged' = 0
    BY <2>1, <2>2, <2>4, Totals, TotalsNext, NoCalls DEF Accounts
  <2>6. BudgetBound'
    <3>1. run'.limits.tokens \in Nat /\ Overshoot \in Nat
      BY <2>1 DEF Runs, DecisionAssumption
    <3>2. 0 <= run'.limits.tokens + Overshoot
      BY <3>1
    <3>3. QED  BY <2>5, <3>2 DEF BudgetBound
  <2>7. DeletedIsEmpty' /\ OpenIsUnreported' /\ UnusedIsFree' /\ OpenWithinBudget'
    BY <2>1, <2>3 DEF Accounts, DeletedIsEmpty, OpenIsUnreported, UnusedIsFree, OpenWithinBudget, With
  <2>8. QED  BY <2>5, <2>6, <2>7 DEF Accounts
<1>3. CASE jobs' = Renewed(w.job) /\ UNCHANGED run
  BY <1>1, <1>3, RenewedUsage, AccountsKept
<1>4. CASE Abort(t, FALSE)
  BY <1>1, <1>4, AbortAccounts
<1>5. QED  BY <1>2, <1>3, <1>4 DEF Start

\* The reservation comes out of what is left, and no other call is open.
LEMMA BeginAccounts ==
  ASSUME DecisionAssumption, IInv, Accounts, NEW t \in Tokens, BeginCall(t)
  PROVE  Accounts'
<1>1. PICK otherDraft \in BOOLEAN :
        LET stage == NextStage(otherDraft)
        IN  /\ worker[t].pc = "ready" /\ Locked(t)
            /\ Reservable(stage.escalated, stage.web)
            /\ run' = [run EXCEPT !.calls = Reserve(stage.escalated, stage.web)]
            /\ jobs' = Renewed(worker[t].job) /\ proposal' = proposal
  BY DEF BeginCall
<1> DEFINE stage == NextStage(otherDraft)
           n == Len(run.calls)
           entry == [status |-> "running", escalated |-> stage.escalated, reserved |-> Reservation,
                     charged |-> Reservation, searches |-> IF stage.web THEN SearchesLeft ELSE 0,
                     tokens |-> 0]
<1>2. TypeOK /\ run \in Runs /\ worker[t].job \in Jobs /\ proposal.status = "pending"
  BY <1>1, OwnedRow DEF IInv, TypeOK, Locked, Current
<1>3. run.calls \in Seq(Calls) /\ n \in Nat /\ DOMAIN run.calls = 1 .. n
      /\ IsFiniteSet(DOMAIN run.calls) /\ \A i \in DOMAIN run.calls : run.calls[i] \in Calls
  BY <1>2, TypedCalls DEF Runs
<1>4. Reservation \in Nat /\ (stage.web => SearchesLeft \in Nat)
  BY <1>1 DEF Reservable
<1>5. entry \in Calls /\ entry.status = "running" /\ entry.tokens = 0
      /\ entry.charged = Reservation
  BY <1>4, StageTypes DEF Calls
<1>6. run' = [run EXCEPT !.calls = Append(run.calls, entry)]
  BY <1>1 DEF Reserve
<1> HIDE DEF entry, stage
<1>7. run'.calls = Append(run.calls, entry) /\ run'.limits = run.limits
  BY <1>2, <1>6 DEF Runs
<1>8. /\ DOMAIN run'.calls = DOMAIN run.calls \cup {n + 1} /\ n + 1 \notin DOMAIN run.calls
      /\ run'.calls[n + 1] = entry /\ \A i \in DOMAIN run.calls : run'.calls[i] = run.calls[i]
  <2>1. /\ DOMAIN run'.calls = 1 .. n + 1 /\ run'.calls[n + 1] = entry
        /\ \A i \in 1 .. n : run'.calls[i] = run.calls[i]
    BY <1>3, <1>5, <1>7
  <2>2. 1 .. n + 1 = (1 .. n) \cup {n + 1} /\ n + 1 \notin 1 .. n
    BY <1>3
  <2>3. QED  BY <1>3, <2>1, <2>2
<1>9. /\ SumFunction(ChargesOf(run'.calls)) = SumFunction(ChargesOf(run.calls)) + Reservation
      /\ SumFunction(TokensOf(run'.calls)) = SumFunction(TokensOf(run.calls)) + 0
  <2> DEFINE calls == run.calls
             written == run'.calls
             a == n + 1
  <2>1. /\ a \notin DOMAIN calls /\ IsFiniteSet(DOMAIN calls) /\ DOMAIN written = DOMAIN calls \cup {a}
        /\ written[a] = entry
        /\ \A i \in DOMAIN calls : calls[i] \in Calls /\ written[i] = calls[i]
    BY <1>3, <1>8
  <2> HIDE DEF calls, written, a
  <2>2. /\ SumFunction(ChargesOf(written)) = SumFunction(ChargesOf(calls)) + entry.charged
        /\ SumFunction(TokensOf(written)) = SumFunction(TokensOf(calls)) + entry.tokens
    BY <1>5, <2>1, EntryAdded
  <2>3. QED  BY <1>5, <2>2 DEF calls, written
<1>10. Charged \in Nat /\ SumFunction(TokensOf(run.calls)) \in Nat /\ Charged' = Charged + Reservation
  BY <1>3, <1>9, TypedCalls, Totals, TotalsNext
<1>11. UsageAttributedOnce'
  <2>1. UsageOf(jobs') = UsageOf(jobs)
    BY <1>1, <1>2, RenewedUsage DEF UsageOf
  <2>2. SumFunction(TokensOf(run'.calls)) = SumFunction(TokensOf(run.calls))
    BY <1>9, <1>10
  <2>3. QED  BY <2>1, <2>2, Totals, TotalsNext DEF Accounts
<1>12. Charged' <= run'.limits.tokens
  <2>1. run.limits.tokens \in Nat /\ CallTokens \in Nat
    BY <1>2 DEF Runs, DecisionAssumption
  <2>2. Reservation <= run.limits.tokens - Charged
    BY <1>10, <2>1 DEF Reservation, TokensLeft
  <2>3. QED  BY <1>4, <1>7, <1>10, <2>1, <2>2
<1>13. BudgetBound'
  <2>1. run.limits.tokens \in Nat /\ Overshoot \in Nat
    BY <1>2 DEF Runs, DecisionAssumption
  <2>2. QED  BY <1>4, <1>7, <1>10, <1>12, <2>1 DEF BudgetBound
<1>14. OpenIsUnreported'
  BY <1>5, <1>8 DEF Accounts, OpenIsUnreported
<1>15. DeletedIsEmpty' /\ UnusedIsFree' /\ OpenWithinBudget'
  BY <1>1, <1>2, <1>12, RenewedUsage DEF Accounts, DeletedIsEmpty, UnusedIsFree, OpenWithinBudget
<1>16. QED  BY <1>11, <1>13, <1>14, <1>15 DEF Accounts

\* An open call is closed once, and what it reported goes to the call and to
\* the row; no other call is open, so only this one can overshoot.
LEMMA SettleAccounts ==
  ASSUME DecisionAssumption, IInv, RowsInUse, Accounts, NEW t \in Tokens, Settle(t)
  PROVE  Accounts'
<1> DEFINE w == worker[t]
           c == w.call
           call == run.calls[c]
           j == w.job
<1>1. /\ c \in DOMAIN run.calls /\ TypeOK /\ run \in Runs /\ proposal' = proposal
      /\ j \in Jobs /\ jobs[j] \in Rows
  BY OwnedRow DEF Settle, IInv, TypeOK
<1>2. /\ run.calls \in Seq(Calls) /\ call \in Calls /\ IsFiniteSet(DOMAIN run.calls)
      /\ \A i \in DOMAIN run.calls : run.calls[i] \in Calls
  <2>1. run.calls \in Seq(Calls)
    BY <1>1 DEF Runs
  <2>2. QED  BY <1>1, <2>1, TypedCalls
<1>3. PICK succeeded \in BOOLEAN, measured \in Measurable(call), searches \in 0 .. call.searches :
        /\ run' = [run EXCEPT !.calls[c] = Settled(call, succeeded, measured, searches)]
        /\ jobs' = IF NewlySettled(call) THEN [jobs EXCEPT ![j].usage = @ + measured] ELSE jobs
  BY DEF Settle
<1> DEFINE settled == Settled(call, succeeded, measured, searches)
<1>4. /\ settled \in Calls /\ settled.status # "running"
      /\ call.status # "running" => settled = call
      /\ call.status = "running" =>
            settled.tokens = measured /\ settled.charged <= call.reserved + Overshoot
  <2> HIDE DEF call
  <2>1. QED  BY <1>2, SettledCall
<1>5. run' = [run EXCEPT !.calls = [run.calls EXCEPT ![c] = settled]]
  BY <1>3
<1>6. measured \in Nat /\ Overshoot \in Nat
  BY DEF Measurable, DecisionAssumption
<1> HIDE DEF settled
<1>7. run'.limits = run.limits /\ run'.calls = [run.calls EXCEPT ![c] = settled]
  BY <1>1, <1>5 DEF Runs
<1>8. /\ DOMAIN run'.calls = DOMAIN run.calls /\ run'.calls[c] = settled
      /\ \A i \in DOMAIN run.calls \ {c} : run'.calls[i] = run.calls[i]
  BY <1>1, <1>2, <1>7
<1>9. CASE call.status # "running"
  <2>1. run'.calls = run.calls
    BY <1>2, <1>4, <1>7, <1>9
  <2>2. jobs' = jobs
    BY <1>3, <1>9 DEF NewlySettled
  <2>3. QED  BY <1>1, <1>7, <2>1, <2>2, AccountsKept
<1>10. CASE call.status = "running"
  <2>1. /\ SumFunction(ChargesOf(run'.calls)) + call.charged
             = SumFunction(ChargesOf(run.calls)) + settled.charged
        /\ SumFunction(TokensOf(run'.calls)) + call.tokens
             = SumFunction(TokensOf(run.calls)) + settled.tokens
    <3> DEFINE calls == run.calls
               written == run'.calls
    <3>1. /\ c \in DOMAIN calls /\ IsFiniteSet(DOMAIN calls) /\ DOMAIN written = DOMAIN calls
          /\ written[c] = settled /\ \A i \in DOMAIN calls : calls[i] \in Calls
          /\ \A i \in DOMAIN calls \ {c} : written[i] = calls[i]
      BY <1>1, <1>2, <1>8
    <3> HIDE DEF calls, written, c
    <3>2. /\ SumFunction(ChargesOf(written)) + calls[c].charged
               = SumFunction(ChargesOf(calls)) + written[c].charged
          /\ SumFunction(TokensOf(written)) + calls[c].tokens
               = SumFunction(TokensOf(calls)) + written[c].tokens
      BY <1>4, <3>1, EntryChanged
    <3>3. QED  BY <3>1, <3>2 DEF calls, written
  <2>2. call.tokens = 0 /\ call.charged = call.reserved /\ settled.tokens = measured
        /\ settled.charged <= call.reserved + Overshoot
    BY <1>1, <1>4, <1>10 DEF Accounts, OpenIsUnreported, IInv, OpenIsReserved
  <2>3. /\ call.charged \in Nat /\ settled.charged \in Nat
        /\ SumFunction(ChargesOf(run.calls)) \in Nat /\ SumFunction(TokensOf(run.calls)) \in Nat
    BY <1>2, <1>4, TypedCalls DEF Calls
  <2>4. /\ SumFunction(ChargesOf(run'.calls)) \in Nat /\ SumFunction(TokensOf(run'.calls)) \in Nat
    <3>1. run'.calls \in Seq(Calls)
      BY <1>1, <1>2, <1>4, <1>7
    <3>2. QED  BY <3>1, TypedCalls
  <2>5. Charged' <= Charged + Overshoot
    BY <1>6, <2>1, <2>2, <2>3, <2>4, Totals, TotalsNext
  <2>6. SumFunction(TokensOf(run'.calls)) = SumFunction(TokensOf(run.calls)) + measured
    BY <1>6, <2>1, <2>2, <2>3, <2>4
  <2> DEFINE row == [jobs[j] EXCEPT !.usage = jobs[j].usage + measured]
  <2>7. row \in Rows /\ row.usage = jobs[j].usage + measured /\ row.status = jobs[j].status
        /\ jobs[j].usage \in Nat
    <3>1. jobs[j].usage + measured \in Nat /\ jobs[j].usage \in Nat
      BY <1>1, <1>6 DEF Rows
    <3>2. QED  BY <1>1, <3>1 DEF Rows
  <2>8. jobs' = [jobs EXCEPT ![j] = row] /\ jobs \in [Jobs -> Rows]
    BY <1>1, <1>3, <1>10 DEF NewlySettled, TypeOK
  <2> HIDE DEF row
  <2>9. /\ jobs' \in [Jobs -> Rows] /\ jobs'[j] = row
        /\ \A k \in Jobs \ {j} : jobs'[k] = jobs[k]
    BY <1>1, <2>7, <2>8
  <2>10. SumFunction(UsageOf(jobs')) = SumFunction(UsageOf(jobs)) + measured
    <3>1. SumFunction(UsageOf(jobs')) + jobs[j].usage = SumFunction(UsageOf(jobs)) + jobs'[j].usage
      <4> DEFINE rows == jobs
                 written == jobs'
      <4>1. /\ j \in Jobs /\ rows \in [Jobs -> Rows] /\ written \in [Jobs -> Rows]
            /\ \A k \in Jobs \ {j} : written[k] = rows[k]
        BY <1>1, <2>8, <2>9
      <4> HIDE DEF rows, written, j
      <4>2. SumFunction(UsageOf(written)) + rows[j].usage
              = SumFunction(UsageOf(rows)) + written[j].usage
        BY <4>1, RowChanged
      <4>3. QED  BY <4>2 DEF rows, written
    <3>2. SumFunction(UsageOf(jobs')) \in Nat /\ SumFunction(UsageOf(jobs)) \in Nat
      BY <2>8, <2>9, TypedUsage
    <3>3. QED  BY <1>6, <2>7, <2>9, <3>1, <3>2
  <2>11. UsageAttributedOnce'
    BY <2>6, <2>10, Totals, TotalsNext DEF Accounts
  <2>12. proposal.status # "deleted" /\ With(run.calls, "running") # {}
    <3>1. run.calls # <<>>
      BY <1>1
    <3>2. QED  BY <1>1, <1>10, <3>1 DEF Accounts, DeletedIsEmpty, With
  <2>13. Charged <= run.limits.tokens
    BY <2>12 DEF Accounts, OpenWithinBudget
  <2>14. BudgetBound'
    <3>1. run.limits.tokens \in Nat
      BY <1>1 DEF Runs
    <3>2. Charged \in Nat /\ Charged' \in Nat
      BY <2>3, <2>4, Totals, TotalsNext
    <3>3. QED  BY <1>6, <1>7, <2>5, <2>13, <3>1, <3>2 DEF BudgetBound
  <2>15. \A i \in DOMAIN run'.calls : run'.calls[i].status # "running"
    BY <1>1, <1>4, <1>8, <1>10, <2>12 DEF IInv, Ledger, WrittenOff, With
  <2>16. OpenIsUnreported' /\ OpenWithinBudget'
    BY <2>15 DEF OpenIsUnreported, OpenWithinBudget, With
  <2>17. DeletedIsEmpty' /\ UnusedIsFree'
    <3>1. jobs[j].status # "unused"
      BY <1>1, <2>12 DEF RowsInUse, Settle
    <3>2. UnusedIsFree'
      BY <2>7, <2>9, <3>1 DEF Accounts, UnusedIsFree
    <3>3. QED  BY <1>1, <2>12, <3>2 DEF DeletedIsEmpty
  <2>18. QED  BY <2>11, <2>14, <2>16, <2>17 DEF Accounts
<1>11. QED  BY <1>9, <1>10

\* An execution never changes its row, and no row goes while one runs.
LEMMA ExecutionInUse ==
  ASSUME IInv, RowsInUse, NEW u \in Tokens, Execute(u) \/ Die(u)
  PROVE  RowsInUse'
<1>1. /\ TypeOK /\ worker \in [Tokens -> Executions] /\ jobs \in [Jobs -> Rows] /\ AtWork
      /\ worker[u].pc # "idle"
      /\ (proposal'.status # "deleted" => proposal.status # "deleted")
  <2>1. worker[u].pc # "idle"
    BY DEF Execute, Die, Start, BeginCall, Settle, SettleMissing, SaveResult, Gather, GiveUp,
           Apply, FailCall
  <2>2. (proposal'.status # "deleted" => proposal.status # "deleted")
    <3>1. CASE Apply(u)
      BY <3>1 DEF Apply, ApplyCurrent, Current, IInv, TypeOK, Proposals
    <3>2. CASE ~Apply(u)
      BY <3>2 DEF Execute, Die, Start, BeginCall, Settle, SettleMissing, SaveResult, Gather,
                  GiveUp, FailCall
    <3>3. QED  BY <3>1, <3>2
  <2>3. QED  BY <2>1, <2>2 DEF IInv, TypeOK
<1>2. ASSUME NEW execution, execution.pc # "idle" => execution.job = worker[u].job,
             worker' = [worker EXCEPT ![u] = execution]
      PROVE  \A t \in Tokens : worker'[t].pc # "idle" =>
                worker[t].pc # "idle" /\ worker'[t].job = worker[t].job
  BY <1>1, <1>2
<1> DEFINE j == worker[u].job
<1>3. j \in Jobs /\ jobs[j] \in Rows
  BY <1>1, OwnedRow
<1>4. ASSUME NEW row, row.status # "unused", jobs' = [jobs EXCEPT ![j] = row]
      PROVE  \A k \in Jobs : jobs[k].status # "unused" => jobs'[k].status # "unused"
  BY <1>1, <1>3, <1>4
<1>5. ASSUME jobs' = Renewed(j)
      PROVE  \A k \in Jobs : jobs[k].status # "unused" => jobs'[k].status # "unused"
  BY <1>1, <1>3, <1>5, RenewedUsage
<1>6. ASSUME Leave(u)
      PROVE  \A t \in Tokens : worker'[t].pc # "idle" =>
                worker[t].pc # "idle" /\ worker'[t].job = worker[t].job
  BY <1>2, <1>6, IdleExecution DEF Leave
<1>7. ASSUME \A t \in Tokens : worker'[t].pc # "idle" =>
                worker[t].pc # "idle" /\ worker'[t].job = worker[t].job,
             \A k \in Jobs : jobs[k].status # "unused" => jobs'[k].status # "unused"
      PROVE  RowsInUse'
  BY <1>1, <1>7 DEF RowsInUse, AtWork
<1>8. ASSUME NEW capacity \in BOOLEAN, Abort(u, capacity)
      PROVE  RowsInUse'
  <2>1. \A k \in Jobs : jobs[k].status # "unused" => jobs'[k].status # "unused"
    <3>1. CASE ~Owns(u)
      BY <1>8, <3>1 DEF Abort
    <3>2. CASE Owns(u) /\ capacity
      BY <1>3, <1>4, <1>8, <3>2, FailedRow DEF Abort
    <3>3. CASE Owns(u) /\ ~capacity
      BY <1>3, <1>4, <1>8, <3>3, FinishedRow DEF Abort
    <3>4. QED  BY <3>1, <3>2, <3>3
  <2>2. QED  BY <1>6, <1>7, <1>8, <2>1 DEF Abort
<1>9. CASE Die(u)
  BY <1>6, <1>7, <1>9 DEF Die
<1>10. CASE Start(u)
  <2>1. CASE jobs' = Renewed(j) /\ worker' = [worker EXCEPT ![u].pc = "ready"]
    BY <1>1, <1>5, <1>7, <2>1 DEF Executions
  <2>2. QED  BY <1>8, <1>10, <2>1 DEF Start
<1>11. CASE BeginCall(u)
  <2>1. PICK otherDraft \in BOOLEAN :
          worker' = [worker EXCEPT ![u].pc = "calling", ![u].key = NextStage(otherDraft).key,
                                   ![u].call = Len(run.calls) + 1]
    BY <1>11 DEF BeginCall
  <2>2. \A t \in Tokens : worker'[t].pc # "idle" =>
            worker[t].pc # "idle" /\ worker'[t].job = worker[t].job
    BY <1>1, <2>1 DEF Executions
  <2>3. jobs' = Renewed(j)
    BY <1>11 DEF BeginCall
  <2>4. QED  BY <1>5, <1>7, <2>2, <2>3
<1>12. CASE Settle(u)
  <2>1. PICK pc, value : worker' = [worker EXCEPT ![u].pc = pc, ![u].value = value]
    BY <1>12 DEF Settle
  <2>2. \A t \in Tokens : worker'[t].pc # "idle" =>
            worker[t].pc # "idle" /\ worker'[t].job = worker[t].job
    BY <1>1, <2>1 DEF Executions
  <2>3. PICK measured : jobs' = jobs \/ jobs' = [jobs EXCEPT ![j].usage = @ + measured]
    BY <1>12 DEF Settle
  <2>4. \A k \in Jobs : jobs[k].status # "unused" => jobs'[k].status # "unused"
    BY <1>1, <1>3, <2>3 DEF Rows
  <2>5. QED  BY <1>7, <2>2, <2>4
<1>13. CASE SettleMissing(u) \/ GiveUp(u) \/ FailCall(u)
  <2>1. PICK capacity \in BOOLEAN : Abort(u, capacity)
    BY <1>13 DEF SettleMissing, GiveUp, FailCall
  <2>2. QED  BY <1>8, <2>1
<1>14. CASE SaveResult(u)
  <2>1. CASE jobs' = Renewed(j) /\ \E key : worker' = [worker EXCEPT ![u] =
               [Idle EXCEPT !.pc = "ready", !.job = j, !.key = key]]
    <3>1. PICK key : worker' = [worker EXCEPT ![u] =
               [Idle EXCEPT !.pc = "ready", !.job = j, !.key = key]]
      BY <2>1
    <3> DEFINE execution == [Idle EXCEPT !.pc = "ready", !.job = j, !.key = key]
    <3>2. execution.job = j
      BY DEF Idle
    <3>3. worker' = [worker EXCEPT ![u] = execution]
      BY <3>1
    <3> HIDE DEF execution
    <3>4. QED  BY <1>2, <1>5, <1>7, <2>1, <3>2, <3>3
  <2>2. CASE Abort(u, FALSE)
    BY <1>8, <2>2
  <2>3. QED  BY <1>14, <2>1, <2>2 DEF SaveResult
<1>15. CASE Gather(u)
  <2>1. CASE jobs' = Renewed(j) /\ worker' = worker
    BY <1>5, <1>7, <2>1
  <2>2. CASE Abort(u, FALSE)
    BY <1>8, <2>2
  <2>3. QED  BY <1>15, <2>1, <2>2 DEF Gather
<1>16. CASE Apply(u)
  BY <1>3, <1>4, <1>6, <1>7, <1>16, FinishedRow DEF Apply
<1>17. QED
  BY <1>9, <1>10, <1>11, <1>12, <1>13, <1>14, <1>15, <1>16 DEF Execute

LEMMA InUseStep ==
  ASSUME DecisionAssumption, TokenAssumption, IInv, RowsInUse, Accounts, [Next]_vars
  PROVE  RowsInUse'
<1>1. TypeOK /\ worker \in [Tokens -> Executions] /\ jobs \in [Jobs -> Rows] /\ AtWork
  BY DEF IInv, TypeOK
<1>2. ASSUME worker' = worker, proposal'.status # "deleted" => proposal.status # "deleted",
             \A k \in Jobs : jobs'[k].status = "unused" => jobs[k].status = "unused"
      PROVE  RowsInUse'
  BY <1>1, <1>2 DEF RowsInUse, AtWork
<1>3. CASE Schedule \/ RequestAnalysis \/ GrantBudget
  <2>1. /\ \E j \in Jobs : jobs[j].status = "unused"
        /\ jobs' = [jobs EXCEPT ![NextJob] = NewJob] /\ worker' = worker /\ proposal' = proposal
    BY <1>3 DEF Schedule, RequestAnalysis, GrantBudget
  <2>2. QED  BY <1>1, <1>2, <2>1, RequestedUsage DEF Accounts
<1>4. CASE Edit \/ Review \/ UNCHANGED vars
  <2>1. jobs' = jobs /\ worker' = worker /\ (proposal'.status # "deleted" => proposal.status # "deleted")
    BY <1>4 DEF Edit, Review, vars, IInv, TypeOK, Proposals
  <2>2. QED  BY <1>2, <2>1
<1>5. CASE Remove
  BY <1>5 DEF Remove, RowsInUse, IInv, TypeOK, Proposals
<1>6. ASSUME NEW j \in Jobs, NEW t \in Tokens, Claim(j, t)
      PROVE  RowsInUse'
  <2> DEFINE row == StartJob(jobs[j], t)
             begun == [Idle EXCEPT !.pc = "start", !.job = j]
  <2>1. row.status = "running" /\ begun.job = j /\ begun.pc = "start"
    BY <1>1, StartedRow DEF Idle
  <2>2. jobs' = [jobs EXCEPT ![j] = row] /\ worker' = [worker EXCEPT ![t] = begun]
        /\ proposal' = proposal
    BY <1>1, <1>6 DEF Claim
  <2> HIDE DEF row, begun
  <2>3. QED  BY <1>1, <2>1, <2>2 DEF RowsInUse, AtWork
<1>7. ASSUME NEW j \in Jobs, SupersedeQueued(j) \/ PutOff(j) \/ ExpireLease(j) \/ Recover(j) \/ BecomeDue(j)
      PROVE  RowsInUse'
  <2>1. worker' = worker /\ proposal' = proposal /\ jobs[j] \in Rows /\ jobs[j].status # "unused"
    BY <1>1, <1>7 DEF SupersedeQueued, PutOff, ExpireLease, Recover, BecomeDue
  <2>2. ASSUME NEW row, row.status # "unused", jobs' = [jobs EXCEPT ![j] = row]
        PROVE  RowsInUse'
    BY <1>1, <1>2, <2>1, <2>2
  <2>3. CASE SupersedeQueued(j)
    BY <2>1, <2>2, <2>3, FinishedRow DEF SupersedeQueued
  <2>4. CASE Recover(j)
    BY <2>1, <2>2, <2>4, FailedRow DEF Recover
  <2>5. CASE ExpireLease(j)
    <3> DEFINE row == [jobs[j] EXCEPT !.lease = "expired"]
    <3>1. row.status # "unused" /\ jobs' = [jobs EXCEPT ![j] = row]
      BY <1>1, <2>1, <2>5 DEF ExpireLease, Rows
    <3> HIDE DEF row
    <3>2. QED  BY <2>2, <3>1
  <2>6. CASE BecomeDue(j)
    <3> DEFINE row == [jobs[j] EXCEPT !.available = "due"]
    <3>1. row.status # "unused" /\ jobs' = [jobs EXCEPT ![j] = row]
      BY <1>1, <2>1, <2>6 DEF BecomeDue, Rows
    <3> HIDE DEF row
    <3>2. QED  BY <2>2, <3>1
  <2>7. CASE PutOff(j)
    BY <1>1, <2>2, <2>7, PutOffRow
  <2>8. QED  BY <1>7, <2>3, <2>4, <2>5, <2>6, <2>7
<1>8. QED  BY <1>3, <1>4, <1>5, <1>6, <1>7, ExecutionInUse DEF Next

\* Every other step of an execution spends nothing.
LEMMA ExecuteAccounts ==
  ASSUME DecisionAssumption, IInv, RowsInUse, Accounts, NEW t \in Tokens, Execute(t)
  PROVE  Accounts'
<1>1. TypeOK /\ run \in Runs /\ worker[t] \in Executions
  BY DEF IInv, TypeOK
<1>2. ASSUME worker[t].pc # "idle", Owns(t), jobs' = Renewed(worker[t].job),
             proposal' = proposal, NEW key, NEW value, run' = Saved(key, value)
      PROVE  Accounts'
  <2>1. worker[t].job \in Jobs
    BY <1>1, <1>2, OwnedRow DEF IInv
  <2>2. run'.calls = run.calls /\ run'.limits = run.limits
    BY <1>1, <1>2 DEF Saved, Runs
  <2>3. QED  BY <1>1, <1>2, <2>1, <2>2, RenewedUsage, AccountsKept
<1>3. CASE SaveResult(t)
  <2>1. worker[t].pc # "idle" /\ proposal' = proposal
    BY <1>3 DEF SaveResult
  <2>2. QED  BY <1>2, <1>3, <2>1, AbortAccounts DEF SaveResult, Locked
<1>4. CASE Gather(t)
  <2>1. worker[t].pc # "idle" /\ proposal' = proposal
    BY <1>4 DEF Gather
  <2>2. CASE Abort(t, FALSE)
    BY <2>1, <2>2, AbortAccounts
  <2>3. CASE Locked(t) /\ jobs' = Renewed(worker[t].job) /\ \E key, value : run' = Saved(key, value)
    BY <1>2, <2>1, <2>3 DEF Locked
  <2>4. QED  BY <1>4, <2>2, <2>3 DEF Gather
<1>5. CASE SettleMissing(t) \/ GiveUp(t) \/ FailCall(t)
  <2>1. worker[t].pc # "idle" /\ proposal' = proposal
    BY <1>5 DEF SettleMissing, GiveUp, FailCall
  <2>2. PICK capacity \in BOOLEAN : Abort(t, capacity)
    BY <1>5 DEF SettleMissing, GiveUp, FailCall
  <2>3. QED  BY <2>1, <2>2, AbortAccounts
<1>6. CASE Apply(t)
  <2> DEFINE j == worker[t].job
             row == FinishJob(jobs[j])
  <2>1. /\ worker[t].pc = "ready" /\ Owns(t) /\ jobs' = [jobs EXCEPT ![j] = row]
        /\ (proposal'.status = "deleted" => proposal.status = "deleted")
    BY <1>1, <1>6 DEF Apply, ApplyCurrent, Current, TypeOK, Proposals
  <2>2. j \in Jobs /\ jobs[j] \in Rows /\ jobs[j].status # "unused"
    BY <1>1, <2>1, OwnedRow DEF IInv, Active
  <2>3. row.status # "unused" /\ row.usage = jobs[j].usage
    BY <2>2, FinishedRow
  <2>4. run'.calls = run.calls /\ run'.limits = run.limits
    BY <1>1, <1>6 DEF Apply, Runs
  <2> HIDE DEF row
  <2>5. QED  BY <1>1, <2>1, <2>2, <2>3, <2>4, RowGoesOn, AccountsKept
<1>7. QED
  BY <1>3, <1>4, <1>5, <1>6, StartAccounts, BeginAccounts, SettleAccounts DEF Execute

LEMMA RowAccounts ==
  ASSUME DecisionAssumption, IInv, Accounts, NEW j \in Jobs,
         \/ \E t \in Tokens : Claim(j, t)
         \/ SupersedeQueued(j) \/ PutOff(j) \/ ExpireLease(j) \/ Recover(j) \/ BecomeDue(j)
  PROVE  Accounts'
<1>1. TypeOK /\ jobs[j] \in Rows /\ run' = run /\ proposal' = proposal /\ jobs[j].status # "unused"
  BY DEF IInv, TypeOK, Claim, SupersedeQueued, PutOff, ExpireLease, Recover, BecomeDue
<1>2. PICK row : row.status # "unused" /\ row.usage = jobs[j].usage /\ jobs' = [jobs EXCEPT ![j] = row]
  <2>1. ASSUME NEW t \in Tokens, Claim(j, t)
        PROVE  \E row : row.status # "unused" /\ row.usage = jobs[j].usage
                        /\ jobs' = [jobs EXCEPT ![j] = row]
    <3> DEFINE row == StartJob(jobs[j], t)
    <3>1. row.status # "unused" /\ row.usage = jobs[j].usage
      BY <1>1, StartedRow
    <3>2. jobs' = [jobs EXCEPT ![j] = row]
      BY <1>1, <2>1 DEF Claim, TypeOK
    <3> HIDE DEF row
    <3>3. QED  BY <3>1, <3>2
  <2>2. CASE SupersedeQueued(j)
    BY <1>1, <2>2, FinishedRow DEF SupersedeQueued
  <2>3. CASE Recover(j)
    BY <1>1, <2>3, FailedRow DEF Recover
  <2>4. CASE ExpireLease(j)
    <3> DEFINE row == [jobs[j] EXCEPT !.lease = "expired"]
    <3>1. row.status # "unused" /\ row.usage = jobs[j].usage /\ jobs' = [jobs EXCEPT ![j] = row]
      BY <1>1, <2>4 DEF ExpireLease, Rows
    <3>2. QED  BY <3>1
  <2>5. CASE BecomeDue(j)
    <3> DEFINE row == [jobs[j] EXCEPT !.available = "due"]
    <3>1. row.status # "unused" /\ row.usage = jobs[j].usage /\ jobs' = [jobs EXCEPT ![j] = row]
      BY <1>1, <2>5 DEF BecomeDue, Rows
    <3>2. QED  BY <3>1
  <2>6. CASE PutOff(j)
    BY <1>1, <2>6, PutOffRow
  <2>7. QED  BY <2>1, <2>2, <2>3, <2>4, <2>5, <2>6
<1>3. QED  BY <1>1, <1>2, RowGoesOn, AccountsKept

LEMMA AccountsStep ==
  ASSUME DecisionAssumption, TokenAssumption, IInv, RowsInUse, Accounts, [Next]_vars
  PROVE  Accounts'
<1>1. CASE Edit \/ Review \/ UNCHANGED vars \/ \E t \in Tokens : Die(t)
  <2>1. run' = run /\ jobs' = jobs /\ (proposal'.status = "deleted" => proposal.status = "deleted")
    BY <1>1 DEF Edit, Review, Die, vars, IInv, TypeOK, Proposals
  <2>2. QED  BY <2>1, AccountsKept
<1>2. QED
  BY <1>1, RequestAccounts, RemoveAccounts, GrantAccounts, RowAccounts, ExecuteAccounts DEF Next


-----------------------------------------------------------------------------
(* The theorems.                                                           *)

\* The ledger and the rows of a decision stay consistent through calls, deaths,
\* recoveries, reviews and grants (topic_decisions.py, topic_decision_budget.py).
THEOREM Invariance == Spec => []IInv
<1>1. Init => IInv
  BY DecisionAssumption, TokenAssumption, InitStep
<1>2. IInv /\ [Next]_vars => IInv'
  BY DecisionAssumption, TokenAssumption, NextStep
<1>3. QED  BY <1>1, <1>2, PTL DEF Spec

\* Every reachable state of a decision has its type.
THEOREM TypeCorrect == Spec => []TypeOK
<1>1. IInv => TypeOK
  BY DEF IInv
<1>2. QED  BY <1>1, Invariance, PTL

\* Workers inside a call hold different entries, each running or written off,
\* so reserve and grant_budget together bound the calls in flight.
LEMMA CallsBounded ==
  ASSUME DecisionAssumption, IInv
  PROVE  CallsInFlight
<1> DEFINE running == With(run.calls, "running")
           unknown == With(run.calls, "unknown")
           entries == running \cup unknown
           n == Cardinality(unknown)
<1> SUFFICES ASSUME proposal.status # "deleted"
             PROVE  Cardinality(Calling) <= 1 + run.grants
  BY DEF CallsInFlight, Calling
<1>1. HoldsEntry /\ WrittenOff /\ run.grants \in Nat /\ run.calls \in Seq(Calls)
  BY DEF IInv, Ledger, TypeOK, Runs
<1>2. IsFiniteSet(unknown) /\ n \in Nat /\ n <= run.grants
  BY <1>1, FiniteEntries DEF WrittenOff
<1>3. IsFiniteSet(entries) /\ Cardinality(entries) \in Nat /\ Cardinality(entries) <= 1 + n
  <2>1. CASE running = {}
    BY <1>2, <2>1
  <2>2. ASSUME NEW i \in running
        PROVE  IsFiniteSet(entries) /\ Cardinality(entries) \in Nat /\ Cardinality(entries) <= 1 + n
    <3>1. entries = unknown \cup {i}
      BY <1>1, <2>2 DEF WrittenOff
    <3>2. /\ IsFiniteSet(unknown \cup {i})
          /\ Cardinality(unknown \cup {i}) = IF i \in unknown THEN n ELSE n + 1
      BY <1>2, FS_AddElement
    <3>3. QED  BY <1>2, <3>1, <3>2
  <2>3. QED  BY <2>1, <2>2
<1>4. IsFiniteSet(Calling) /\ Cardinality(Calling) <= Cardinality(entries)
  <2> DEFINE entry == [t \in Calling |-> worker[t].call]
  <2>1. entry \in Injection(Calling, entries)
    BY <1>1 DEF HoldsEntry, Injection, IsInjective
  <2>2. QED  BY <1>3, <2>1, FS_Injection
<1>5. Cardinality(Calling) \in Nat
  BY <1>4, FS_CardinalityType
<1>6. QED  BY <1>1, <1>2, <1>3, <1>4, <1>5

\* Two paid calls are in flight together only after a grant: reserve stops a
\* successor at the open reservation of a dead or slow worker.
THEOREM OneCallInFlight == Spec => []CallsInFlight
<1>1. IInv => CallsInFlight
  BY DecisionAssumption, CallsBounded
<1>2. QED  BY <1>1, Invariance, PTL

\* An open decision is never left without a job: execute_decision's except
\* clause closes it, or the job waits, or its failure can be retried.
THEOREM OpenDecisionHasWork == Spec => []ActiveRunHasWork
<1>1. IInv => ActiveRunHasWork
  BY DEF IInv
<1>2. QED  BY <1>1, Invariance, PTL

\* No step regains budget: reserve appends, settle lowers the charge only of a
\* call that returned, and grant_budget keeps the charges of lost calls.
THEOREM BudgetNeverRegained == Spec => NoRegainedBudget
<1> DEFINE Kept == \A i \in DOMAIN run.calls :
                     (i \in DOMAIN run'.calls /\ run'.calls[i].charged < run.calls[i].charged)
                       => run'.calls[i].status = "returned"
<1>1. IInv /\ [Next]_vars => Kept
  <2> SUFFICES ASSUME IInv, [Next]_vars
               PROVE  Kept
    OBVIOUS
  <2>1. /\ run \in Runs /\ run.calls \in Seq(Calls) /\ DOMAIN run.calls = 1 .. Len(run.calls)
        /\ \A i \in DOMAIN run.calls : run.calls[i] \in Calls
    <3>1. run \in Runs /\ run.calls \in Seq(Calls)
      BY DEF IInv, TypeOK, Runs
    <3>2. QED  BY <3>1
  <2>2. \A i \in DOMAIN run.calls : run.calls[i].charged \in Nat
    BY <2>1 DEF Calls
  <2>3. CASE run'.calls = run.calls
    BY <2>2, <2>3
  <2>4. CASE run'.calls = <<>>
    BY <2>4
  <2>5. CASE GrantBudget
    <3>1. \A i \in DOMAIN run.calls : run'.calls[i].charged = run.calls[i].charged
      BY <2>1, <2>5 DEF GrantBudget, Runs, Calls
    <3>2. QED  BY <2>2, <3>1
  <2>6. ASSUME NEW t \in Tokens, BeginCall(t)
        PROVE  Kept
    <3>1. PICK entry : run'.calls = Append(run.calls, entry)
      BY <2>1, <2>6 DEF BeginCall, Reserve, Runs
    <3>2. \A i \in DOMAIN run.calls : run'.calls[i] = run.calls[i]
      BY <2>1, <3>1
    <3>3. QED  BY <2>2, <3>2
  <2>7. ASSUME NEW t \in Tokens, Settle(t)
        PROVE  Kept
    BY <2>7, DecisionAssumption, SettleStep
  <2>8. ASSUME NEW t \in Tokens, NEW capacity \in BOOLEAN, Abort(t, capacity)
        PROVE  run'.calls = run.calls
    BY <2>1, <2>8 DEF Abort, Deferred, Runs
  <2>9. ASSUME NEW t \in Tokens, Execute(t), ~BeginCall(t), ~Settle(t)
        PROVE  run'.calls = run.calls \/ run'.calls = <<>>
    <3>1. CASE Start(t)
      BY <2>8, <3>1 DEF Start, InitialRun, NoRun
    <3>2. CASE SaveResult(t) \/ Gather(t)
      BY <2>1, <2>8, <3>2 DEF SaveResult, Gather, Saved, Runs
    <3>3. CASE SettleMissing(t) \/ GiveUp(t) \/ FailCall(t)
      <4>1. PICK capacity \in BOOLEAN : Abort(t, capacity)
        BY <3>3 DEF SettleMissing, GiveUp, FailCall
      <4>2. QED  BY <2>8, <4>1
    <3>4. CASE Apply(t)
      BY <2>1, <3>4 DEF Apply, Runs
    <3>5. QED  BY <2>9, <3>1, <3>2, <3>3, <3>4 DEF Execute
  <2>10. CASE Remove
    BY <2>4, <2>10 DEF Remove, NoRun
  <2>11. CASE \/ Schedule \/ RequestAnalysis \/ Edit \/ Review \/ UNCHANGED vars
              \/ \E j \in Jobs, t \in Tokens : Claim(j, t)
              \/ \E j \in Jobs : SupersedeQueued(j) \/ PutOff(j) \/ ExpireLease(j) \/ Recover(j) \/ BecomeDue(j)
              \/ \E t \in Tokens : Die(t)
    <3>1. run' = run
      BY <2>11 DEF Schedule, RequestAnalysis, Edit, Review, vars, Claim, SupersedeQueued,
                   PutOff, ExpireLease, Recover, BecomeDue, Die
    <3>2. QED  BY <2>3, <3>1
  <2>12. QED  BY <2>3, <2>4, <2>5, <2>6, <2>7, <2>9, <2>10, <2>11 DEF Next
<1>2. Kept => [Kept]_vars
  OBVIOUS
<1>3. QED  BY <1>1, Invariance, PTL DEF Spec, NoRegainedBudget

\* A review is final: execute_decision looks at the proposal again under the
\* lock, and no slower worker rewrites or decides what was reviewed meanwhile.
THEOREM ReviewStands == Spec => ReviewIsFinal
<1> DEFINE Final == proposal.status = "reviewed" =>
                      (proposal' = proposal \/ proposal'.status = "deleted")
<1>1. IInv /\ [Next]_vars => Final
  <2> SUFFICES ASSUME IInv, [Next]_vars, proposal.status = "reviewed"
               PROVE  proposal' = proposal \/ proposal'.status = "deleted"
    OBVIOUS
  <2>1. CASE Remove
    BY <2>1 DEF Remove, IInv, TypeOK, Proposals
  <2>2. ASSUME NEW t \in Tokens, Execute(t) \/ Die(t)
        PROVE  proposal' = proposal
    <3>1. CASE Apply(t)
      BY <3>1 DEF Apply, ApplyCurrent, Current
    <3>2. CASE ~Apply(t)
      BY <2>2, <3>2 DEF Execute, Die, Start, BeginCall, Settle, SettleMissing, SaveResult,
                        Gather, GiveUp, FailCall
    <3>3. QED  BY <3>1, <3>2
  <2>3. CASE \/ Schedule \/ RequestAnalysis \/ Edit \/ Review \/ GrantBudget \/ UNCHANGED vars
             \/ \E j \in Jobs, t \in Tokens : Claim(j, t)
             \/ \E j \in Jobs : SupersedeQueued(j) \/ PutOff(j) \/ ExpireLease(j) \/ Recover(j) \/ BecomeDue(j)
    BY <2>3 DEF Schedule, RequestAnalysis, Edit, Review, GrantBudget, vars, Claim,
                SupersedeQueued, PutOff, ExpireLease, Recover, BecomeDue
  <2>4. QED  BY <2>1, <2>2, <2>3 DEF Next
<1>2. QED  BY <1>1, Invariance, PTL DEF Spec, ReviewIsFinal

LEMMA AccountsInvariant == Spec => [](IInv /\ RowsInUse /\ Accounts)
<1>1. Init => RowsInUse
  BY IdleExecution DEF Init, RowsInUse
<1>2. Init => IInv /\ Accounts
  BY DecisionAssumption, TokenAssumption, InitStep, InitAccounts
<1>3. IInv /\ RowsInUse /\ Accounts /\ [Next]_vars => (IInv /\ RowsInUse /\ Accounts)'
  BY DecisionAssumption, TokenAssumption, NextStep, InUseStep, AccountsStep
<1>4. QED  BY <1>1, <1>2, <1>3, PTL DEF Spec

\* The charges of a decision stay within its budget and one call's overshoot:
\* reserve takes a reservation from what is left and refuses while another call
\* is open, so only the call being settled can pass the limit.
THEOREM BudgetIsBounded == Spec => []BudgetBound
<1>1. Accounts => BudgetBound
  BY DEF Accounts
<1>2. QED  BY <1>1, AccountsInvariant, PTL

\* What the calls reported is on the rows exactly once: call adds a usage to its
\* row only for a newly settled entry, and every new row begins with none.
THEOREM UsageIsAttributed == Spec => []UsageAttributedOnce
<1>1. Accounts => UsageAttributedOnce
  BY DEF Accounts
<1>2. QED  BY <1>1, AccountsInvariant, PTL

=============================================================================
