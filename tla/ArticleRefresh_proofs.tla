----------------------- MODULE ArticleRefresh_proofs -----------------------
(***************************************************************************)
(* Theorems about ArticleRefresh, for any number of images, attempts,      *)
(* retries and events.                                                     *)
(*                                                                         *)
(* A promotion overwrites the publication with a draft that was copied     *)
(* from it some time ago and that several workers have changed since.      *)
(* Nothing is lost because every draft, the stored one and the copies that *)
(* workers and promotions carry, holds the same edits as the base the      *)
(* candidate was opened from (SameEdits), and the commit compares the      *)
(* publication with that base.  Consent binds because a version names one  *)
(* draft (VersionNamesDraft).                                              *)
(***************************************************************************)
EXTENDS ArticleRefresh, TLAPS

\* Nothing refers to a candidate that is not open yet.
KnownCandidates ==
    /\ \A s \in Slots : jobs[s].refresh <= refresh.id
    /\ \A w \in workers : w.refresh <= refresh.id
    /\ \A p \in prepared : p.refresh <= refresh.id
    /\ seen.refresh <= refresh.id

\* Every copy of the candidate's draft contains the edits of its base.
SameEdits ==
    /\ refresh.draft.edits = refresh.base.edits
    /\ \A w \in workers : w.phase = "read" /\ w.refresh = refresh.id =>
                             w.draft.edits = refresh.base.edits
    /\ \A p \in prepared : p.refresh = refresh.id => p.draft.edits = refresh.base.edits

\* What an administrator saw under a version is what that version still is.
VersionNamesDraft ==
    /\ seen.refresh = refresh.id =>
          /\ seen.version <= refresh.version
          /\ seen.version = refresh.version => seen.draft = refresh.draft
    /\ \A p \in prepared : p.by = "editor" => p.draft = p.consent

IInv == TypeOK /\ EditsSurvive /\ KnownCandidates /\ SameEdits /\ VersionNamesDraft

-----------------------------------------------------------------------------
(* The writes the actions share.                                           *)

\* Every write to a candidate is a new version of it.
LEMMA VersionedCandidate ==
  ASSUME NEW r \in Refreshes
  PROVE  /\ Versioned(r) \in Refreshes
         /\ Versioned(r).id = r.id /\ Versioned(r).base = r.base
         /\ Versioned(r).target = r.target
         /\ Versioned(r).version = r.version + 1 /\ Versioned(r).draft = r.draft
  BY DEF Versioned, Refreshes

\* The selection of another job leaves the draft alone.
LEMMA SelectedCandidate ==
  ASSUME NEW r \in Refreshes
  PROVE  /\ Selecting(r) \in Refreshes
         /\ Selecting(r).id = r.id /\ Selecting(r).base = r.base
         /\ Selecting(r).target = r.target
         /\ Selecting(r).version = r.version + 1 /\ Selecting(r).draft = r.draft
  BY VersionedCandidate DEF Selecting, Refreshes

LEMMA StoredCandidate ==
  ASSUME NEW r \in Refreshes, r.draft.image \in Images
  PROVE  /\ Storing(r) \in Refreshes
         /\ Storing(r).id = r.id /\ Storing(r).base = r.base
         /\ Storing(r).target = r.target
         /\ Storing(r).version = r.version + 1 /\ Storing(r).draft = r.draft
  BY SelectedCandidate DEF Storing, Refreshes

LEMMA TouchedCandidate ==
  ASSUME NEW r \in Refreshes, NEW v \in Views
  PROVE  /\ Touched(r, v) \in Refreshes
         /\ Touched(r, v).id = r.id /\ Touched(r, v).base = r.base
         /\ Touched(r, v).target = r.target
         /\ Touched(r, v).version = r.version + 1 /\ Touched(r, v).draft = v
  BY SelectedCandidate DEF Touched, Refreshes

LEMMA EndedCandidate ==
  ASSUME NEW r \in Refreshes,
         NEW status \in {"review", "promoted", "superseded", "cancelled"}
  PROVE  /\ Ended(r, status) \in Refreshes
         /\ Ended(r, status).id = r.id /\ Ended(r, status).base = r.base
         /\ Ended(r, status).target = r.target
         /\ Ended(r, status).version = r.version + 1 /\ Ended(r, status).draft = r.draft
         /\ Ended(r, status).status = status
  BY VersionedCandidate DEF Ended, Refreshes

LEMMA QueuedJob ==
  ASSUME NEW s \in Slots, NEW id \in Nat, NEW v \in Views, NEW c \in Nat
  PROVE  NewJob(s, id, v, c) \in Jobs /\ NewJob(s, id, v, c).refresh = id
  BY DEF NewJob, Jobs, Views, Slots

\* A finished or failed job keeps its candidate.
LEMMA FinishedJob ==
  ASSUME jobs \in [Slots -> Jobs], NEW s \in Slots,
         NEW outcome \in {"applied", "paywalled", "stopped", "insufficient"}
  PROVE  /\ Finished(s, outcome) \in [Slots -> Jobs]
         /\ \A k \in Slots : Finished(s, outcome)[k].refresh = jobs[k].refresh
  BY DEF Finished, Jobs

LEMMA RetriedJob ==
  ASSUME jobs \in [Slots -> Jobs], NEW s \in Slots, NEW retryable \in BOOLEAN
  PROVE  /\ FailedJob(s, retryable) \in [Slots -> Jobs]
         /\ \A k \in Slots : FailedJob(s, retryable)[k].refresh = jobs[k].refresh
<1>1. PICK status \in {"queued", "failed"} :
        FailedJob(s, retryable)
          = [jobs EXCEPT ![s] = [@ EXCEPT !.token = 0, !.status = status]]
  BY DEF FailedJob
<1> DEFINE freed == [jobs[s] EXCEPT !.token = 0]
           failed == [freed EXCEPT !.status = status]
<1>2. freed \in Jobs /\ freed.refresh = jobs[s].refresh
  BY DEF Jobs
<1>3. failed \in Jobs /\ failed.refresh = jobs[s].refresh
  <2> HIDE DEF freed
  <2> QED  BY <1>2 DEF Jobs
<1>4. FailedJob(s, retryable) = [jobs EXCEPT ![s] = failed]
  BY <1>1
<1> HIDE DEF failed
<1> QED  BY <1>3, <1>4

LEMMA NewWorker ==
  ASSUME TypeOK, RefreshAssumption, NEW s \in Slots, NEW token \in Nat, NEW phase \in {"preview", "working"},
         NEW version \in Nat
  PROVE  /\ Worker(s, token, phase, version) \in Workers
         /\ Worker(s, token, phase, version).refresh = jobs[s].refresh
         /\ Worker(s, token, phase, version).phase = phase
  BY DEF Worker, NoView, Workers, Views, TypeOK, Jobs

-----------------------------------------------------------------------------
(* Type correctness.                                                       *)

LEMMA TypeInit ==
  ASSUME RefreshAssumption, Init
  PROVE  TypeOK
<1>1. PICK image \in FirstImages :
        article = [view |-> [text |-> 0, judged |-> Judgement(0, 0), image |-> image,
                             stored |-> image, edits |-> 0],
                   revision |-> 0, shown |-> TRUE]
  BY DEF Init
<1>2. article.view \in Views
  BY <1>1 DEF Views, Judgement, RefreshAssumption
<1>3. article \in [view : Views, revision : Nat, shown : BOOLEAN]
  BY <1>1, <1>2
<1>4. refresh \in Refreshes
  BY <1>2 DEF Init, NoRefresh, Refreshes, Targets
<1>5. jobs \in [Slots -> Jobs]
  BY DEF Init, NoJob, Jobs
<1>6. seen \in [refresh : Nat, version : Nat, draft : Views]
  BY <1>2 DEF Init
<1> QED  BY <1>3, <1>4, <1>5, <1>6 DEF Init, TypeOK

LEMMA CountedType ==
  ASSUME TypeOK
  PROVE  /\ Counted \in [edits : Nat, events : Nat, retries : Nat, tokens : Nat]
         /\ Counted.edits = bounds.edits
  BY DEF Counted, TypeOK

Operators ==
    \/ \E target \in Targets : Retry(target)
    \/ \E s \in Slots : RetryJob(s)
    \/ Look \/ Reject \/ Approve

\* The retry of a failed job selects a new one for the candidate's draft: of the
\* same slot, or among those for images of the slot the draft's image calls for.
LEMMA RequeuedJob ==
  ASSUME TypeOK, NEW s \in Slots, RetryJob(s)
  PROVE  /\ Active(refresh) /\ Selected(s)
         /\ \E k \in Slots :
               /\ k \in {s, "discovery", "storage"}
               /\ k = s \/ s \in {"discovery", "storage"}
               /\ k = "storage" => refresh.draft.image # NoImage
               /\ k = "discovery" => refresh.draft.image = NoImage
               /\ jobs' = [jobs EXCEPT ![k] = NewJob(k, refresh.id, refresh.draft, catalog)]
               /\ NewJob(k, refresh.id, refresh.draft, catalog) \in Jobs
               /\ NewJob(k, refresh.id, refresh.draft, catalog).refresh = refresh.id
               /\ refresh' = IF k = "storage" THEN Storing(refresh) ELSE Selecting(refresh)
         /\ refresh' \in Refreshes
         /\ refresh'.id = refresh.id /\ refresh'.base = refresh.base
         /\ refresh'.target = refresh.target
         /\ refresh'.version = refresh.version + 1 /\ refresh'.draft = refresh.draft
         /\ bounds' = [Counted EXCEPT !.retries = @ + 1]
         /\ UNCHANGED <<article, authority, catalog, workers, prepared, seen>>
<1> DEFINE k == IF s \in {"discovery", "storage"} THEN Slot("images", refresh) ELSE s
<1>1. /\ refresh \in Refreshes /\ refresh.id \in Nat /\ refresh.draft \in Views /\ catalog \in Nat
      /\ refresh.draft.image \in Images \cup {NoImage}
  BY DEF TypeOK, Refreshes, Views
<1>2. /\ k \in Slots /\ k \in {s, "discovery", "storage"}
      /\ k = s \/ s \in {"discovery", "storage"}
      /\ k = "storage" => refresh.draft.image # NoImage
      /\ k = "discovery" => refresh.draft.image = NoImage
  BY DEF Slot, Slots
<1>3. /\ jobs' = [jobs EXCEPT ![k] = NewJob(k, refresh.id, refresh.draft, catalog)]
      /\ refresh' = IF k = "storage" THEN Storing(refresh) ELSE Selecting(refresh)
      /\ bounds' = [Counted EXCEPT !.retries = @ + 1]
      /\ UNCHANGED <<article, authority, catalog, workers, prepared, seen>>
      /\ Active(refresh) /\ Selected(s)
  BY DEF RetryJob, Live
<1> HIDE DEF k
<1>4. /\ NewJob(k, refresh.id, refresh.draft, catalog) \in Jobs
      /\ NewJob(k, refresh.id, refresh.draft, catalog).refresh = refresh.id
  BY <1>1, <1>2, QueuedJob
<1>5. /\ refresh' \in Refreshes
      /\ refresh'.id = refresh.id /\ refresh'.base = refresh.base
      /\ refresh'.target = refresh.target
      /\ refresh'.version = refresh.version + 1 /\ refresh'.draft = refresh.draft
  BY <1>1, <1>2, <1>3, SelectedCandidate, StoredCandidate
<1> QED  BY <1>2, <1>3, <1>4, <1>5

\* What an operator does.
LEMMA TypeOperators ==
  ASSUME TypeOK, Operators
  PROVE  TypeOK'
<1>1. CASE \E target \in Targets : Retry(target)
  <2>1. PICK target \in Targets : Retry(target)
    BY <1>1
  <2> DEFINE r == Owner(target)
             s == Slot(target, r)
  <2>2. r \in Refreshes
    BY DEF Owner, TypeOK, Refreshes
  <2>3. s \in Slots /\ (s = "storage" => r.draft.image # NoImage)
    BY DEF Slot, Slots, Targets
  <2>4. r.id \in Nat /\ r.draft \in Views /\ r.draft.image \in Images \cup {NoImage}
    BY <2>2 DEF Refreshes, Views
  <2>5. NewJob(s, r.id, r.draft, catalog) \in Jobs
    BY <2>3, <2>4, QueuedJob DEF TypeOK
  <2>6. jobs' \in [Slots -> Jobs]
    <3>1. jobs' = [jobs EXCEPT ![s] = NewJob(s, r.id, r.draft, catalog)]
      BY <2>1 DEF Retry
    <3> HIDE DEF s, r
    <3> QED  BY <3>1, <2>5, <2>3 DEF TypeOK
  <2>7. refresh' \in Refreshes
    <3>1. refresh' = IF s = "storage" THEN Storing(r) ELSE Selecting(r)
      BY <2>1 DEF Retry
    <3> HIDE DEF s, r
    <3> QED  BY <3>1, <2>2, <2>3, <2>4, SelectedCandidate, StoredCandidate
  <2>8. /\ bounds' = [Counted EXCEPT !.retries = @ + 1]
        /\ UNCHANGED <<article, authority, catalog, workers, prepared, seen>>
    BY <2>1 DEF Retry
  <2>9. bounds' \in [edits : Nat, events : Nat, retries : Nat, tokens : Nat]
    BY <2>8, CountedType
  <2> QED  BY <2>6, <2>7, <2>8, <2>9 DEF TypeOK
<1>2. CASE Look
  BY <1>2 DEF Look, TypeOK, Refreshes
<1>3. CASE Reject
  BY <1>3, EndedCandidate DEF Reject, TypeOK
<1>4. CASE Approve
  BY <1>4 DEF Approve, Prepared, TypeOK, Refreshes, Preparations
<1>5. ASSUME NEW s \in Slots, RetryJob(s) PROVE TypeOK'
  BY <1>5, RequeuedJob, CountedType DEF TypeOK
<1> QED  BY <1>1, <1>2, <1>3, <1>4, <1>5 DEF Operators

\* What the scheduler does.
LEMMA TypeResume ==
  ASSUME TypeOK, Resume
  PROVE  TypeOK'
<1>1. CASE Prepare
  <2>1. NextStage \in {"promote", "analysis", "images"}
    BY <1>1 DEF Prepare, NextStage
  <2> QED  BY <1>1, <2>1 DEF Prepare, Prepared, TypeOK, Refreshes, Preparations
<1>2. CASE Retire
  BY <1>2, EndedCandidate DEF Retire, TypeOK
<1>3. CASE \E p \in prepared : Commit(p)
  <2>1. PICK p \in prepared : Commit(p)
    BY <1>3
  <2>2. p \in Preparations
    BY DEF TypeOK
  <2>3. /\ prepared' \subseteq Preparations
        /\ UNCHANGED <<authority, catalog, workers, seen, bounds>>
    BY <2>1 DEF Commit, CommitPromotion, CommitAnalysis, CommitImages, Drop, TypeOK
  <2>4. article' \in [view : Views, revision : Nat, shown : BOOLEAN]
    <3>1. NextRevision \in Nat /\ p.draft \in Views
      BY <2>2 DEF NextRevision, TypeOK, Preparations
    <3>2. article' = article \/ article' = [article EXCEPT !.view = p.draft, !.revision = NextRevision]
      BY <2>1 DEF Commit, CommitPromotion, CommitAnalysis, CommitImages
    <3> QED  BY <3>1, <3>2 DEF TypeOK
  <2>5. refresh' \in Refreshes
    <3>1. CASE CommitPromotion(p)
      BY <3>1, EndedCandidate DEF CommitPromotion, TypeOK
    <3>2. CASE CommitAnalysis(p)
      BY <3>2, SelectedCandidate DEF CommitAnalysis, TypeOK
    <3>3. CASE CommitImages(p)
      <4>1. refresh.draft.image \in Images \cup {NoImage}
        BY DEF TypeOK, Refreshes, Views
      <4> QED  BY <3>3, <4>1, StoredCandidate DEF CommitImages, Imaging, StorageDue, TypeOK
    <3> QED  BY <2>1, <3>1, <3>2, <3>3 DEF Commit
  <2>6. jobs' \in [Slots -> Jobs]
    <3>1. /\ NewJob("analysis", refresh.id, refresh.draft, p.catalog) \in Jobs
          /\ StorageJob(refresh) \in Jobs
      BY <2>2, QueuedJob DEF TypeOK, Refreshes, Preparations, StorageJob, Slots
    <3> QED  BY <2>1, <3>1 DEF Commit, CommitPromotion, CommitAnalysis, CommitImages, TypeOK
  <2> QED  BY <2>3, <2>4, <2>5, <2>6 DEF TypeOK
<1> QED  BY <1>1, <1>2, <1>3 DEF Resume

\* A claim queues nothing and starts at most one worker.
LEMMA StartType ==
  ASSUME TypeOK, RefreshAssumption, NEW s \in Slots, NEW before \in SUBSET Workers, Start(s, before)
  PROVE  /\ jobs' \in [Slots -> Jobs]
         /\ \A k \in Slots : jobs'[k].refresh = jobs[k].refresh
         /\ workers' \subseteq Workers
         /\ \A w \in workers' \ before : w.refresh = jobs[s].refresh /\ w.phase = "working"
         /\ bounds' \in [edits : Nat, events : Nat, retries : Nat, tokens : Nat]
         /\ bounds'.edits = bounds.edits
<1> DEFINE version == IF s = "analysis" THEN refresh.version ELSE 0
<1>1. bounds.tokens + 1 \in Nat /\ version \in Nat
  BY DEF TypeOK, Refreshes
<1>2. /\ Worker(s, bounds.tokens + 1, "working", version) \in Workers
      /\ Worker(s, bounds.tokens + 1, "working", version).refresh = jobs[s].refresh
      /\ Worker(s, bounds.tokens + 1, "working", version).phase = "working"
  BY <1>1, NewWorker
<1>3. workers' = before \cup {Worker(s, bounds.tokens + 1, "working", version)}
  BY DEF Start
<1>4. /\ jobs' \in [Slots -> Jobs]
      /\ \A k \in Slots : jobs'[k].refresh = jobs[k].refresh
  <2> DEFINE a == [jobs[s] EXCEPT !.status = "running"]
             b == [a EXCEPT !.token = bounds.tokens + 1]
             c == [b EXCEPT !.attempts = jobs[s].attempts + 1]
  <2>1. jobs[s] \in Jobs /\ jobs[s].attempts + 1 \in Nat
    BY DEF TypeOK, Jobs
  <2>2. a \in Jobs /\ a.refresh = jobs[s].refresh
    BY <2>1 DEF Jobs
  <2> HIDE DEF a
  <2>3. b \in Jobs /\ b.refresh = jobs[s].refresh
    BY <2>2, <1>1 DEF Jobs
  <2> HIDE DEF b
  <2>4. c \in Jobs /\ c.refresh = jobs[s].refresh
    BY <2>3, <2>1 DEF Jobs
  <2>5. jobs' = [jobs EXCEPT ![s] = c]
    BY DEF Start, a, b
  <2> HIDE DEF c
  <2> QED  BY <2>4, <2>5 DEF TypeOK
<1>5. /\ bounds' \in [edits : Nat, events : Nat, retries : Nat, tokens : Nat]
      /\ bounds'.edits = bounds.edits
  BY DEF Start, TypeOK
<1> HIDE DEF version
<1> QED  BY <1>2, <1>3, <1>4, <1>5

LEMMA TypeClaims ==
  ASSUME TypeOK, RefreshAssumption, Preview \/ \E s \in Slots : Claim(s) \/ Recover(s)
  PROVE  TypeOK'
<1>1. CASE Preview
  <2>1. refresh.version \in Nat /\ "analysis" \in Slots
    BY DEF TypeOK, Refreshes, Slots
  <2>2. Worker("analysis", 0, "preview", refresh.version) \in Workers
    BY <2>1, NewWorker
  <2> QED  BY <1>1, <2>2 DEF Preview, TypeOK
<1>2. ASSUME NEW s \in Slots, Claim(s)
      PROVE  TypeOK'
  <2>1. CASE Start(s, workers)
    BY <1>2, <2>1, StartType DEF Claim, TypeOK
  <2>2. CASE jobs' = Finished(s, "stopped") /\ UNCHANGED <<workers, bounds>>
    BY <1>2, <2>2, FinishedJob DEF Claim, TypeOK
  <2> QED  BY <1>2, <2>1, <2>2 DEF Claim
<1>3. ASSUME NEW s \in Slots, Recover(s)
      PROVE  TypeOK'
  BY <1>3, RetriedJob, CountedType DEF Recover, Event, TypeOK
<1> QED  BY <1>1, <1>2, <1>3

LEMMA StorageJobType ==
  ASSUME NEW r \in Refreshes, TypeOK
  PROVE  StorageJob(r) \in Jobs /\ StorageJob(r).refresh = r.id
<1>1. r.id \in Nat /\ r.draft \in Views /\ catalog \in Nat /\ "storage" \in Slots
  BY DEF TypeOK, Refreshes, Slots
<1> QED  BY <1>1, QueuedJob DEF StorageJob

LEMMA AgainShape ==
  ASSUME TypeOK, RefreshAssumption, NEW w \in workers, Again(w)
  PROVE  /\ jobs' \in [Slots -> Jobs]
         /\ \A k \in Slots : jobs'[k].refresh = jobs[k].refresh
         /\ workers' \subseteq Workers
         /\ \A x \in workers' \ workers : x.refresh = w.refresh /\ x.phase = "working"
         /\ UNCHANGED <<article, authority, catalog, refresh, prepared, seen, bounds>>
<1> DEFINE v == [w EXCEPT !.phase = "working", !.tries = w.tries + 1]
<1>1. w \in Workers /\ w.slot \in Slots
  BY DEF TypeOK, Workers
<1>2. v \in Workers /\ v.refresh = w.refresh /\ v.phase = "working"
  <2> DEFINE u == [w EXCEPT !.phase = "working"]
  <2>1. u \in Workers /\ u.refresh = w.refresh /\ u.phase = "working" /\ w.tries + 1 \in Nat
    BY <1>1 DEF Workers
  <2>2. v = [u EXCEPT !.tries = w.tries + 1]
    OBVIOUS
  <2> HIDE DEF u, v
  <2> QED  BY <2>1, <2>2 DEF Workers
<1>3. jobs' = jobs \/ jobs' = FailedJob(w.slot, TRUE)
  BY DEF Again
<1>4. workers' \subseteq workers \cup {v}
  BY DEF Again
<1>5. /\ jobs' \in [Slots -> Jobs]
      /\ \A k \in Slots : jobs'[k].refresh = jobs[k].refresh
  <2>1. jobs \in [Slots -> Jobs]
    BY DEF TypeOK
  <2>2. CASE jobs' = jobs
    BY <2>1, <2>2
  <2>3. CASE jobs' = FailedJob(w.slot, TRUE)
    BY <1>1, <2>1, <2>3, RetriedJob
  <2> QED  BY <1>3, <2>2, <2>3
<1>6. UNCHANGED <<article, authority, catalog, refresh, prepared, seen, bounds>>
  BY DEF Again
<1>7. workers \subseteq Workers
  BY DEF TypeOK
<1> HIDE DEF v
<1>8. /\ workers' \subseteq Workers
      /\ \A x \in workers' \ workers : x.refresh = w.refresh /\ x.phase = "working"
  BY <1>2, <1>4, <1>7
<1> QED  BY <1>5, <1>6, <1>8

LEMMA TypeWork ==
  ASSUME TypeOK, RefreshAssumption, NEW w \in workers, Work(w) \/ Fail(w)
  PROVE  TypeOK'
<1>0. w \in Workers /\ w.slot \in Slots /\ w.draft \in Views /\ w.catalog \in Nat
  BY DEF TypeOK, Workers
<1>1. CASE ClaimAnalysis(w)
  <2>0. "analysis" \in Slots /\ workers \ {w} \in SUBSET Workers
    BY DEF Slots, TypeOK
  <2>1. CASE Start("analysis", workers \ {w})
    BY <1>1, <2>0, <2>1, StartType DEF ClaimAnalysis, TypeOK
  <2>2. CASE (jobs' = Finished("analysis", "stopped") \/ jobs' = jobs) /\ workers' = workers \ {w} /\ UNCHANGED bounds
    BY <1>1, <2>0, <2>2, FinishedJob DEF ClaimAnalysis, TypeOK
  <2> QED  BY <1>1, <2>1, <2>2 DEF ClaimAnalysis
<1>2. CASE Lost(w)
  BY <1>2 DEF Lost, Leave, TypeOK
<1>3. CASE Stop(w)
  BY <1>0, <1>3, FinishedJob DEF Stop, Leave, TypeOK
<1>4. CASE ReadDraft(w)
  <2> DEFINE v == [w EXCEPT !.phase = "read", !.version = refresh.version, !.draft = refresh.draft,
                           !.catalog = IF w.slot = "analysis" THEN catalog ELSE 0]
  <2>1. v \in Workers
    BY <1>0 DEF Workers, TypeOK, Refreshes
  <2> QED  BY <1>4, <2>1 DEF ReadDraft, TypeOK
<1>5. CASE ApplyEnrichment(w)
  <2>1. CASE Again(w)
    BY <2>1, AgainShape DEF TypeOK
  <2>2. CASE ~Again(w)
    <3>1. PICK text \in {w.draft.text, w.draft.text + 1}, image \in {w.draft.image} \cup Images :
            refresh' = Touched(refresh, Extracting(w.draft, text, image))
      BY <1>5, <2>2 DEF ApplyEnrichment
    <3>2. Extracting(w.draft, text, image) \in Views
      BY <1>0, <3>1 DEF Extracting, Views
    <3>3. refresh' \in Refreshes
      BY <3>1, <3>2, TouchedCandidate DEF TypeOK
    <3>4. PICK outcome \in {"applied", "paywalled"} : jobs' = Finished("enrichment", outcome)
      BY <1>5, <2>2 DEF ApplyEnrichment
    <3>5. Leave(w)
      BY <1>5, <2>2 DEF ApplyEnrichment
    <3> QED  BY <3>3, <3>4, <3>5, FinishedJob DEF Leave, TypeOK, Slots
  <2> QED  BY <2>1, <2>2
<1>6. CASE ApplyAnalysis(w)
  <2>1. CASE Again(w)
    BY <2>1, AgainShape DEF TypeOK
  <2>2. CASE jobs' = Finished("analysis", "stopped") /\ Leave(w) /\ UNCHANGED refresh
    BY <2>2, FinishedJob DEF Leave, TypeOK, Slots
  <2>3. CASE ~Again(w) /\ ~(jobs' = Finished("analysis", "stopped") /\ Leave(w) /\ UNCHANGED refresh)
    <3>1. PICK outcome \in {"applied", "insufficient"} :
            /\ refresh' = Touched(refresh, [w.draft EXCEPT !.judged =
                  IF outcome = "applied" THEN Judgement(w.draft.text, w.catalog) ELSE {}])
            /\ jobs' = Finished("analysis", outcome)
      BY <1>6, <2>3 DEF ApplyAnalysis
    <3>2. [w.draft EXCEPT !.judged =
             IF outcome = "applied" THEN Judgement(w.draft.text, w.catalog) ELSE {}] \in Views
      BY <1>0 DEF Views, Judgement
    <3>3. refresh' \in Refreshes
      BY <3>1, <3>2, TouchedCandidate DEF TypeOK
    <3>4. Leave(w)
      BY <1>6, <2>3 DEF ApplyAnalysis
    <3> QED  BY <3>1, <3>3, <3>4, FinishedJob DEF Leave, TypeOK, Slots
  <2> QED  BY <2>1, <2>2, <2>3
<1>7. CASE FinishDiscovery(w)
  <2>1. PICK view \in Views, outcome \in {"applied", "stopped"} :
          LET r == Touched(refresh, view)
              done == Finished("discovery", outcome)
          IN IF StorageDue(r)
             THEN /\ jobs' = [done EXCEPT !["storage"] = StorageJob(r)]
                  /\ refresh' = Storing(r)
             ELSE jobs' = done /\ refresh' = r
    <3>1. PICK found \in Images \cup {NoImage} :
          LET expected == refresh.draft.image = jobs["discovery"].image
              view == IF found # NoImage /\ expected
                      THEN [refresh.draft EXCEPT !.image = found, !.stored = NoImage]
                      ELSE refresh.draft
              r == Touched(refresh, view)
              done == Finished("discovery", IF found = NoImage \/ expected THEN "applied" ELSE "stopped")
          IN IF StorageDue(r)
             THEN /\ jobs' = [done EXCEPT !["storage"] = StorageJob(r)]
                  /\ refresh' = Storing(r)
             ELSE jobs' = done /\ refresh' = r
      BY <1>7 DEF FinishDiscovery
    <3>2. refresh.draft \in Views
      BY DEF TypeOK, Refreshes
    <3>3. [refresh.draft EXCEPT !.image = found, !.stored = NoImage] \in Views
      BY <3>2 DEF Views
    <3> QED  BY <3>1, <3>2, <3>3
  <2> DEFINE r == Touched(refresh, view)
  <2>2. r \in Refreshes /\ r.draft = view
    BY TouchedCandidate DEF TypeOK
  <2>3. StorageDue(r) => r.draft.image \in Images
    BY <2>2 DEF StorageDue, Views
  <2>4. refresh' \in Refreshes
    BY <2>1, <2>2, <2>3, StoredCandidate
  <2>5. Finished("discovery", outcome) \in [Slots -> Jobs] /\ StorageJob(r) \in Jobs
    BY <2>2, FinishedJob, StorageJobType DEF TypeOK, Slots
  <2>6. jobs' \in [Slots -> Jobs]
    BY <2>1, <2>5
  <2> QED  BY <1>7, <2>4, <2>6 DEF FinishDiscovery, Leave, TypeOK
<1>8. CASE FinishStorage(w)
  <2>1. [refresh.draft EXCEPT !.stored = jobs["storage"].image] \in Views
    BY DEF TypeOK, Refreshes, Views, Jobs, Slots
  <2>2. refresh' \in Refreshes
    BY <1>8, <2>1, TouchedCandidate DEF FinishStorage, TypeOK
  <2> QED  BY <1>8, <2>2, FinishedJob DEF FinishStorage, Leave, TypeOK, Slots
<1>9. CASE Fail(w)
  BY <1>0, <1>9, RetriedJob, CountedType DEF Fail, Event, TypeOK
<1> QED  BY <1>1, <1>2, <1>3, <1>4, <1>5, <1>6, <1>7, <1>8, <1>9 DEF Work

LEMMA TypeChanges ==
  ASSUME TypeOK, Edit \/ ShowOrHide \/ Authorise \/ ChangeCatalog
  PROVE  TypeOK'
<1>1. CASE Edit
  <2>1. PICK step \in {0, 1} :
          article' = [view |-> [article.view EXCEPT !.edits = @ + 1],
                      revision |-> article.revision + step, shown |-> article.shown]
    BY <1>1 DEF Edit
  <2>2. [article.view EXCEPT !.edits = @ + 1] \in Views
    BY DEF TypeOK, Views
  <2>3. article' \in [view : Views, revision : Nat, shown : BOOLEAN]
    BY <2>1, <2>2 DEF TypeOK
  <2>4. bounds' \in [edits : Nat, events : Nat, retries : Nat, tokens : Nat]
    BY <1>1, CountedType DEF Edit
  <2> QED  BY <1>1, <2>3, <2>4 DEF Edit, TypeOK
<1>2. CASE ShowOrHide
  BY <1>2, CountedType DEF ShowOrHide, Change, Event, TypeOK
<1>3. CASE Authorise
  BY <1>3, CountedType DEF Authorise, Change, Event, TypeOK
<1>4. CASE ChangeCatalog
  BY <1>4, CountedType DEF ChangeCatalog, Change, Event, TypeOK
<1> QED  BY <1>1, <1>2, <1>3, <1>4

LEMMA TypeStep ==
  ASSUME TypeOK, RefreshAssumption, [Next]_vars
  PROVE  TypeOK'
<1>1. CASE UNCHANGED vars
  BY <1>1 DEF vars, TypeOK
<1> QED  BY <1>1, TypeOperators, TypeResume, TypeClaims, TypeWork, TypeChanges
          DEF Next, Operators

\* Types: every draft that is stored or carried is a view, every job and worker a
\* record of the models (ArticleRefresh, ArticleEnrichmentJob, ArticleAnalysisJob,
\* ArticleImageJob).
THEOREM TypeCorrect == Spec => []TypeOK
<1>1. Init => TypeOK
  BY RefreshAssumption, TypeInit
<1>2. TypeOK /\ [Next]_vars => TypeOK'
  BY RefreshAssumption, TypeStep
<1> QED  BY <1>1, <1>2, PTL DEF Spec

-----------------------------------------------------------------------------
(* The inductive invariant.  A step leaves the candidate alone, makes a    *)
(* new version of it with the same edits, or opens the next one from the   *)
(* publication; and what it copies, it copies from the candidate.          *)

SameCandidate ==
    \/ refresh' = refresh
    \/ /\ refresh'.id = refresh.id /\ refresh'.version > refresh.version
       /\ refresh'.base = refresh.base
       /\ refresh'.draft.edits = refresh.base.edits
    \/ refresh'.id = refresh.id + 1 /\ refresh'.draft.edits = refresh'.base.edits

FreshWorker(w) ==
    /\ w.refresh <= refresh.id
    /\ w.phase = "read" => refresh' = refresh /\ w.draft = refresh.draft

FreshPreparation(p) ==
    /\ refresh' = refresh /\ p.refresh = refresh.id /\ p.draft = refresh.draft
    /\ p.by = "editor" => p.draft = p.consent

Shape ==
    /\ SameCandidate
    /\ \A s \in Slots : jobs'[s].refresh \in {jobs[s].refresh, refresh'.id}
    /\ \A w \in workers' \ workers : FreshWorker(w)
    /\ \A p \in prepared' \ prepared : FreshPreparation(p)
    /\ \/ seen' = seen
       \/ /\ refresh' = refresh
          /\ seen' = [refresh |-> refresh.id, version |-> refresh.version, draft |-> refresh.draft]

LEMMA ShapePreserves ==
  ASSUME TypeOK, TypeOK', KnownCandidates, SameEdits, VersionNamesDraft, Shape
  PROVE  KnownCandidates' /\ SameEdits' /\ VersionNamesDraft'
<1>1. /\ refresh.id \in Nat /\ refresh'.id \in Nat
      /\ refresh.version \in Nat /\ refresh'.version \in Nat
      /\ \A s \in Slots : jobs[s].refresh \in Nat
      /\ \A w \in workers : w.refresh \in Nat
      /\ \A p \in prepared : p.refresh \in Nat
      /\ seen.refresh \in Nat /\ seen.version \in Nat
  BY DEF TypeOK, Refreshes, Jobs, Workers, Preparations
<1>2. /\ refresh.id <= refresh'.id
      /\ refresh'.id = refresh.id => refresh'.base.edits = refresh.base.edits
      /\ refresh'.draft.edits = refresh'.base.edits
  BY <1>1 DEF Shape, SameCandidate, SameEdits
<1>3. KnownCandidates'
  <2>1. \A s \in Slots : jobs'[s].refresh <= refresh'.id
    BY <1>1, <1>2 DEF KnownCandidates, Shape
  <2>2. ASSUME NEW w \in workers' PROVE w.refresh <= refresh'.id
    <3>1. w.refresh \in Nat
      BY DEF TypeOK, Workers
    <3> QED  BY <1>1, <1>2, <2>2, <3>1 DEF KnownCandidates, Shape, FreshWorker
  <2>3. ASSUME NEW p \in prepared' PROVE p.refresh <= refresh'.id
    <3>1. p.refresh \in Nat
      BY DEF TypeOK, Preparations
    <3> QED  BY <1>1, <1>2, <2>3, <3>1 DEF KnownCandidates, Shape, FreshPreparation
  <2>4. seen'.refresh <= refresh'.id
    BY <1>1, <1>2 DEF KnownCandidates, Shape
  <2> QED  BY <2>1, <2>2, <2>3, <2>4 DEF KnownCandidates
<1>4. SameEdits'
  <2>1. ASSUME NEW w \in workers', w.phase = "read", w.refresh = refresh'.id
        PROVE  w.draft.edits = refresh'.base.edits
    <3>1. CASE w \in workers
      BY <1>1, <1>2, <2>1, <3>1 DEF KnownCandidates, SameEdits
    <3>2. CASE w \notin workers
      BY <2>1, <3>2 DEF Shape, FreshWorker, SameEdits
    <3> QED  BY <3>1, <3>2
  <2>2. ASSUME NEW p \in prepared', p.refresh = refresh'.id
        PROVE  p.draft.edits = refresh'.base.edits
    <3>1. CASE p \in prepared
      BY <1>1, <1>2, <2>2, <3>1 DEF KnownCandidates, SameEdits
    <3>2. CASE p \notin prepared
      BY <2>2, <3>2 DEF Shape, FreshPreparation, SameEdits
    <3> QED  BY <3>1, <3>2
  <2> QED  BY <1>2, <2>1, <2>2 DEF SameEdits
<1>5. VersionNamesDraft'
  <2>1. ASSUME seen'.refresh = refresh'.id
        PROVE  /\ seen'.version <= refresh'.version
               /\ seen'.version = refresh'.version => seen'.draft = refresh'.draft
    <3>1. CASE seen' = seen
      BY <1>1, <2>1, <3>1 DEF Shape, SameCandidate, VersionNamesDraft, KnownCandidates
    <3>2. CASE seen' # seen
      BY <1>1, <3>2 DEF Shape
    <3> QED  BY <3>1, <3>2
  <2>2. \A p \in prepared' : p.by = "editor" => p.draft = p.consent
    BY DEF Shape, FreshPreparation, VersionNamesDraft
  <2> QED  BY <2>1, <2>2 DEF VersionNamesDraft
<1> QED  BY <1>3, <1>4, <1>5

LEMMA LaterVersion ==
  ASSUME TypeOK
  PROVE  refresh.version + 1 > refresh.version
  BY DEF TypeOK, Refreshes

LEMMA ShapeOfOperators ==
  ASSUME TypeOK, KnownCandidates, SameEdits, VersionNamesDraft,
         Operators
  PROVE  Shape /\ article' = article /\ bounds'.edits = bounds.edits
<1>1. CASE \E target \in Targets : Retry(target)
  <2>1. PICK target \in Targets : Retry(target)
    BY <1>1
  <2> DEFINE r == Owner(target)
             s == Slot(target, r)
  <2>2. /\ r \in Refreshes
        /\ r = refresh \/ r.id = refresh.id + 1
        /\ r.draft.edits = r.base.edits
    <3>1. CASE Active(refresh)
      BY <3>1 DEF Owner, TypeOK, SameEdits
    <3>2. CASE ~Active(refresh)
      <4>1. article.view \in Views /\ article.revision \in Nat /\ refresh.id + 1 \in Nat
        BY DEF TypeOK, Refreshes
      <4>2. r = [id |-> refresh.id + 1, status |-> "active", target |-> target, version |-> 1,
                 base |-> article.view, revision |-> article.revision,
                 draft |-> article.view, tried |-> {}]
        BY <3>2 DEF Owner
      <4> HIDE DEF r
      <4> QED  BY <4>1, <4>2 DEF Refreshes
    <3> QED  BY <3>1, <3>2
  <2>3. s \in Slots /\ (s = "storage" => r.draft.image # NoImage)
    BY DEF Slot, Slots, Targets
  <2>4. r.id \in Nat /\ r.draft \in Views /\ r.draft.image \in Images \cup {NoImage}
    BY <2>2 DEF Refreshes, Views
  <2>5. /\ jobs' = [jobs EXCEPT ![s] = NewJob(s, r.id, r.draft, catalog)]
        /\ refresh' = IF s = "storage" THEN Storing(r) ELSE Selecting(r)
        /\ bounds' = [Counted EXCEPT !.retries = @ + 1]
        /\ UNCHANGED <<article, authority, catalog, workers, prepared, seen>>
    BY <2>1 DEF Retry
  <2> HIDE DEF s, r
  <2>6. NewJob(s, r.id, r.draft, catalog).refresh = r.id
    <3>1. catalog \in Nat
      BY DEF TypeOK
    <3> QED  BY <2>3, <2>4, <3>1, QueuedJob
  <2>7. /\ refresh'.id = r.id /\ refresh'.base = r.base
        /\ refresh'.version = r.version + 1 /\ refresh'.draft = r.draft
    BY <2>2, <2>3, <2>4, <2>5, SelectedCandidate, StoredCandidate
  <2>8. SameCandidate
    BY <2>2, <2>7, LaterVersion DEF SameCandidate, SameEdits
  <2>9. \A k \in Slots : jobs'[k].refresh \in {jobs[k].refresh, refresh'.id}
    BY <2>3, <2>5, <2>6, <2>7 DEF TypeOK
  <2>10. bounds'.edits = bounds.edits
    BY <2>5, CountedType
  <2> QED  BY <2>5, <2>8, <2>9, <2>10 DEF Shape
<1>2. CASE Look
  BY <1>2 DEF Look, Shape, SameCandidate
<1>3. CASE Reject
  <2>1. SameCandidate
    BY <1>3, EndedCandidate, LaterVersion DEF Reject, SameCandidate, SameEdits, TypeOK
  <2> QED  BY <1>3, <2>1 DEF Reject, Shape
<1>4. CASE Approve
  <2> DEFINE p == Prepared("editor", "promote", seen.draft)
  <2>1. p.refresh = refresh.id /\ p.draft = refresh.draft /\ p.consent = seen.draft
    BY DEF Prepared
  <2>2. seen.draft = refresh.draft
    BY <1>4 DEF Approve, SeenVersion, VersionNamesDraft
  <2>3. /\ prepared' = prepared \cup {p}
        /\ UNCHANGED <<article, authority, catalog, refresh, jobs, workers, seen, bounds>>
    BY <1>4 DEF Approve
  <2> HIDE DEF p
  <2> QED  BY <2>1, <2>2, <2>3 DEF Shape, SameCandidate, FreshPreparation
<1>5. ASSUME NEW s \in Slots, RetryJob(s)
      PROVE  Shape /\ article' = article /\ bounds'.edits = bounds.edits
  <2>1. SameCandidate
    BY <1>5, RequeuedJob, LaterVersion DEF SameCandidate, SameEdits
  <2>2. \A k \in Slots : jobs'[k].refresh \in {jobs[k].refresh, refresh'.id}
    BY <1>5, RequeuedJob DEF TypeOK
  <2> QED  BY <1>5, <2>1, <2>2, RequeuedJob, CountedType DEF Shape
<1> QED  BY <1>1, <1>2, <1>3, <1>4, <1>5 DEF Operators

LEMMA ShapeOfResume ==
  ASSUME TypeOK, KnownCandidates, SameEdits, Resume
  PROVE  Shape
<1>1. CASE Prepare
  <2> DEFINE p == Prepared("system", NextStage, refresh.draft)
  <2>1. p.refresh = refresh.id /\ p.draft = refresh.draft /\ p.by = "system"
    BY DEF Prepared
  <2>2. /\ prepared' = prepared \cup {p}
        /\ UNCHANGED <<article, authority, catalog, refresh, jobs, workers, seen, bounds>>
    BY <1>1 DEF Prepare
  <2> HIDE DEF p
  <2> QED  BY <2>1, <2>2 DEF Shape, SameCandidate, FreshPreparation
<1>2. CASE Retire
  <2>1. SameCandidate
    BY <1>2, EndedCandidate, LaterVersion DEF Retire, SameCandidate, SameEdits, TypeOK
  <2> QED  BY <1>2, <2>1 DEF Retire, Shape
<1>3. CASE \E p \in prepared : Commit(p)
  <2>1. PICK p \in prepared : Commit(p)
    BY <1>3
  <2>2. prepared' = prepared \ {p} /\ UNCHANGED <<authority, catalog, workers, seen, bounds>>
    BY <2>1 DEF Commit, CommitPromotion, CommitAnalysis, CommitImages, Drop
  <2>3. SameCandidate
    <3>1. CASE CommitPromotion(p)
      BY <3>1, EndedCandidate, LaterVersion DEF CommitPromotion, SameCandidate, SameEdits, TypeOK
    <3>2. CASE CommitAnalysis(p)
      BY <3>2, SelectedCandidate, LaterVersion DEF CommitAnalysis, SameCandidate, SameEdits, TypeOK
    <3>3. CASE CommitImages(p)
      <4>1. refresh.draft.image \in Images \cup {NoImage}
        BY DEF TypeOK, Refreshes, Views
      <4> QED  BY <3>3, <4>1, StoredCandidate, LaterVersion
               DEF CommitImages, Imaging, StorageDue, SameCandidate, SameEdits, TypeOK
    <3> QED  BY <2>1, <3>1, <3>2, <3>3 DEF Commit
  <2>4. \A s \in Slots : jobs'[s].refresh \in {jobs[s].refresh, refresh'.id}
    <3>0. refresh.id \in Nat /\ refresh.draft \in Views /\ p.catalog \in Nat
      BY DEF TypeOK, Refreshes, Preparations
    <3>1. CASE CommitPromotion(p)
      BY <3>1 DEF CommitPromotion
    <3>2. CASE CommitAnalysis(p)
      <4>1. NewJob("analysis", refresh.id, refresh.draft, p.catalog).refresh = refresh.id
        BY <3>0, QueuedJob DEF Slots
      <4>2. refresh'.id = refresh.id
        BY <3>2, SelectedCandidate DEF CommitAnalysis, TypeOK
      <4> QED  BY <3>2, <4>1, <4>2 DEF CommitAnalysis, TypeOK
    <3>3. CASE CommitImages(p)
      <4>1. StorageJob(refresh).refresh = refresh.id
        BY StorageJobType DEF TypeOK
      <4>2. refresh'.id = refresh.id
        <5>1. refresh.draft.image \in Images \cup {NoImage}
          BY DEF TypeOK, Refreshes, Views
        <5> QED  BY <3>3, <5>1, StoredCandidate DEF CommitImages, Imaging, StorageDue, TypeOK
      <4> QED  BY <3>3, <4>1, <4>2 DEF CommitImages, TypeOK
    <3> QED  BY <2>1, <3>1, <3>2, <3>3 DEF Commit
  <2> QED  BY <2>2, <2>3, <2>4 DEF Shape
<1> QED  BY <1>1, <1>2, <1>3 DEF Resume

LEMMA ShapeOfClaims ==
  ASSUME TypeOK, RefreshAssumption, KnownCandidates,
         Preview \/ \E s \in Slots : Claim(s) \/ Recover(s)
  PROVE  Shape /\ article' = article /\ bounds'.edits = bounds.edits
<1>1. CASE Preview
  <2>1. refresh.version \in Nat /\ "analysis" \in Slots
    BY DEF TypeOK, Refreshes, Slots
  <2> DEFINE w == Worker("analysis", 0, "preview", refresh.version)
  <2>2. w.refresh = jobs["analysis"].refresh /\ w.phase = "preview"
    BY <2>1, NewWorker
  <2>3. /\ workers' = workers \cup {w}
        /\ UNCHANGED <<article, authority, catalog, refresh, jobs, prepared, seen, bounds>>
    BY <1>1 DEF Preview
  <2> HIDE DEF w
  <2> QED  BY <2>1, <2>2, <2>3 DEF Shape, SameCandidate, FreshWorker, KnownCandidates
<1>2. ASSUME NEW s \in Slots, Claim(s)
      PROVE  Shape /\ article' = article /\ bounds'.edits = bounds.edits
  <2>1. UNCHANGED <<article, authority, catalog, refresh, prepared, seen>>
    BY <1>2 DEF Claim
  <2>2. CASE Start(s, workers)
    <3>1. /\ \A k \in Slots : jobs'[k].refresh = jobs[k].refresh
          /\ \A w \in workers' \ workers : w.refresh = jobs[s].refresh /\ w.phase = "working"
          /\ bounds'.edits = bounds.edits
      BY <2>2, StartType DEF TypeOK
    <3> QED  BY <2>1, <3>1 DEF Shape, SameCandidate, FreshWorker, KnownCandidates
  <2>3. CASE jobs' = Finished(s, "stopped") /\ UNCHANGED <<workers, bounds>>
    <3>1. \A k \in Slots : jobs'[k].refresh = jobs[k].refresh
      BY <2>3, FinishedJob DEF TypeOK
    <3> QED  BY <2>1, <2>3, <3>1 DEF Shape, SameCandidate
  <2> QED  BY <1>2, <2>2, <2>3 DEF Claim
<1>3. ASSUME NEW s \in Slots, Recover(s)
      PROVE  Shape /\ article' = article /\ bounds'.edits = bounds.edits
  <2>1. \A k \in Slots : jobs'[k].refresh = jobs[k].refresh
    BY <1>3, RetriedJob DEF Recover, TypeOK
  <2>2. bounds'.edits = bounds.edits
    BY <1>3, CountedType DEF Recover, Event
  <2> QED  BY <1>3, <2>1, <2>2 DEF Recover, Shape, SameCandidate
<1> QED  BY <1>1, <1>2, <1>3

\* A worker that only leaves, settling its job, disturbs nothing.
LEMMA ShapeOfLeaving ==
  ASSUME NEW w \in workers, Leave(w), SameCandidate,
         \A s \in Slots : jobs'[s].refresh \in {jobs[s].refresh, refresh'.id}
  PROVE  Shape /\ article' = article /\ bounds'.edits = bounds.edits
  BY DEF Leave, Shape

LEMMA ShapeOfAgain ==
  ASSUME TypeOK, RefreshAssumption, KnownCandidates, NEW w \in workers, Again(w)
  PROVE  Shape /\ article' = article /\ bounds'.edits = bounds.edits
<1>1. /\ \A k \in Slots : jobs'[k].refresh = jobs[k].refresh
      /\ \A x \in workers' \ workers : x.refresh = w.refresh /\ x.phase = "working"
      /\ UNCHANGED <<article, authority, catalog, refresh, prepared, seen, bounds>>
  BY AgainShape
<1>2. \A x \in workers' \ workers : FreshWorker(x)
  BY <1>1 DEF FreshWorker, KnownCandidates
<1> QED  BY <1>1, <1>2 DEF Shape, SameCandidate

LEMMA ShapeOfWork ==
  ASSUME TypeOK, RefreshAssumption, KnownCandidates, SameEdits,
         NEW w \in workers, Work(w) \/ Fail(w)
  PROVE  Shape /\ article' = article /\ bounds'.edits = bounds.edits
<1>0. /\ w \in Workers /\ w.slot \in Slots /\ w.draft \in Views /\ w.catalog \in Nat
      /\ jobs \in [Slots -> Jobs] /\ refresh \in Refreshes
      /\ "analysis" \in Slots /\ "enrichment" \in Slots
      /\ "discovery" \in Slots /\ "storage" \in Slots
  BY DEF TypeOK, Workers, Slots
<1>1. CASE ClaimAnalysis(w)
  <2>0. workers \ {w} \in SUBSET Workers
    BY DEF TypeOK
  <2>1. UNCHANGED <<article, authority, catalog, refresh, prepared, seen>>
    BY <1>1 DEF ClaimAnalysis
  <2>2. CASE Start("analysis", workers \ {w})
    <3>1. /\ \A k \in Slots : jobs'[k].refresh = jobs[k].refresh
          /\ \A x \in workers' \ (workers \ {w}) :
                x.refresh = jobs["analysis"].refresh /\ x.phase = "working"
          /\ bounds'.edits = bounds.edits
      BY <1>0, <2>0, <2>2, StartType
    <3>2. \A x \in workers' \ workers : FreshWorker(x)
      BY <1>0, <3>1 DEF FreshWorker, KnownCandidates
    <3> QED  BY <2>1, <3>1, <3>2 DEF Shape, SameCandidate
  <2>3. CASE /\ jobs' = Finished("analysis", "stopped") \/ jobs' = jobs
             /\ workers' = workers \ {w} /\ UNCHANGED bounds
    <3>1. \A k \in Slots : jobs'[k].refresh = jobs[k].refresh
      BY <1>0, <2>3, FinishedJob
    <3> QED  BY <2>1, <2>3, <3>1 DEF Shape, SameCandidate
  <2> QED  BY <1>1, <2>2, <2>3 DEF ClaimAnalysis
<1>2. CASE Lost(w)
  BY <1>2, ShapeOfLeaving DEF Lost, SameCandidate
<1>3. CASE Stop(w)
  BY <1>0, <1>3, FinishedJob, ShapeOfLeaving DEF Stop, SameCandidate
<1>4. CASE ReadDraft(w)
  <2> DEFINE v == [w EXCEPT !.phase = "read", !.version = refresh.version, !.draft = refresh.draft,
                           !.catalog = IF w.slot = "analysis" THEN catalog ELSE 0]
  <2>1. v.refresh = w.refresh /\ v.draft = refresh.draft
    BY <1>0 DEF Workers
  <2>2. /\ workers' = (workers \ {w}) \cup {v}
        /\ UNCHANGED <<article, authority, catalog, refresh, jobs, prepared, seen, bounds>>
    BY <1>4 DEF ReadDraft
  <2> HIDE DEF v
  <2>3. \A x \in workers' \ workers : FreshWorker(x)
    BY <2>1, <2>2 DEF FreshWorker, KnownCandidates
  <2> QED  BY <2>2, <2>3 DEF Shape, SameCandidate
<1>5. CASE ApplyEnrichment(w)
  <2>1. CASE Again(w)
    BY <2>1, ShapeOfAgain
  <2>2. CASE ~Again(w)
    <3>1. PICK text \in {w.draft.text, w.draft.text + 1}, image \in {w.draft.image} \cup Images :
            refresh' = Touched(refresh, Extracting(w.draft, text, image))
      BY <1>5, <2>2 DEF ApplyEnrichment
    <3>2. /\ Extracting(w.draft, text, image) \in Views
          /\ Extracting(w.draft, text, image).edits = w.draft.edits
      BY <1>0, <3>1 DEF Extracting, Views
    <3>3. w.draft.edits = refresh.base.edits
      BY <1>5 DEF ApplyEnrichment, Wanted, SameEdits
    <3>4. SameCandidate
      BY <1>0, <3>1, <3>2, <3>3, TouchedCandidate, LaterVersion DEF SameCandidate
    <3>5. PICK outcome \in {"applied", "paywalled"} : jobs' = Finished("enrichment", outcome)
      BY <1>5, <2>2 DEF ApplyEnrichment
    <3>6. Leave(w)
      BY <1>5, <2>2 DEF ApplyEnrichment
    <3>7. \A k \in Slots : jobs'[k].refresh = jobs[k].refresh
      BY <1>0, <3>5, FinishedJob
    <3> QED  BY <3>4, <3>6, <3>7, ShapeOfLeaving
  <2> QED  BY <2>1, <2>2
<1>6. CASE ApplyAnalysis(w)
  <2>1. CASE Again(w)
    BY <2>1, ShapeOfAgain
  <2>2. CASE jobs' = Finished("analysis", "stopped") /\ Leave(w) /\ UNCHANGED refresh
    BY <1>0, <2>2, FinishedJob, ShapeOfLeaving DEF SameCandidate
  <2>3. CASE ~Again(w) /\ ~(jobs' = Finished("analysis", "stopped") /\ Leave(w) /\ UNCHANGED refresh)
    <3>1. PICK outcome \in {"applied", "insufficient"} :
            /\ refresh' = Touched(refresh, [w.draft EXCEPT !.judged =
                  IF outcome = "applied" THEN Judgement(w.draft.text, w.catalog) ELSE {}])
            /\ jobs' = Finished("analysis", outcome)
      BY <1>6, <2>3 DEF ApplyAnalysis
    <3> DEFINE view == [w.draft EXCEPT !.judged =
                  IF outcome = "applied" THEN Judgement(w.draft.text, w.catalog) ELSE {}]
    <3>2. view \in Views /\ view.edits = w.draft.edits
      BY <1>0 DEF Views, Judgement
    <3>3. w.draft.edits = refresh.base.edits
      BY <1>6 DEF ApplyAnalysis, Wanted, SameEdits
    <3>4. refresh' = Touched(refresh, view)
      BY <3>1
    <3> HIDE DEF view
    <3>5. SameCandidate
      BY <1>0, <3>2, <3>3, <3>4, TouchedCandidate, LaterVersion DEF SameCandidate
    <3>6. Leave(w)
      BY <1>6, <2>3 DEF ApplyAnalysis
    <3>7. \A s \in Slots : jobs'[s].refresh = jobs[s].refresh
      BY <1>0, <3>1, FinishedJob
    <3> QED  BY <3>5, <3>6, <3>7, ShapeOfLeaving
  <2> QED  BY <2>1, <2>2, <2>3
<1>7. CASE FinishDiscovery(w)
  <2>1. PICK view \in Views, outcome \in {"applied", "stopped"} :
          /\ view.edits = refresh.draft.edits
          /\ LET r == Touched(refresh, view)
                 done == Finished("discovery", outcome)
             IN IF StorageDue(r)
                THEN /\ jobs' = [done EXCEPT !["storage"] = StorageJob(r)]
                     /\ refresh' = Storing(r)
                ELSE jobs' = done /\ refresh' = r
    <3>1. PICK found \in Images \cup {NoImage} :
          LET expected == refresh.draft.image = jobs["discovery"].image
              view == IF found # NoImage /\ expected
                      THEN [refresh.draft EXCEPT !.image = found, !.stored = NoImage]
                      ELSE refresh.draft
              r == Touched(refresh, view)
              done == Finished("discovery", IF found = NoImage \/ expected THEN "applied" ELSE "stopped")
          IN IF StorageDue(r)
             THEN /\ jobs' = [done EXCEPT !["storage"] = StorageJob(r)]
                  /\ refresh' = Storing(r)
             ELSE jobs' = done /\ refresh' = r
      BY <1>7 DEF FinishDiscovery
    <3>2. refresh.draft \in Views
      BY DEF TypeOK, Refreshes
    <3>3. /\ [refresh.draft EXCEPT !.image = found, !.stored = NoImage] \in Views
          /\ [refresh.draft EXCEPT !.image = found, !.stored = NoImage].edits = refresh.draft.edits
      BY <3>2 DEF Views
    <3> QED  BY <3>1, <3>2, <3>3
  <2> DEFINE r == Touched(refresh, view)
  <2>2. /\ r \in Refreshes /\ r.draft = view /\ r.id = refresh.id /\ r.base = refresh.base
        /\ r.version = refresh.version + 1
    BY <1>0, TouchedCandidate
  <2>3. StorageDue(r) => r.draft.image \in Images
    BY <2>2 DEF StorageDue, Views
  <2>4. StorageJob(r).refresh = r.id
    BY <2>2, StorageJobType
  <2>5. /\ refresh'.id = refresh.id /\ refresh'.base = refresh.base
        /\ refresh'.version > refresh.version
        /\ refresh'.draft.edits = refresh.base.edits
        /\ \A s \in Slots : jobs'[s].refresh \in {jobs[s].refresh, refresh'.id}
    <3>1. /\ Finished("discovery", outcome) \in [Slots -> Jobs]
          /\ \A s \in Slots : Finished("discovery", outcome)[s].refresh = jobs[s].refresh
      BY <1>0, FinishedJob
    <3>2. CASE StorageDue(r)
      <4>1. /\ jobs' = [Finished("discovery", outcome) EXCEPT !["storage"] = StorageJob(r)]
            /\ refresh' = Storing(r)
        BY <2>1, <3>2
      <4>2. /\ Storing(r).id = r.id /\ Storing(r).base = r.base /\ Storing(r).draft = r.draft
            /\ Storing(r).version = r.version + 1 /\ refresh.version \in Nat
        BY <1>0, <2>2, <2>3, <3>2, StoredCandidate DEF Refreshes
      <4> HIDE DEF r
      <4> QED  BY <2>1, <2>2, <2>4, <3>1, <4>1, <4>2 DEF SameEdits
    <3>3. CASE ~StorageDue(r)
      <4>1. jobs' = Finished("discovery", outcome) /\ refresh' = r /\ refresh.version \in Nat
        BY <1>0, <2>1, <3>3 DEF Refreshes
      <4> HIDE DEF r
      <4> QED  BY <2>1, <2>2, <3>1, <4>1 DEF SameEdits
    <3> QED  BY <3>2, <3>3
  <2> QED  BY <1>7, <2>5, ShapeOfLeaving DEF FinishDiscovery, SameCandidate
<1>8. CASE FinishStorage(w)
  <2> DEFINE view == [refresh.draft EXCEPT !.stored = jobs["storage"].image]
  <2>1. view \in Views /\ view.edits = refresh.draft.edits
    BY DEF TypeOK, Refreshes, Views, Jobs, Slots
  <2>2. refresh' = Touched(refresh, view) /\ jobs' = Finished("storage", "applied") /\ Leave(w)
    BY <1>8 DEF FinishStorage
  <2> HIDE DEF view
  <2>3. SameCandidate
    BY <1>0, <2>1, <2>2, TouchedCandidate, LaterVersion DEF SameCandidate, SameEdits
  <2> QED  BY <1>0, <2>2, <2>3, FinishedJob, ShapeOfLeaving
<1>9. CASE Fail(w)
  <2>1. PICK retryable \in BOOLEAN : jobs' = FailedJob(w.slot, retryable)
    BY <1>9 DEF Fail
  <2>2. \A k \in Slots : jobs'[k].refresh = jobs[k].refresh
    BY <1>0, <2>1, RetriedJob
  <2>3. bounds'.edits = bounds.edits
    BY <1>9, CountedType DEF Fail, Event
  <2>4. /\ workers' = workers \ {w}
        /\ UNCHANGED <<article, authority, catalog, refresh, prepared, seen>>
    BY <1>9 DEF Fail
  <2> QED  BY <2>2, <2>3, <2>4 DEF Shape, SameCandidate
<1> QED  BY <1>1, <1>2, <1>3, <1>4, <1>5, <1>6, <1>7, <1>8, <1>9 DEF Work

\* What happens around a candidate only ever adds an edit that is counted.
LEMMA ShapeOfChanges ==
  ASSUME TypeOK, EditsSurvive, Edit \/ ShowOrHide \/ Authorise \/ ChangeCatalog
  PROVE  Shape /\ EditsSurvive'
<1>1. UNCHANGED <<refresh, jobs, workers, prepared, seen>>
  BY DEF Edit, ShowOrHide, Authorise, ChangeCatalog, Change
<1>2. Shape
  BY <1>1 DEF Shape, SameCandidate
<1>3. CASE Edit
  <2>1. article'.view.edits = article.view.edits + 1
    BY <1>3 DEF Edit, TypeOK, Views
  <2>2. bounds'.edits = bounds.edits + 1
    BY <1>3, CountedType DEF Edit, TypeOK
  <2> QED  BY <1>2, <2>1, <2>2 DEF EditsSurvive
<1>4. CASE ShowOrHide \/ Authorise \/ ChangeCatalog
  <2>1. bounds'.edits = bounds.edits /\ article'.view = article.view
    BY <1>4, CountedType DEF ShowOrHide, Authorise, ChangeCatalog, Change, Event
  <2> QED  BY <1>2, <2>1 DEF EditsSurvive
<1> QED  BY <1>3, <1>4

\* A promotion replaces a publication that is still the candidate's base.
LEMMA ResumeKeepsEdits ==
  ASSUME TypeOK, EditsSurvive, SameEdits, Resume
  PROVE  EditsSurvive'
<1>1. CASE Prepare \/ Retire
  BY <1>1 DEF Prepare, Retire, EditsSurvive
<1>2. ASSUME NEW p \in prepared, Commit(p)
      PROVE  EditsSurvive'
  <2>1. bounds' = bounds
    BY <1>2 DEF Commit, CommitPromotion, CommitAnalysis, CommitImages, Drop
  <2>2. CASE article' = article
    BY <2>1, <2>2 DEF EditsSurvive
  <2>3. CASE article' # article
    <3>1. /\ SameVersion(p) /\ Unchanged
          /\ article' = [article EXCEPT !.view = p.draft, !.revision = NextRevision]
      BY <1>2, <2>3 DEF Commit, CommitPromotion, CommitAnalysis, CommitImages
    <3>2. article'.view = p.draft
      BY <3>1 DEF TypeOK
    <3>3. p.draft.edits = refresh.base.edits /\ article.view = refresh.base
      BY <3>1 DEF SameVersion, Unchanged, SameEdits
    <3> QED  BY <2>1, <3>2, <3>3 DEF EditsSurvive
  <2> QED  BY <2>2, <2>3
<1> QED  BY <1>1, <1>2 DEF Resume

LEMMA InvariantInit ==
  ASSUME RefreshAssumption, Init
  PROVE  IInv
<1>1. TypeOK
  BY TypeInit
<1>2. article.view.edits = 0 /\ bounds.edits = 0
  BY DEF Init
<1>3. refresh.id = 0 /\ refresh.draft.edits = refresh.base.edits
  BY DEF Init, NoRefresh
<1>4. KnownCandidates
  BY <1>3 DEF Init, NoJob, KnownCandidates
<1>5. VersionNamesDraft
  BY DEF Init, NoRefresh, VersionNamesDraft
<1> QED  BY <1>1, <1>2, <1>3, <1>4, <1>5 DEF Init, IInv, EditsSurvive, SameEdits

LEMMA InvariantStep ==
  ASSUME RefreshAssumption, IInv, [Next]_vars
  PROVE  IInv'
<1>0. /\ TypeOK /\ EditsSurvive /\ KnownCandidates /\ SameEdits /\ VersionNamesDraft
      /\ TypeOK'
  BY TypeStep DEF IInv
<1>1. CASE UNCHANGED vars
  BY <1>0, <1>1 DEF vars, IInv, EditsSurvive, KnownCandidates, SameEdits, VersionNamesDraft
<1>2. CASE Operators
  <2>1. Shape /\ article' = article /\ bounds'.edits = bounds.edits
    BY <1>0, <1>2, ShapeOfOperators
  <2> QED  BY <1>0, <2>1, ShapePreserves DEF IInv, EditsSurvive
<1>3. CASE Resume
  BY <1>0, <1>3, ShapeOfResume, ResumeKeepsEdits, ShapePreserves DEF IInv
<1>4. CASE Preview \/ \E s \in Slots : Claim(s) \/ Recover(s)
  <2>1. Shape /\ article' = article /\ bounds'.edits = bounds.edits
    BY <1>0, <1>4, ShapeOfClaims
  <2> QED  BY <1>0, <2>1, ShapePreserves DEF IInv, EditsSurvive
<1>5. CASE \E w \in workers : Work(w) \/ Fail(w)
  <2>1. Shape /\ article' = article /\ bounds'.edits = bounds.edits
    BY <1>0, <1>5, ShapeOfWork
  <2> QED  BY <1>0, <2>1, ShapePreserves DEF IInv, EditsSurvive
<1>6. CASE Edit \/ ShowOrHide \/ Authorise \/ ChangeCatalog
  BY <1>0, <1>6, ShapeOfChanges, ShapePreserves DEF IInv
<1> QED  BY <1>1, <1>2, <1>3, <1>4, <1>5, <1>6 DEF Next, Operators

\* The inductive invariant: drafts and their copies hold the edits of the base they
\* were taken from, and a version of a candidate names one draft.
THEOREM Invariance == Spec => []IInv
<1>1. Init => IInv
  BY RefreshAssumption, InvariantInit
<1>2. IInv /\ [Next]_vars => IInv'
  BY RefreshAssumption, InvariantStep
<1> QED  BY <1>1, <1>2, PTL DEF Spec

\* No replacement loses what an editor or a feed changed in the publication since the
\* candidate was opened (approved_digest in commit_promotion).
THEOREM NothingLost == Spec => []EditsSurvive
<1>1. IInv => EditsSurvive
  BY DEF IInv
<1> QED  BY <1>1, Invariance, PTL

-----------------------------------------------------------------------------
(* Consent.                                                                *)

\* Every write that is not an end leaves the candidate active.
LEMMA ActiveWrites ==
  ASSUME NEW r \in Refreshes
  PROVE  Selecting(r).status = "active" /\ Storing(r).status = "active"
<1>1. Selecting(r).status = "active" /\ Selecting(r) \in Refreshes
  BY VersionedCandidate, SelectedCandidate DEF Selecting, Refreshes
<1> QED  BY <1>1 DEF Storing, Refreshes

\* So does what a worker changes in the draft, with the storage it may ask for.
LEMMA ActiveTouch ==
  ASSUME NEW r \in Refreshes, NEW v
  PROVE  Touched(r, v).status = "active" /\ Storing(Touched(r, v)).status = "active"
<1> DEFINE t == Touched(r, v)
<1>1. "status" \in DOMAIN Selecting(r) /\ Selecting(r).status = "active"
  BY ActiveWrites, SelectedCandidate DEF Refreshes
<1>2. "status" \in DOMAIN t /\ t.status = "active"
  BY <1>1 DEF Touched
<1> HIDE DEF t
<1>3. Storing(t).status = "active"
  BY <1>2 DEF Storing, Selecting, Versioned
<1> QED  BY <1>2, <1>3 DEF t

\* Only a committed promotion makes a candidate "promoted", and it publishes the draft
\* that was prepared, if version and catalogue are still the same.
LEMMA PromotionPublishes ==
  ASSUME TypeOK, Next, Promoting
  PROVE  \E q \in prepared : /\ q.step = "promote" /\ SameVersion(q) /\ SameCatalog(q)
                             /\ prepared' = prepared \ {q} /\ article'.view = q.draft
<1>0. refresh \in Refreshes /\ refresh.status \in {"active", "review"} /\ refresh' # refresh
  BY DEF TypeOK, Promoting, Active
<1>1. CASE \E target \in Targets : Retry(target)
  <2>1. PICK target \in Targets : Retry(target)
    BY <1>1
  <2>2. refresh' = Storing(refresh) \/ refresh' = Selecting(refresh)
    BY <2>1 DEF Retry, Owner, Promoting
  <2> QED  BY <1>0, <2>2, ActiveWrites DEF Promoting, Refreshes
<1>2. CASE Look \/ Approve \/ Prepare \/ Preview \/ \E s \in Slots : Claim(s) \/ Recover(s)
  BY <1>0, <1>2 DEF Look, Approve, Prepare, Preview, Claim, Recover
<1>3. CASE Reject \/ Retire
  BY <1>0, <1>3, EndedCandidate DEF Reject, Retire, Promoting
<1>4. CASE \E p \in prepared : Commit(p)
  <2>1. PICK p \in prepared : Commit(p)
    BY <1>4
  <2>2. CASE CommitPromotion(p)
    <3>1. Ended(refresh, "superseded").status # "promoted" /\ Ended(refresh, "review").status # "promoted"
      BY <1>0, EndedCandidate
    <3>2. /\ p.step = "promote" /\ SameVersion(p) /\ SameCatalog(p)
          /\ prepared' = prepared \ {p}
          /\ article' = [article EXCEPT !.view = p.draft, !.revision = NextRevision]
      BY <1>0, <2>2, <3>1 DEF CommitPromotion, Drop, Promoting
    <3> QED  BY <3>2 DEF TypeOK
  <2>3. CASE CommitAnalysis(p)
    BY <1>0, <2>3, ActiveWrites DEF CommitAnalysis, Promoting, Refreshes
  <2>4. CASE CommitImages(p)
    BY <1>0, <2>4, ActiveWrites DEF CommitImages, Promoting, Refreshes
  <2> QED  BY <2>1, <2>2, <2>3, <2>4 DEF Commit
<1>5. ASSUME NEW w \in workers, Work(w) \/ Fail(w)
      PROVE  FALSE
  <2>1. refresh'.status = "active" \/ refresh' = refresh
    <3>1. CASE ClaimAnalysis(w) \/ Lost(w) \/ Stop(w) \/ ReadDraft(w) \/ Fail(w)
      BY <3>1 DEF ClaimAnalysis, Lost, Stop, ReadDraft, Fail
    <3>2. CASE ApplyEnrichment(w)
      BY <1>0, <3>2, ActiveTouch DEF ApplyEnrichment, Again
    <3>3. CASE ApplyAnalysis(w)
      BY <1>0, <3>3, ActiveTouch DEF ApplyAnalysis, Again
    <3>4. CASE FinishDiscovery(w)
      BY <1>0, <3>4, ActiveTouch DEF FinishDiscovery
    <3>5. CASE FinishStorage(w)
      BY <1>0, <3>5, ActiveTouch DEF FinishStorage
    <3> QED  BY <1>5, <3>1, <3>2, <3>3, <3>4, <3>5 DEF Work
  <2> QED  BY <1>0, <2>1 DEF Promoting
<1>6. CASE Edit \/ ShowOrHide \/ Authorise \/ ChangeCatalog
  BY <1>0, <1>6 DEF Edit, ShowOrHide, Authorise, ChangeCatalog, Change
<1>7. ASSUME NEW s \in Slots, RetryJob(s)
      PROVE  FALSE
  BY <1>0, <1>7, ActiveWrites DEF RetryJob, Promoting
<1> QED  BY <1>1, <1>2, <1>3, <1>4, <1>5, <1>6, <1>7 DEF Next, Resume

\* An approval publishes the draft the administrator saw: approve_refresh prepared it
\* under the version that was named, and a version never changes its draft.
THEOREM ConsentHolds == Spec => ConsentBinds
<1>1. ASSUME IInv, IInv', [Next]_vars
      PROVE  [\A p \in prepared :
                Promoting /\ p \notin prepared' /\ p.by = "editor" => article'.view = p.consent]_vars
  <2>1. CASE UNCHANGED vars
    BY <2>1
  <2>2. ASSUME Next, NEW p \in prepared, Promoting, p \notin prepared', p.by = "editor"
        PROVE  article'.view = p.consent
    <3>1. PICK q \in prepared : prepared' = prepared \ {q} /\ article'.view = q.draft
      BY <1>1, <2>2, PromotionPublishes DEF IInv
    <3> QED  BY <1>1, <2>2, <3>1 DEF IInv, VersionNamesDraft
  <2> QED  BY <1>1, <2>1, <2>2
<1> QED  BY <1>1, Invariance, PTL DEF Spec, ConsentBinds

-----------------------------------------------------------------------------
(* Promotions.  A preparation takes no lock, so what it found has to hold  *)
(* until the commit: under the candidate's present version no draft has    *)
(* changed and no job has been selected (PreparedDraft, PreparedWhole),    *)
(* since either makes a new version.  That a candidate for images has      *)
(* nothing else under way when its image is complete is a fact about the   *)
(* jobs such a candidate can have (ImagesAlone).                           *)

\* A preparation of the present version has the candidate's draft.
PreparedDraft ==
    \A p \in prepared : p.refresh = refresh.id =>
        /\ p.version <= refresh.version
        /\ p.version = refresh.version => p.draft = refresh.draft

\* A prepared promotion has its image's variants and a judgement of its own text,
\* no selected job is still to come, and none met a paywall.
PreparedWhole ==
    \A p \in prepared : p.step = "promote" =>
        /\ p.draft.stored = p.draft.image
        /\ p.refresh = refresh.id /\ refresh.target # "images" =>
              p.draft.judged = Judgement(p.draft.text, p.catalog)
        /\ p.refresh = refresh.id /\ p.version = refresh.version =>
              ~Paywalled /\ \A s \in Slots : Selected(s) => ~Busy(s)

\* A candidate for images looks for an image only while it has none, stores one
\* only when it has, and never extracts or analyses.
ImagesAlone ==
    Active(refresh) /\ refresh.target = "images" =>
        /\ ~Selected("enrichment") /\ ~Selected("analysis")
        /\ Selected("discovery") /\ Busy("discovery") => refresh.draft.image = NoImage
        /\ Selected("storage") /\ Busy("storage") => refresh.draft.image # NoImage
        /\ \A p \in prepared : p.refresh = refresh.id => p.step # "analysis"

Promotable == PreparedDraft /\ PreparedWhole /\ ImagesAlone

\* No job is selected, none becomes busy, and none meets a paywall.
NoBusier ==
    \A s \in Slots : /\ jobs'[s].refresh = jobs[s].refresh
                     /\ jobs'[s].status \in {"queued", "running"} => Busy(s)
                     /\ jobs'[s].outcome = "paywalled" => jobs[s].outcome = "paywalled"

ReadyPreparation(p) ==
    /\ UNCHANGED <<refresh, jobs>>
    /\ p.refresh = refresh.id /\ p.version = refresh.version /\ p.draft = refresh.draft
    /\ p.catalog = catalog /\ p.step = NextStage

\* A step that selects a job or changes the draft makes a new version, or opens
\* the next candidate.
Advance ==
    /\ \/ refresh' = refresh /\ NoBusier
       \/ /\ refresh'.id = refresh.id /\ refresh'.version > refresh.version
          /\ refresh'.target = refresh.target
       \/ refresh'.id = refresh.id + 1
    /\ \A p \in prepared' \ prepared : ReadyPreparation(p)

\* The jobs and the image are left as they are, for all that matters to a
\* candidate for images.
Quiet ==
    /\ refresh'.id = refresh.id /\ refresh'.target = refresh.target
    /\ Active(refresh)' => Active(refresh) /\ refresh'.draft.image = refresh.draft.image
    /\ NoBusier

\* What is prepared for promotion is whole, whichever the target.
LEMMA ReadyIsWhole ==
  ASSUME TypeOK, ImagesAlone, Active(refresh), NextStage = "promote"
  PROVE  /\ refresh.draft.stored = refresh.draft.image
         /\ refresh.target # "images" => refresh.draft.judged = Judgement(refresh.draft.text, catalog)
         /\ ~Paywalled /\ \A s \in Slots : Selected(s) => ~Busy(s)
<1>1. CASE refresh.target = "images"
  <2>1. ImageComplete
    BY <1>1 DEF NextStage
  <2>2. CASE refresh.draft.image = NoImage
    BY <1>1, <2>1, <2>2 DEF ImageComplete, ImagesAlone, Succeeded, Busy, Slots, Paywalled
  <2>3. CASE refresh.draft.image # NoImage
    BY <1>1, <2>1, <2>3 DEF ImageComplete, ImagesAlone, Succeeded, Busy, Slots, Paywalled
  <2> QED  BY <2>2, <2>3
<1>2. CASE refresh.target # "images"
  BY <1>2 DEF NextStage, Judged, Pictured
<1> QED  BY <1>1, <1>2

LEMMA AdvancePreserves ==
  ASSUME TypeOK, TypeOK', KnownCandidates, Promotable, Advance,
         \A p \in prepared' \ prepared : Active(refresh)
  PROVE  PreparedDraft' /\ PreparedWhole'
<1>1. /\ refresh.id \in Nat /\ refresh'.id \in Nat
      /\ refresh.version \in Nat /\ refresh'.version \in Nat
      /\ \A p \in prepared : p.refresh \in Nat /\ p.version \in Nat
  BY DEF TypeOK, Refreshes, Preparations
<1>2. ASSUME NEW p \in prepared', p.refresh = refresh'.id
      PROVE  /\ p.version <= refresh'.version
             /\ p.version = refresh'.version => p.draft = refresh'.draft
  <2>1. CASE p \in prepared
    <3>1. p.refresh <= refresh.id
      BY <2>1 DEF KnownCandidates
    <3> QED  BY <1>1, <1>2, <2>1, <3>1 DEF Advance, Promotable, PreparedDraft
  <2>2. CASE p \notin prepared
    BY <1>1, <1>2, <2>2 DEF Advance, ReadyPreparation
  <2> QED  BY <2>1, <2>2
<1>3. ASSUME NEW p \in prepared', p.step = "promote"
      PROVE  /\ p.draft.stored = p.draft.image
             /\ p.refresh = refresh'.id /\ refresh'.target # "images" =>
                   p.draft.judged = Judgement(p.draft.text, p.catalog)
             /\ p.refresh = refresh'.id /\ p.version = refresh'.version =>
                   ~Paywalled' /\ \A s \in Slots : Selected(s)' => ~Busy(s)'
  <2>1. CASE p \in prepared
    <3>1. p.refresh <= refresh.id
      BY <2>1 DEF KnownCandidates
    <3>2. CASE refresh' = refresh /\ NoBusier
      BY <1>3, <2>1, <3>2 DEF NoBusier, Promotable, PreparedWhole, Selected, Busy, Paywalled, Slots
    <3>3. CASE /\ refresh'.id = refresh.id /\ refresh'.version > refresh.version
               /\ refresh'.target = refresh.target
      <4>1. p.refresh = refresh'.id => p.version # refresh'.version
        BY <1>1, <2>1, <3>3 DEF Promotable, PreparedDraft
      <4> QED  BY <1>3, <2>1, <3>3, <4>1 DEF Promotable, PreparedWhole
    <3>4. CASE refresh'.id = refresh.id + 1
      BY <1>1, <1>3, <2>1, <3>1, <3>4 DEF Promotable, PreparedWhole
    <3> QED  BY <3>2, <3>3, <3>4 DEF Advance
  <2>2. CASE p \notin prepared
    <3>1. ReadyPreparation(p) /\ Active(refresh)
      BY <2>2 DEF Advance
    <3> QED  BY <1>3, <3>1, ReadyIsWhole DEF ReadyPreparation, Promotable, Selected, Busy, Paywalled
  <2> QED  BY <2>1, <2>2
<1> QED  BY <1>2, <1>3 DEF PreparedDraft, PreparedWhole

LEMMA QuietKeepsImages ==
  ASSUME ImagesAlone, Quiet,
         \A p \in prepared' \ prepared : refresh.target = "images" => p.step # "analysis"
  PROVE  ImagesAlone'
  BY DEF ImagesAlone, Quiet, NoBusier, Selected, Busy, Slots

\* Jobs that finish, fail or start were already busy.
LEMMA FinishedQuiet ==
  ASSUME TypeOK, NEW s \in Slots, NEW outcome \in {"applied", "stopped", "insufficient"},
         jobs' = Finished(s, outcome)
  PROVE  NoBusier
<1> DEFINE done == [jobs[s] EXCEPT !.status = "succeeded", !.outcome = outcome, !.token = 0, !.attempts = 0]
<1>1. jobs \in [Slots -> Jobs] /\ jobs' = [jobs EXCEPT ![s] = done]
  BY DEF TypeOK, Finished
<1>2. /\ done.refresh = jobs[s].refresh /\ done.status = "succeeded"
      /\ done.outcome # "paywalled"
  BY <1>1 DEF Jobs
<1> HIDE DEF done
<1> QED  BY <1>1, <1>2 DEF NoBusier, Busy

LEMMA RetriedQuiet ==
  ASSUME TypeOK, NEW s \in Slots, NEW retryable \in BOOLEAN, Busy(s), jobs' = FailedJob(s, retryable)
  PROVE  NoBusier
<1>1. \A k \in Slots : jobs'[k].refresh = jobs[k].refresh
  BY RetriedJob DEF TypeOK
<1>2. \A k \in Slots : k # s => jobs'[k] = jobs[k]
  BY DEF FailedJob, TypeOK
<1>3. jobs'[s].outcome = jobs[s].outcome
  BY DEF FailedJob, TypeOK, Jobs
<1> QED  BY <1>1, <1>2, <1>3 DEF NoBusier, Busy

LEMMA StartQuiet ==
  ASSUME TypeOK, RefreshAssumption, NEW s \in Slots, NEW before \in SUBSET Workers, Busy(s), Start(s, before)
  PROVE  NoBusier
<1>1. \A k \in Slots : jobs'[k].refresh = jobs[k].refresh
  BY StartType
<1>2. \A k \in Slots : k # s => jobs'[k] = jobs[k]
  BY DEF Start, TypeOK
<1>3. jobs'[s].outcome = jobs[s].outcome
  BY DEF Start, TypeOK, Jobs
<1> QED  BY <1>1, <1>2, <1>3 DEF NoBusier, Busy

\* A step that selects no job, prepares nothing and leaves the image alone.
LEMMA QuietAdvances ==
  ASSUME ImagesAlone, NoBusier, prepared' \subseteq prepared,
         \/ refresh' = refresh
         \/ /\ refresh'.id = refresh.id /\ refresh'.version > refresh.version
            /\ refresh'.target = refresh.target
            /\ Active(refresh)' => Active(refresh) /\ refresh'.draft.image = refresh.draft.image
  PROVE  Advance /\ ImagesAlone'
<1>1. Advance
  BY DEF Advance
<1>2. Quiet
  BY DEF Quiet
<1> QED  BY <1>1, <1>2, QuietKeepsImages

\* Without a change of jobs nothing is selected and nobody becomes busy.
LEMMA SameJobs == ASSUME jobs' = jobs  PROVE NoBusier
  BY DEF NoBusier, Busy

LEMMA OperatorsAdvance ==
  ASSUME TypeOK, KnownCandidates, VersionNamesDraft, ImagesAlone,
         Operators
  PROVE  Advance /\ ImagesAlone' /\ \A p \in prepared' \ prepared : Active(refresh)
<1>0. refresh \in Refreshes /\ refresh.id \in Nat /\ refresh.version \in Nat
  BY DEF TypeOK, Refreshes
<1>1. CASE \E target \in Targets : Retry(target)
  <2>1. PICK target \in Targets : Retry(target)
    BY <1>1
  <2> DEFINE r == Owner(target)
             s == Slot(target, r)
  <2>2. /\ r \in Refreshes
        /\ \/ r = refresh /\ Active(refresh) /\ target \in Scopes[refresh.target]
           \/ r.id = refresh.id + 1 /\ r.target = target
    <3>1. CASE Active(refresh)
      BY <1>0, <2>1, <3>1 DEF Owner, Retry
    <3>2. CASE ~Active(refresh)
      <4>1. article.view \in Views /\ article.revision \in Nat /\ refresh.id + 1 \in Nat
        BY DEF TypeOK, Refreshes
      <4>2. r = [id |-> refresh.id + 1, status |-> "active", target |-> target, version |-> 1,
                 base |-> article.view, revision |-> article.revision,
                 draft |-> article.view, tried |-> {}]
        BY <3>2 DEF Owner
      <4> HIDE DEF r
      <4> QED  BY <4>1, <4>2 DEF Refreshes
    <3> QED  BY <3>1, <3>2
  <2>3. /\ s \in Slots /\ (s = "storage" => r.draft.image # NoImage)
        /\ s = "discovery" => r.draft.image = NoImage
        /\ target = "images" => s \in {"discovery", "storage"}
    BY DEF Slot, Slots, Targets
  <2>4. r.id \in Nat /\ r.version \in Nat /\ r.draft \in Views /\ r.draft.image \in Images \cup {NoImage}
    BY <2>2 DEF Refreshes, Views
  <2>5. /\ jobs' = [jobs EXCEPT ![s] = NewJob(s, r.id, r.draft, catalog)]
        /\ refresh' = IF s = "storage" THEN Storing(r) ELSE Selecting(r)
        /\ prepared' = prepared
        /\ target = "images" => ~Busy("discovery") /\ ~Busy("storage")
    BY <2>1 DEF Retry
  <2>6. refresh.target = "images" /\ r = refresh => target = "images"
    BY <2>2 DEF Scopes, Refreshes
  <2> HIDE DEF s, r
  <2>7. NewJob(s, r.id, r.draft, catalog).refresh = r.id
    <3>1. catalog \in Nat
      BY DEF TypeOK
    <3> QED  BY <2>3, <2>4, <3>1, QueuedJob
  <2>8. /\ refresh'.id = r.id /\ refresh'.target = r.target
        /\ refresh'.version = r.version + 1 /\ refresh'.draft = r.draft
    BY <2>2, <2>3, <2>4, <2>5, SelectedCandidate, StoredCandidate
  <2>9. Advance
    <3>1. CASE r = refresh
      BY <1>0, <2>5, <2>8, <3>1 DEF Advance
    <3>2. CASE r.id = refresh.id + 1
      BY <2>5, <2>8, <3>2 DEF Advance
    <3> QED  BY <2>2, <3>1, <3>2
  <2>10. ImagesAlone'
    <3>1. SUFFICES ASSUME Active(refresh)', refresh'.target = "images"
                   PROVE  /\ jobs'["enrichment"].refresh # refresh'.id
                          /\ jobs'["analysis"].refresh # refresh'.id
                          /\ (jobs'["discovery"].refresh = refresh'.id
                                /\ jobs'["discovery"].status \in {"queued", "running"})
                               => refresh'.draft.image = NoImage
                          /\ (jobs'["storage"].refresh = refresh'.id
                                /\ jobs'["storage"].status \in {"queued", "running"})
                               => refresh'.draft.image # NoImage
                          /\ \A p \in prepared' : p.refresh = refresh'.id => p.step # "analysis"
      BY DEF ImagesAlone, Selected, Busy
    <3>2. target = "images" /\ s \in {"discovery", "storage"}
      BY <2>2, <2>3, <2>6, <2>8, <3>1
    <3>3. \A k \in Slots : k # s => jobs'[k] = jobs[k]
      BY <2>5 DEF TypeOK
    <3>4. CASE r = refresh
      <4>0. refresh.id # refresh.id + 1
        BY <1>0
      <4>1. /\ Active(refresh) /\ refresh.target = "images" /\ refresh'.id = refresh.id
            /\ refresh'.draft = refresh.draft /\ prepared' = prepared
        <5>1. Active(refresh)
          BY <2>2, <3>4, <4>0
        <5>2. refresh'.id = refresh.id /\ refresh'.draft = refresh.draft /\ refresh'.target = refresh.target
          BY <2>8, <3>4
        <5> QED  BY <2>5, <3>1, <5>1, <5>2
      <4>2. s = "discovery" => refresh.draft.image = NoImage
        BY <2>3, <3>4
      <4>3. s = "storage" => refresh.draft.image # NoImage
        BY <2>3, <3>4
      <4>4. \A k \in {"enrichment", "analysis", "discovery", "storage"} \ {s} : jobs'[k] = jobs[k]
        BY <3>3 DEF Slots
      <4> QED  BY <3>2, <4>1, <4>2, <4>3, <4>4 DEF ImagesAlone, Selected, Busy
    <3>5. CASE r.id = refresh.id + 1
      <4>1. \A k \in Slots : k # s => jobs'[k].refresh # refresh'.id
        <5>1. \A k \in Slots : jobs[k].refresh \in Nat /\ jobs[k].refresh <= refresh.id
          BY DEF KnownCandidates, TypeOK, Jobs
        <5> QED  BY <1>0, <2>8, <3>3, <3>5, <5>1
      <4>2. \A p \in prepared : p.refresh # refresh'.id
        <5>1. \A p \in prepared : p.refresh \in Nat /\ p.refresh <= refresh.id
          BY DEF KnownCandidates, TypeOK, Preparations
        <5> QED  BY <1>0, <2>8, <3>5, <5>1
      <4> QED  BY <2>3, <2>5, <2>8, <3>2, <4>1, <4>2 DEF Slots
    <3> QED  BY <2>2, <3>4, <3>5
  <2> QED  BY <2>5, <2>9, <2>10
<1>2. CASE Look
  BY <1>2, SameJobs, QuietAdvances DEF Look
<1>3. CASE Reject
  <2>1. /\ Active(refresh) /\ refresh' = Ended(refresh, "cancelled") /\ jobs' = jobs
        /\ prepared' = prepared
    BY <1>3 DEF Reject, SeenVersion
  <2> QED  BY <1>0, <2>1, EndedCandidate, SameJobs, QuietAdvances
<1>4. CASE Approve
  <2> DEFINE p == Prepared("editor", "promote", seen.draft)
  <2>1. /\ p.refresh = refresh.id /\ p.version = refresh.version /\ p.draft = refresh.draft
        /\ p.catalog = catalog /\ p.step = "promote"
    BY DEF Prepared
  <2>2. /\ Active(refresh) /\ NextStage = "promote"
        /\ prepared' = prepared \cup {p} /\ UNCHANGED <<refresh, jobs>>
    BY <1>4 DEF Approve, SeenVersion
  <2> HIDE DEF p
  <2>3. Advance
    BY <2>1, <2>2, SameJobs DEF Advance, ReadyPreparation
  <2>4. Quiet
    BY <2>2, SameJobs DEF Quiet
  <2> QED  BY <2>1, <2>2, <2>3, <2>4, QuietKeepsImages
<1>5. ASSUME NEW s \in Slots, RetryJob(s)
      PROVE  Advance /\ ImagesAlone' /\ prepared' = prepared
  <2>1. Advance
    BY <1>0, <1>5, RequeuedJob DEF Advance
  <2>2. PICK k \in Slots :
          /\ k \in {s, "discovery", "storage"} /\ (k = s \/ s \in {"discovery", "storage"})
          /\ k = "storage" => refresh.draft.image # NoImage
          /\ k = "discovery" => refresh.draft.image = NoImage
          /\ jobs' = [jobs EXCEPT ![k] = NewJob(k, refresh.id, refresh.draft, catalog)]
    BY <1>5, RequeuedJob
  <2>3. \A i \in Slots : i # k => jobs'[i] = jobs[i]
    BY <2>2 DEF TypeOK
  <2>4. ImagesAlone'
    <3>1. CASE refresh.target = "images"
      <4>1. k \in {"discovery", "storage"}
        BY <1>5, <2>2, <3>1, RequeuedJob DEF ImagesAlone, Slots
      <4> QED  BY <1>5, <2>2, <2>3, <3>1, <4>1, RequeuedJob DEF ImagesAlone, Selected, Busy, Slots
    <3>2. CASE refresh.target # "images"
      BY <1>5, <3>2, RequeuedJob DEF ImagesAlone
    <3> QED  BY <3>1, <3>2
  <2> QED  BY <1>5, <2>1, <2>4, RequeuedJob
<1> QED  BY <1>1, <1>2, <1>3, <1>4, <1>5 DEF Operators

LEMMA ResumeAdvances ==
  ASSUME TypeOK, KnownCandidates, ImagesAlone, Resume
  PROVE  Advance /\ ImagesAlone' /\ \A p \in prepared' \ prepared : Active(refresh)
<1>0. refresh \in Refreshes /\ refresh.version \in Nat /\ refresh.draft.image \in Images \cup {NoImage}
  BY DEF TypeOK, Refreshes, Views
<1>1. CASE Prepare
  <2> DEFINE p == Prepared("system", NextStage, refresh.draft)
  <2>1. /\ p.refresh = refresh.id /\ p.version = refresh.version /\ p.draft = refresh.draft
        /\ p.catalog = catalog /\ p.step = NextStage
    BY DEF Prepared
  <2>2. Active(refresh) /\ prepared' = prepared \cup {p} /\ UNCHANGED <<refresh, jobs>>
    BY <1>1 DEF Prepare
  <2> HIDE DEF p
  <2>3. refresh.target = "images" => NextStage # "analysis"
    BY DEF NextStage
  <2>4. Advance
    BY <2>1, <2>2, SameJobs DEF Advance, ReadyPreparation
  <2>5. Quiet
    BY <2>2, SameJobs DEF Quiet
  <2> QED  BY <2>1, <2>2, <2>3, <2>4, <2>5, QuietKeepsImages
<1>2. CASE Retire
  BY <1>0, <1>2, EndedCandidate, SameJobs, QuietAdvances DEF Retire
<1>3. ASSUME NEW p \in prepared, Commit(p)
      PROVE  Advance /\ ImagesAlone' /\ prepared' \subseteq prepared
  <2>1. prepared' \subseteq prepared
    BY <1>3 DEF Commit, CommitPromotion, CommitAnalysis, CommitImages, Drop
  <2>2. CASE CommitPromotion(p)
    <3>1. \/ refresh' = refresh
          \/ Active(refresh) /\ \E status \in {"review", "promoted", "superseded"} :
                refresh' = Ended(refresh, status)
      BY <2>2 DEF CommitPromotion, SameVersion
    <3>2. jobs' = jobs
      BY <2>2 DEF CommitPromotion
    <3> QED  BY <1>0, <2>1, <3>1, <3>2, EndedCandidate, SameJobs, QuietAdvances
  <2>3. CASE CommitAnalysis(p)
    <3>1. CASE UNCHANGED <<jobs, refresh>>
      BY <2>1, <3>1, SameJobs, QuietAdvances
    <3>2. CASE SameVersion(p) /\ refresh' = Selecting(refresh)
      <4>1. refresh'.id = refresh.id /\ refresh'.version > refresh.version /\ refresh'.target = refresh.target
        BY <1>0, <3>2, SelectedCandidate
      <4>2. refresh.target # "images"
        BY <2>3, <3>2 DEF ImagesAlone, SameVersion, CommitAnalysis
      <4> QED  BY <2>1, <4>1, <4>2 DEF Advance, ImagesAlone
    <3> QED  BY <2>3, <3>1, <3>2 DEF CommitAnalysis
  <2>4. CASE CommitImages(p)
    <3>1. CASE UNCHANGED <<jobs, refresh>>
      BY <2>1, <3>1, SameJobs, QuietAdvances
    <3>2. CASE /\ Imaging(p) /\ jobs' = [jobs EXCEPT !["storage"] = StorageJob(refresh)]
               /\ refresh' = Storing(refresh)
      <4>1. /\ refresh'.id = refresh.id /\ refresh'.version > refresh.version
            /\ refresh'.target = refresh.target /\ refresh'.draft = refresh.draft
        BY <1>0, <3>2, StoredCandidate DEF Imaging, StorageDue
      <4>2. Active(refresh) /\ refresh.draft.image # NoImage
        BY <3>2 DEF Imaging, Live, StorageDue
      <4>3. \A s \in Slots \ {"storage"} : jobs'[s] = jobs[s]
        BY <3>2 DEF TypeOK
      <4>4. Advance
        BY <2>1, <4>1 DEF Advance
      <4>5. \A s \in {"enrichment", "analysis", "discovery"} : jobs'[s] = jobs[s]
        BY <4>3 DEF Slots
      <4>6. ImagesAlone'
        BY <2>1, <4>1, <4>2, <4>5 DEF ImagesAlone, Selected, Busy
      <4> QED  BY <2>1, <4>4, <4>6
    <3> QED  BY <2>4, <3>1, <3>2 DEF CommitImages
  <2> QED  BY <1>3, <2>1, <2>2, <2>3, <2>4 DEF Commit
<1> QED  BY <1>1, <1>2, <1>3 DEF Resume, Retire

LEMMA ClaimsAdvance ==
  ASSUME TypeOK, RefreshAssumption, ImagesAlone, Preview \/ \E s \in Slots : Claim(s) \/ Recover(s)
  PROVE  Advance /\ ImagesAlone' /\ \A p \in prepared' \ prepared : Active(refresh)
<1>1. UNCHANGED <<refresh, prepared>>
  BY DEF Preview, Claim, Recover
<1>2. ASSUME Preview
      PROVE  NoBusier
  BY <1>2, SameJobs DEF Preview
<1>3. ASSUME NEW s \in Slots, Claim(s)
      PROVE  NoBusier
  <2>1. CASE Start(s, workers)
    <3>1. Busy(s) /\ workers \in SUBSET Workers
      BY <1>3 DEF Claim, Busy, TypeOK
    <3> QED  BY <2>1, <3>1, StartQuiet
  <2>2. CASE jobs' = Finished(s, "stopped")
    BY <2>2, FinishedQuiet
  <2> QED  BY <1>3, <2>1, <2>2 DEF Claim
<1>4. ASSUME NEW s \in Slots, Recover(s)
      PROVE  NoBusier
  BY <1>4, RetriedQuiet DEF Recover, Busy
<1>5. NoBusier
  BY <1>2, <1>3, <1>4
<1> QED  BY <1>1, <1>5, QuietAdvances

\* A discovery ends with an image or without; only an image is stored.
LEMMA DiscoveryAdvances ==
  ASSUME TypeOK, ImagesAlone, NEW w \in workers, FinishDiscovery(w)
  PROVE  Advance /\ ImagesAlone'
<1>1. /\ refresh \in Refreshes /\ refresh.version \in Nat /\ refresh.draft \in Views
      /\ jobs \in [Slots -> Jobs] /\ "discovery" \in Slots
  BY DEF TypeOK, Refreshes, Slots
<1>2. /\ Active(refresh) /\ Selected("discovery") /\ Busy("discovery") /\ prepared' = prepared
  BY DEF FinishDiscovery, Owns, Wanted, Current, Live, Busy, Leave
<1>3. PICK view \in Views, outcome \in {"applied", "stopped"} :
        /\ view.image = refresh.draft.image \/ view.image # NoImage
        /\ LET r == Touched(refresh, view)
               done == Finished("discovery", outcome)
           IN IF StorageDue(r)
              THEN /\ jobs' = [done EXCEPT !["storage"] = StorageJob(r)]
                   /\ refresh' = Storing(r)
              ELSE jobs' = done /\ refresh' = r
  <2>1. PICK found \in Images \cup {NoImage} :
        LET expected == refresh.draft.image = jobs["discovery"].image
            view == IF found # NoImage /\ expected
                    THEN [refresh.draft EXCEPT !.image = found, !.stored = NoImage]
                    ELSE refresh.draft
            r == Touched(refresh, view)
            done == Finished("discovery", IF found = NoImage \/ expected THEN "applied" ELSE "stopped")
        IN IF StorageDue(r)
           THEN /\ jobs' = [done EXCEPT !["storage"] = StorageJob(r)]
                /\ refresh' = Storing(r)
           ELSE jobs' = done /\ refresh' = r
    BY DEF FinishDiscovery
  <2>2. /\ [refresh.draft EXCEPT !.image = found, !.stored = NoImage] \in Views
        /\ [refresh.draft EXCEPT !.image = found, !.stored = NoImage].image = found
    BY <1>1 DEF Views
  <2> QED  BY <1>1, <2>1, <2>2
<1> DEFINE r == Touched(refresh, view)
           done == Finished("discovery", outcome)
<1>4. /\ r \in Refreshes /\ r.draft = view /\ r.id = refresh.id /\ r.target = refresh.target
      /\ r.version = refresh.version + 1
  BY <1>1, TouchedCandidate
<1>5. /\ done \in [Slots -> Jobs] /\ done["discovery"].status = "succeeded"
      /\ \A s \in Slots \ {"discovery"} : done[s] = jobs[s]
  <2>1. done["discovery"].status = "succeeded" /\ \A s \in Slots \ {"discovery"} : done[s] = jobs[s]
    BY <1>1 DEF Finished, Jobs
  <2> QED  BY <1>1, <2>1, FinishedJob
<1>6. StorageDue(r) => view.image \in Images /\ view.image # NoImage
  BY <1>4 DEF StorageDue, Views
<1>7. /\ refresh'.id = refresh.id /\ refresh'.version > refresh.version
      /\ refresh'.target = refresh.target /\ refresh'.draft = view
      /\ jobs'["discovery"].status = "succeeded"
      /\ \A s \in {"enrichment", "analysis"} : jobs'[s] = jobs[s]
      /\ jobs'["storage"] = jobs["storage"] \/ view.image # NoImage
  <2> HIDE DEF r, done
  <2>1. CASE StorageDue(r)
    <3>1. refresh' = Storing(r) /\ jobs' = [done EXCEPT !["storage"] = StorageJob(r)]
      BY <1>3, <2>1 DEF r, done
    <3>2. /\ Storing(r).id = r.id /\ Storing(r).target = r.target /\ Storing(r).draft = r.draft
          /\ Storing(r).version = r.version + 1
      BY <1>4, <1>6, <2>1, StoredCandidate
    <3> QED  BY <1>1, <1>4, <1>5, <1>6, <2>1, <3>1, <3>2 DEF Slots
  <2>2. CASE ~StorageDue(r)
    <3>1. refresh' = r /\ jobs' = done
      BY <1>3, <2>2 DEF r, done
    <3> QED  BY <1>1, <1>4, <1>5, <3>1 DEF Slots
  <2> QED  BY <2>1, <2>2
<1>8. Advance
  BY <1>2, <1>7 DEF Advance
<1>9. view.image = NoImage => refresh.draft.image = NoImage
  BY <1>3
<1>10. ImagesAlone'
  BY <1>2, <1>7, <1>9 DEF ImagesAlone, Selected, Busy
<1> QED  BY <1>8, <1>10

LEMMA WorkAdvances ==
  ASSUME TypeOK, RefreshAssumption, ImagesAlone, NEW w \in workers, Work(w) \/ Fail(w)
  PROVE  Advance /\ ImagesAlone' /\ prepared' = prepared
<1>0. /\ w \in Workers /\ w.slot \in Slots /\ w.draft \in Views /\ w.catalog \in Nat
      /\ refresh \in Refreshes /\ refresh.version \in Nat /\ refresh.draft \in Views
  BY DEF TypeOK, Workers, Refreshes
<1>1. prepared' = prepared
  BY DEF Work, Fail, ClaimAnalysis, Lost, Stop, ReadDraft, ApplyEnrichment, ApplyAnalysis,
         FinishDiscovery, FinishStorage, Leave, Again
<1>2. CASE ClaimAnalysis(w)
  <2>1. "analysis" \in Slots /\ workers \ {w} \in SUBSET Workers /\ refresh' = refresh
    BY <1>2 DEF Slots, TypeOK, ClaimAnalysis
  <2>2. NoBusier
    BY <1>2, <2>1, StartQuiet, FinishedQuiet, SameJobs DEF ClaimAnalysis, Busy
  <2> QED  BY <1>1, <2>1, <2>2, QuietAdvances
<1>3. CASE Lost(w)
  BY <1>1, <1>3, SameJobs, QuietAdvances DEF Lost
<1>4. CASE Stop(w)
  BY <1>0, <1>1, <1>4, FinishedQuiet, QuietAdvances DEF Stop
<1>5. CASE ReadDraft(w)
  BY <1>1, <1>5, SameJobs, QuietAdvances DEF ReadDraft
<1>6. CASE Owns(w) /\ Again(w)
  <2>1. NoBusier
    BY <1>0, <1>6, RetriedQuiet, SameJobs DEF Again, Owns, Busy
  <2> QED  BY <1>1, <1>6, <2>1, QuietAdvances DEF Again
<1>7. ASSUME w.slot \in {"enrichment", "analysis"}, Wanted(w),
             NEW view \in Views, refresh' = Touched(refresh, view)
      PROVE  Advance /\ ImagesAlone'
  <2>1. refresh'.id = refresh.id /\ refresh'.version > refresh.version /\ refresh'.target = refresh.target
    BY <1>0, <1>7, TouchedCandidate
  <2>2. refresh.target # "images"
    BY <1>7 DEF Wanted, Current, Live, ImagesAlone
  <2> QED  BY <1>1, <2>1, <2>2 DEF Advance, ImagesAlone
<1>8. CASE ApplyEnrichment(w) /\ ~Again(w)
  <2>1. PICK text \in {w.draft.text, w.draft.text + 1}, image \in {w.draft.image} \cup Images :
          refresh' = Touched(refresh, Extracting(w.draft, text, image))
    BY <1>8 DEF ApplyEnrichment
  <2>2. Extracting(w.draft, text, image) \in Views
    BY <1>0, <2>1 DEF Extracting, Views
  <2>3. w.slot \in {"enrichment", "analysis"} /\ Wanted(w)
    BY <1>8 DEF ApplyEnrichment
  <2> QED  BY <1>1, <1>7, <2>1, <2>2, <2>3
<1>9. CASE ApplyAnalysis(w) /\ ~Again(w)
  <2>1. CASE jobs' = Finished("analysis", "stopped") /\ UNCHANGED refresh
    <3>1. "analysis" \in Slots /\ "stopped" \in {"applied", "stopped", "insufficient"}
      BY DEF Slots
    <3>2. NoBusier
      BY <2>1, <3>1, FinishedQuiet
    <3> QED  BY <1>1, <2>1, <3>2, QuietAdvances
  <2>2. CASE ~(jobs' = Finished("analysis", "stopped") /\ UNCHANGED refresh)
    <3>1. PICK outcome \in {"applied", "insufficient"} :
            refresh' = Touched(refresh, [w.draft EXCEPT !.judged =
                  IF outcome = "applied" THEN Judgement(w.draft.text, w.catalog) ELSE {}])
      BY <1>9, <2>2 DEF ApplyAnalysis
    <3>2. [w.draft EXCEPT !.judged =
             IF outcome = "applied" THEN Judgement(w.draft.text, w.catalog) ELSE {}] \in Views
      BY <1>0 DEF Views, Judgement
    <3>3. w.slot \in {"enrichment", "analysis"} /\ Wanted(w)
      BY <1>9 DEF ApplyAnalysis
    <3> QED  BY <1>1, <1>7, <3>1, <3>2, <3>3
  <2> QED  BY <2>1, <2>2
<1>10. CASE FinishDiscovery(w)
  BY <1>1, <1>10, DiscoveryAdvances
<1>11. CASE FinishStorage(w)
  <2> DEFINE view == [refresh.draft EXCEPT !.stored = jobs["storage"].image]
  <2>1. view \in Views /\ view.image = refresh.draft.image
    BY DEF TypeOK, Refreshes, Views, Jobs, Slots
  <2>2. refresh' = Touched(refresh, view) /\ jobs' = Finished("storage", "applied")
        /\ Active(refresh)
    BY <1>11 DEF FinishStorage, Wanted, Current, Live
  <2> HIDE DEF view
  <2>3. NoBusier
    BY <2>2, FinishedQuiet DEF Slots
  <2>4. /\ refresh'.id = refresh.id /\ refresh'.version > refresh.version
        /\ refresh'.target = refresh.target /\ refresh'.draft.image = refresh.draft.image
    BY <1>0, <2>1, <2>2, TouchedCandidate
  <2> QED  BY <1>1, <2>2, <2>3, <2>4, QuietAdvances
<1>12. CASE Fail(w)
  <2>1. NoBusier
    BY <1>0, <1>12, RetriedQuiet DEF Fail, Owns, Busy
  <2> QED  BY <1>1, <1>12, <2>1, QuietAdvances DEF Fail
<1> QED  BY <1>1, <1>2, <1>3, <1>4, <1>5, <1>6, <1>8, <1>9, <1>10, <1>11, <1>12
         DEF Work, ApplyEnrichment, ApplyAnalysis

LEMMA ChangesAdvance ==
  ASSUME ImagesAlone, Edit \/ ShowOrHide \/ Authorise \/ ChangeCatalog
  PROVE  Advance /\ ImagesAlone' /\ prepared' = prepared
<1>1. UNCHANGED <<refresh, jobs, prepared>>
  BY DEF Edit, ShowOrHide, Authorise, ChangeCatalog, Change
<1> QED  BY <1>1, SameJobs, QuietAdvances

LEMMA PromotableStep ==
  ASSUME RefreshAssumption, IInv, Promotable, [Next]_vars
  PROVE  Promotable'
<1>0. /\ TypeOK /\ TypeOK' /\ KnownCandidates /\ VersionNamesDraft
      /\ ImagesAlone
  BY TypeStep DEF IInv, Promotable
<1>1. Advance /\ ImagesAlone' /\ \A p \in prepared' \ prepared : Active(refresh)
  <2>1. CASE UNCHANGED vars
    BY <1>0, <2>1, SameJobs, QuietAdvances DEF vars
  <2>2. CASE Next
    BY <1>0, <2>2, OperatorsAdvance, ResumeAdvances, ClaimsAdvance, WorkAdvances, ChangesAdvance
    DEF Next, Operators
  <2> QED  BY <2>1, <2>2
<1>2. PreparedDraft' /\ PreparedWhole'
  BY <1>0, <1>1, AdvancePreserves
<1> QED  BY <1>1, <1>2 DEF Promotable

\* What was prepared for promotion is whole, and stays so under the same version
\* (prepare_promotion, commit_promotion).
THEOREM PromotionInvariance == Spec => [](IInv /\ Promotable)
<1>1. Init => IInv /\ Promotable
  <2>1. ASSUME Init PROVE Promotable
    BY <2>1 DEF Init, NoRefresh, Active, Promotable, PreparedDraft, PreparedWhole, ImagesAlone
  <2> QED  BY <2>1, RefreshAssumption, InvariantInit
<1>2. (IInv /\ Promotable) /\ [Next]_vars => (IInv /\ Promotable)'
  BY RefreshAssumption, InvariantStep, PromotableStep
<1> QED  BY <1>1, <1>2, PTL DEF Spec

\* A replacement is whole and current: what prepare_promotion found still holds
\* when commit_promotion compares version and catalogue under its locks.
THEOREM PromotionsAreCurrent == Spec => PromotedIsCurrent
<1> DEFINE Whole(view) ==
              /\ view = refresh.draft
              /\ ~Paywalled /\ \A s \in Slots : Selected(s) => ~Busy(s)
              /\ view.stored = view.image
              /\ refresh.target # "images" => view.judged = Judgement(view.text, catalog)
<1>1. ASSUME IInv, Promotable, Next, Promoting
      PROVE  Whole(article'.view)
  <2>1. PICK p \in prepared : /\ p.step = "promote" /\ SameVersion(p) /\ SameCatalog(p)
                              /\ article'.view = p.draft
    BY <1>1, PromotionPublishes DEF IInv
  <2>2. p.refresh = refresh.id /\ p.version = refresh.version
        /\ (refresh.target # "images" => catalog = p.catalog)
    BY <2>1 DEF SameVersion, SameCatalog
  <2>3. p.draft = refresh.draft
    BY <1>1, <2>1, <2>2 DEF Promotable, PreparedDraft
  <2> QED  BY <1>1, <2>1, <2>2, <2>3 DEF Promotable, PreparedWhole
<1>2. IInv /\ Promotable /\ [Next]_vars => [Promoting => Whole(article'.view)]_vars
  BY <1>1
<1> QED  BY <1>2, PromotionInvariance, PTL DEF Spec, PromotedIsCurrent

=============================================================================
