--------------------------- MODULE ArticleRefresh ---------------------------
(***************************************************************************)
(* Private maintenance of a published article                              *)
(* (packages/core/src/article_refresh*.py,                                 *)
(* apps/aggregator/src/article_refresh_tasks.py).  An operator's retry     *)
(* opens an ArticleRefresh: a draft copied from the approved publication.  *)
(* Workers change the draft stage by stage, readers keep the publication,  *)
(* and a complete draft replaces it in one transaction.  Preparing that    *)
(* transaction takes no lock, so the article, its source, the catalogue    *)
(* and the draft may all change between the preparation and the commit.    *)
(*                                                                         *)
(* A publication and a draft are views of the same shape: the extracted    *)
(* text, the text and catalogue the analysis was made from, the image, the *)
(* image whose variants are stored, and the edits they contain.  Dispatch  *)
(* and leases are the subject of IngestionOutbox.                          *)
(***************************************************************************)
EXTENDS Naturals, FiniteSets

CONSTANTS
    Images,         \* image URLs
    NoImage,
    FirstImages,    \* bound: the image of the publication at first
    MaxAttempts,    \* attempts of one job
    ApplyTries,     \* applications one worker tries
    MaxText,        \* bound: extractions that differ
    MaxRefreshes,   \* bound: replacements of the article
    MaxRetries,     \* bound: an operator's retries
    MaxEvents,      \* bound: retries, edits, withdrawals, source and catalogue
                    \* changes, expired leases and failed attempts together
    MaxPrepared     \* bound: promotions in flight at once

ASSUME RefreshAssumption ==
    /\ NoImage \notin Images /\ FirstImages \subseteq Images \cup {NoImage}
    /\ MaxAttempts \in Nat \ {0} /\ ApplyTries \in Nat \ {0}
    /\ MaxText \in Nat /\ MaxRefreshes \in Nat /\ MaxRetries \in Nat
    /\ MaxEvents \in Nat /\ MaxPrepared \in Nat

VARIABLES
    article,    \* the publication readers see, and whether they see it
    authority,  \* its source is approved; replacements need no editor
    catalog,    \* revision of topics and tags
    refresh,    \* the article's latest ArticleRefresh
    jobs,       \* the latest job of each slot
    workers,    \* handlers of claimed jobs
    prepared,   \* what resume_refresh and approve_refresh read before their commit
    seen,       \* the version an administrator looked at
    bounds      \* counters of the bounds, and the edits made so far

vars == <<article, authority, catalog, refresh, jobs, workers, prepared, seen, bounds>>

Slots == {"enrichment", "analysis", "discovery", "storage"}

Active(r) == r.status \in {"active", "review"}

Judgement(text, revision) == {[text |-> text, catalog |-> revision]}

NoJob == [refresh |-> 0, status |-> "succeeded", token |-> 0, attempts |-> 0,
          text |-> 0, catalog |-> 0, image |-> NoImage, outcome |-> "applied"]

\* A job and what it was queued for: analysis for a text and a catalogue, image
\* work for an image.
NewJob(s, id, view, revision) ==
    [refresh |-> id, status |-> "queued", token |-> 0, attempts |-> 0, outcome |-> "none",
     text |-> IF s = "analysis" THEN view.text ELSE 0,
     catalog |-> IF s = "analysis" THEN revision ELSE 0,
     image |-> IF s \in {"discovery", "storage"} THEN view.image ELSE NoImage]

NoRefresh(view) ==
    [id |-> 0, status |-> "none", target |-> "images", version |-> 0,
     base |-> view, revision |-> 0, draft |-> view, tried |-> {}]

Init ==
    /\ \E image \in FirstImages :
          article = [view |-> [text |-> 0, judged |-> Judgement(0, 0), image |-> image,
                               stored |-> image, edits |-> 0],
                     revision |-> 0, shown |-> TRUE]
    /\ authority \in [approved : {TRUE}, automatic : BOOLEAN]
    /\ catalog = 0
    /\ refresh = NoRefresh(article.view)
    /\ jobs = [s \in Slots |-> NoJob]
    /\ workers = {} /\ prepared = {}
    /\ seen = [refresh |-> 0, version |-> 0, draft |-> article.view]
    /\ bounds = [edits |-> 0, events |-> 0, retries |-> 0, tokens |-> 0]

-----------------------------------------------------------------------------
(* Ownership and readiness.                                                *)

Selected(s) == jobs[s].refresh = refresh.id

Busy(s) == jobs[s].status \in {"queued", "running"}

\* refresh_for_article: the candidate still speaks for what is published.
Live ==
    /\ Active(refresh)
    /\ authority.approved /\ article.shown /\ article.revision = refresh.revision

\* Mutant: a change that left the revision alone goes unnoticed.
SameRevision == article.revision = refresh.revision

\* approved_digest has not changed either.
Unchanged == article.view = refresh.base

\* refresh_job_current, and the source hash or image the job was queued for.
Current(s) ==
    /\ Live /\ Selected(s)
    /\ s = "analysis" => jobs[s].text = refresh.draft.text
    /\ s = "storage" => jobs[s].image = refresh.draft.image

Succeeded(s) == jobs[s].status = "succeeded" /\ jobs[s].outcome \in {"applied", "paywalled"}

\* The candidate's own extraction met a paywall, which blocks whatever follows it.
Paywalled == Selected("enrichment") /\ jobs["enrichment"].outcome = "paywalled"

\* The checks of derive_publication_readiness over the draft: a slot that the
\* candidate has not run itself holds what made the publication ready.
Extracted == Selected("enrichment") => Succeeded("enrichment")

Judged(revision) ==
    /\ refresh.draft.judged = Judgement(refresh.draft.text, revision)
    /\ Selected("analysis") => Succeeded("analysis")

\* A lookup that failed for the image the draft still has.
ImageFailed ==
    \E s \in {"discovery", "storage"} :
        Selected(s) /\ jobs[s].status = "failed" /\ jobs[s].image = refresh.draft.image

Pictured ==
    /\ \A s \in {"discovery", "storage"} : Selected(s) => ~Busy(s)
    /\ ~ImageFailed /\ refresh.draft.stored = refresh.draft.image
    /\ refresh.draft.image = NoImage /\ Selected("discovery") =>
          Succeeded("discovery") \/ Selected("enrichment")

\* completed_refresh_image.
ImageComplete ==
    LET s == IF refresh.draft.image = NoImage THEN "discovery" ELSE "storage" IN
    /\ Selected(s) /\ Succeeded(s)
    /\ refresh.draft.stored = refresh.draft.image

\* Mutant: an analysis that was stopped is not asked for again either.
AnalysisSettled ==
    /\ Selected("analysis") /\ ~Busy("analysis")
    /\ jobs["analysis"].outcome # "applied"

\* A failed or insufficient analysis of these very inputs waits for an operator.
AnalysisBlocked ==
    /\ Selected("analysis") /\ jobs["analysis"].text = refresh.draft.text
    /\ jobs["analysis"].catalog = catalog
    /\ jobs["analysis"].status = "failed" \/ jobs["analysis"].outcome = "insufficient"

\* resume_refresh: what the candidate needs next.
NextStage ==
    IF refresh.target = "images" THEN IF ImageComplete THEN "promote" ELSE "wait"
    ELSE IF \/ \E s \in Slots : Selected(s) /\ Busy(s)
            \/ ~Selected(refresh.target) \/ jobs[refresh.target].status # "succeeded"
            \/ ~Extracted
         THEN "wait"
    ELSE IF ~Judged(catalog) THEN IF AnalysisBlocked \/ Paywalled THEN "wait" ELSE "analysis"
    ELSE IF Pictured THEN IF Paywalled THEN "wait" ELSE "promote"
    ELSE IF ImageFailed THEN "wait" ELSE "images"

-----------------------------------------------------------------------------
(* Writes shared by the commands.                                          *)

Versioned(r) == [r EXCEPT !.version = @ + 1]

\* An operator selects another job for the same draft.
Selecting(r) == [Versioned(r) EXCEPT !.status = "active"]

\* Mutant: the workers' changes keep the version.
TouchedQuietly(r, view) == [r EXCEPT !.draft = view, !.status = "active"]

\* touch_refresh: a changed draft is a new version, and no longer in review.
Touched(r, view) == [Selecting(r) EXCEPT !.draft = view]

Ended(r, status) == [Versioned(r) EXCEPT !.status = status]

Finished(s, outcome) ==
    [jobs EXCEPT ![s] = [@ EXCEPT !.status = "succeeded", !.outcome = outcome,
                                      !.token = 0, !.attempts = 0]]

\* fail_or_retry.
FailedJob(s, retryable) ==
    LET again == retryable /\ jobs[s].attempts < MaxAttempts IN
    [jobs EXCEPT ![s] = [@ EXCEPT !.token = 0, !.status = IF again THEN "queued" ELSE "failed"]]

\* _request_refresh_image: an automatic request is made once per image.
StorageDue(r) ==
    r.draft.image # NoImage /\ r.draft.stored # r.draft.image /\ r.draft.image \notin r.tried

StorageJob(r) == NewJob("storage", r.id, r.draft, catalog)

Storing(r) == [Selecting(r) EXCEPT !.tried = @ \cup {r.draft.image}]

-----------------------------------------------------------------------------
(* Operators.                                                              *)

Targets == {"enrichment", "analysis", "images"}

\* What may be retried under a candidate that was opened for a target.
Scopes ==
    [enrichment |-> Targets,
     analysis |-> {"analysis", "images"}, images |-> {"images"}]

\* create_refresh returns the active candidate, or opens one.
Owner(target) ==
    IF Active(refresh) THEN refresh
    ELSE [id |-> refresh.id + 1, status |-> "active", target |-> target, version |-> 1,
          base |-> article.view, revision |-> article.revision,
          draft |-> article.view, tried |-> {}]

Slot(target, r) ==
    IF target # "images" THEN target
    ELSE IF r.draft.image = NoImage THEN "discovery" ELSE "storage"

Counted == [bounds EXCEPT !.events = @ + 1]

\* _request_published_retry: open or reuse the candidate and queue the target's job.
Retry(target) ==
    /\ article.shown /\ authority.approved
    /\ bounds.retries < MaxRetries /\ bounds.events < MaxEvents
    /\ (Active(refresh) \/ refresh.id < MaxRefreshes)
    /\ Active(refresh) => Unchanged /\ Live /\ target \in Scopes[refresh.target]
    /\ LET r == Owner(target)
           s == Slot(target, r)
       IN /\ \A k \in {s} \cup (IF target = "images" THEN {"discovery", "storage"} ELSE {}) : ~Busy(k)
          /\ target = "images" /\ Active(refresh) /\ refresh.target # "images" =>
                Extracted /\ ~Paywalled /\ Judged(catalog)
          /\ target = "analysis" /\ Active(refresh) => Extracted /\ ~Paywalled
          /\ jobs' = [jobs EXCEPT ![s] = NewJob(s, r.id, r.draft, catalog)]
          /\ refresh' = IF s = "storage" THEN Storing(r) ELSE Selecting(r)
    /\ bounds' = [Counted EXCEPT !.retries = @ + 1]
    /\ UNCHANGED <<article, authority, catalog, workers, prepared, seen>>

\* retry_failed_job: a failed job of the candidate is queued again for what the
\* candidate holds by now.  Neither the base nor the earlier stages are asked about.
RetryJob(s) ==
    LET image == s \in {"discovery", "storage"}
        k == IF image THEN Slot("images", refresh) ELSE s
    IN  /\ jobs[s].status = "failed" /\ Selected(s) /\ Live
        /\ image => /\ jobs[s].image = refresh.draft.image
                    /\ ~Busy("discovery") /\ ~Busy("storage")
        /\ bounds.retries < MaxRetries /\ bounds.events < MaxEvents
        /\ jobs' = [jobs EXCEPT ![k] = NewJob(k, refresh.id, refresh.draft, catalog)]
        /\ refresh' = IF k = "storage" THEN Storing(refresh) ELSE Selecting(refresh)
        /\ bounds' = [Counted EXCEPT !.retries = @ + 1]
        /\ UNCHANGED <<article, authority, catalog, workers, prepared, seen>>

\* The maintenance page.
Look ==
    /\ Active(refresh)
    /\ seen' = [refresh |-> refresh.id, version |-> refresh.version, draft |-> refresh.draft]
    /\ seen' # seen
    /\ UNCHANGED <<article, authority, catalog, refresh, jobs, workers, prepared, bounds>>

SeenVersion == Active(refresh) /\ seen.refresh = refresh.id /\ seen.version = refresh.version

\* review_refresh with "reject".
Reject ==
    /\ SeenVersion
    /\ refresh' = Ended(refresh, "cancelled")
    /\ UNCHANGED <<article, authority, catalog, jobs, workers, prepared, seen, bounds>>

Prepared(by, step, consent) ==
    [by |-> by, refresh |-> refresh.id, version |-> refresh.version, draft |-> refresh.draft,
     catalog |-> catalog, step |-> step, consent |-> consent]

By(whom) == {p \in prepared : p.by = whom}

\* approve_refresh: prepare_promotion of the version the administrator names.
Approve ==
    /\ SeenVersion /\ refresh.target # "images" /\ NextStage = "promote"
    /\ By("editor") = {}
    /\ prepared' = prepared \cup {Prepared("editor", "promote", seen.draft)}
    /\ UNCHANGED <<article, authority, catalog, refresh, jobs, workers, seen, bounds>>

-----------------------------------------------------------------------------
(* Resumption by the scheduler, or by a worker that has just finished.     *)

\* resume_refresh and try_promote_refresh up to their transaction.
Prepare ==
    /\ Active(refresh) /\ NextStage # "wait"
    /\ NextStage # "promote" => Live
    /\ Cardinality(By("system")) < MaxPrepared
    /\ prepared' = prepared \cup {Prepared("system", NextStage, refresh.draft)}
    /\ prepared' # prepared
    /\ UNCHANGED <<article, authority, catalog, refresh, jobs, workers, seen, bounds>>

\* resume_refresh of a candidate that lost its authority.
Retire ==
    /\ Active(refresh) /\ ~Live
    /\ \A s \in Slots : Selected(s) => ~Busy(s)
    /\ refresh' = Ended(refresh, "superseded")
    /\ UNCHANGED <<article, authority, catalog, jobs, workers, prepared, seen, bounds>>

Drop(p) == prepared' = prepared \ {p} /\ UNCHANGED <<authority, catalog, workers, seen, bounds>>

\* The candidate is active and of the version that was prepared.
SameVersion(p) == Active(refresh) /\ refresh.id = p.refresh /\ refresh.version = p.version

\* Mutant: commit_promotion forgets that the catalogue may have moved on.
AnyCatalog(p) == TRUE

\* snapshot_current; the image path has no use for the catalogue.
SameCatalog(p) == refresh.target # "images" => catalog = p.catalog

NextRevision == IF refresh.target = "images" THEN article.revision ELSE article.revision + 1

\* commit_promotion and the second half of try_promote_refresh: the whole
\* projection in one transaction, or the end of a candidate whose base moved.
CommitPromotion(p) ==
    /\ p.step = "promote" /\ Drop(p) /\ UNCHANGED jobs
    /\ \/ /\ ~SameVersion(p)
          /\ UNCHANGED <<article, refresh>>
       \/ /\ SameVersion(p) /\ ~(Live /\ Unchanged)
          /\ refresh' = IF p.by = "editor" THEN refresh ELSE Ended(refresh, "superseded")
          /\ UNCHANGED article
       \/ /\ SameVersion(p) /\ Live /\ Unchanged /\ ~SameCatalog(p)
          /\ UNCHANGED <<article, refresh>>
       \/ /\ SameVersion(p) /\ Live /\ Unchanged /\ SameCatalog(p)
          /\ p.by = "system" /\ refresh.target # "images" /\ ~authority.automatic
          /\ refresh' = IF refresh.status = "review" THEN refresh ELSE Ended(refresh, "review")
          /\ UNCHANGED article
       \/ /\ SameVersion(p) /\ Live /\ Unchanged /\ SameCatalog(p)
          /\ p.by = "editor" \/ refresh.target = "images" \/ authority.automatic
          /\ article' = [article EXCEPT !.view = p.draft, !.revision = NextRevision]
          /\ refresh' = Ended(refresh, "promoted")

\* request_refresh_analysis with prepared inputs.
CommitAnalysis(p) ==
    /\ p.step = "analysis" /\ Drop(p) /\ UNCHANGED article
    /\ \/ /\ SameVersion(p) /\ Live /\ ~Busy("analysis")
          /\ jobs' = [jobs EXCEPT !["analysis"] = NewJob("analysis", refresh.id, refresh.draft, p.catalog)]
          /\ refresh' = Selecting(refresh)
       \/ /\ ~(SameVersion(p) /\ Live /\ ~Busy("analysis"))
          /\ UNCHANGED <<jobs, refresh>>

Imaging(p) ==
    /\ Live /\ refresh.id = p.refresh /\ StorageDue(refresh)
    /\ ~Busy("discovery") /\ ~Busy("storage")

\* request_image, for the image the candidate has by then.
CommitImages(p) ==
    /\ p.step = "images" /\ Drop(p) /\ UNCHANGED article
    /\ \/ /\ Imaging(p)
          /\ jobs' = [jobs EXCEPT !["storage"] = StorageJob(refresh)]
          /\ refresh' = Storing(refresh)
       \/ /\ ~Imaging(p)
          /\ UNCHANGED <<jobs, refresh>>

Commit(p) == CommitPromotion(p) \/ CommitAnalysis(p) \/ CommitImages(p)

-----------------------------------------------------------------------------
(* Workers.  A claim takes a fresh lease; a worker whose lease was          *)
(* recovered keeps running and finds out when it comes back.               *)

NoView == [text |-> 0, judged |-> {}, image |-> NoImage, stored |-> NoImage, edits |-> 0]

Worker(s, token, phase, version) ==
    [slot |-> s, refresh |-> jobs[s].refresh, token |-> token, phase |-> phase,
     version |-> version, draft |-> NoView, catalog |-> 0, tries |-> 0]

Owns(w) == jobs[w.slot].status = "running" /\ jobs[w.slot].token = w.token

\* The candidate the worker works for is still the one its job is for.
Wanted(w) == Current(w.slot) /\ refresh.id = w.refresh

Leave(w) ==
    /\ workers' = workers \ {w}
    /\ UNCHANGED <<article, authority, catalog, prepared, seen, bounds>>

\* start_job.
Start(s, before) ==
    /\ jobs' = [jobs EXCEPT ![s] = [@ EXCEPT !.status = "running", !.token = bounds.tokens + 1,
                                             !.attempts = jobs[s].attempts + 1]]
    /\ workers' = before \cup {Worker(s, bounds.tokens + 1, "working", IF s = "analysis" THEN refresh.version ELSE 0)}
    /\ bounds' = [bounds EXCEPT !.tokens = @ + 1]

\* claim_article and claim_image.
Claim(s) ==
    /\ s # "analysis" /\ jobs[s].status = "queued"
    /\ \/ Current(s) /\ Start(s, workers)
       \/ ~Current(s) /\ jobs' = Finished(s, "stopped") /\ UNCHANGED <<workers, bounds>>
    /\ UNCHANGED <<article, authority, catalog, refresh, prepared, seen>>

\* analyze_refresh reads the candidate's version before it takes its locks.
Preview ==
    /\ jobs["analysis"].status = "queued"
    /\ \A w \in workers : w.phase # "preview"
    /\ workers' = workers \cup {Worker("analysis", 0, "preview", refresh.version)}
    /\ UNCHANGED <<article, authority, catalog, refresh, jobs, prepared, seen, bounds>>

\* The second half of analyze_refresh.
ClaimAnalysis(w) ==
    /\ w.phase = "preview"
    /\ LET queued == jobs["analysis"].status = "queued" /\ jobs["analysis"].refresh = w.refresh
           guard == Current("analysis") /\ w.version = refresh.version
       IN \/ queued /\ guard /\ Start("analysis", workers \ {w})
          \/ /\ ~(queued /\ guard)
             /\ jobs' = IF queued THEN Finished("analysis", "stopped") ELSE jobs
             /\ workers' = workers \ {w} /\ UNCHANGED bounds
    /\ UNCHANGED <<article, authority, catalog, refresh, prepared, seen>>

\* owned_job finds another lease, or none.
Lost(w) ==
    /\ w.phase # "preview" /\ ~Owns(w)
    /\ Leave(w) /\ UNCHANGED <<jobs, refresh>>

\* _retire_enrichment, _guard, current_refresh_image: the candidate has moved on.
Stop(w) ==
    /\ w.phase # "preview" /\ Owns(w)
    /\ \/ w.slot # "enrichment" /\ ~Wanted(w)
       \/ w.slot = "analysis" /\ w.version # refresh.version
       \/ w.slot = "enrichment" /\ w.phase = "read" /\ ~Wanted(w)
       \/ w.slot = "enrichment" /\ ~(Active(refresh) /\ refresh.id = w.refresh)
    /\ jobs' = Finished(w.slot, "stopped")
    /\ Leave(w) /\ UNCHANGED refresh

\* The inputs of an application are read before its locks.
ReadDraft(w) ==
    /\ w.phase = "working" /\ w.slot \in {"enrichment", "analysis"}
    /\ Active(refresh) /\ refresh.id = w.refresh
    /\ workers' = (workers \ {w}) \cup
          {[w EXCEPT !.phase = "read", !.version = refresh.version, !.draft = refresh.draft,
                     !.catalog = IF w.slot = "analysis" THEN catalog ELSE 0]}
    /\ UNCHANGED <<article, authority, catalog, refresh, jobs, prepared, seen, bounds>>

\* _ApplicationInputsChanged: read again, or give the attempt up.
Again(w) ==
    /\ UNCHANGED <<article, authority, catalog, refresh, prepared, seen, bounds>>
    /\ \/ /\ w.tries + 1 < ApplyTries
          /\ workers' = (workers \ {w}) \cup
                {[w EXCEPT !.phase = "working", !.tries = w.tries + 1]}
          /\ UNCHANGED jobs
       \/ /\ w.tries + 1 = ApplyTries
          /\ workers' = workers \ {w}
          /\ jobs' = FailedJob(w.slot, TRUE)

\* Another text forgets the analysis, another image its variants.
Extracting(view, text, image) ==
    [text |-> text, judged |-> IF text = view.text THEN view.judged ELSE {}, image |-> image,
     stored |-> IF image = view.image THEN view.stored ELSE NoImage, edits |-> view.edits]

\* apply_refresh_enrichment.
ApplyEnrichment(w) ==
    /\ w.phase = "read" /\ w.slot = "enrichment" /\ Owns(w) /\ Wanted(w)
    /\ \/ w.version # refresh.version /\ Again(w)
       \/ /\ w.version = refresh.version
          /\ \E text \in {t \in {w.draft.text, w.draft.text + 1} : t <= MaxText},
                image \in {w.draft.image} \cup Images :
                refresh' = Touched(refresh, Extracting(w.draft, text, image))
          /\ \E outcome \in {"applied", "paywalled"} : jobs' = Finished("enrichment", outcome)
          /\ Leave(w)

\* RefreshAnalysisService.apply_result.
ApplyAnalysis(w) ==
    /\ w.phase = "read" /\ w.slot = "analysis" /\ Owns(w)
    /\ Wanted(w) /\ w.version = refresh.version
    /\ \/ catalog # w.catalog /\ Again(w)
       \/ /\ catalog = w.catalog /\ jobs["analysis"].catalog # w.catalog
          /\ jobs' = Finished("analysis", "stopped")
          /\ Leave(w) /\ UNCHANGED refresh
       \/ /\ catalog = w.catalog /\ jobs["analysis"].catalog = w.catalog
          /\ \E outcome \in {"applied", "insufficient"} :
                /\ refresh' = Touched(refresh, [w.draft EXCEPT !.judged =
                      IF outcome = "applied" THEN Judgement(w.draft.text, w.catalog) ELSE {}])
                /\ jobs' = Finished("analysis", outcome)
          /\ Leave(w)

\* _finish_refresh_discovery, with the storage request it makes.
FinishDiscovery(w) ==
    /\ w.slot = "discovery" /\ Owns(w) /\ Wanted(w)
    /\ \E found \in Images \cup {NoImage} :
          LET expected == refresh.draft.image = jobs["discovery"].image
              view == IF found # NoImage /\ expected
                      THEN [refresh.draft EXCEPT !.image = found, !.stored = NoImage]
                      ELSE refresh.draft
              r == Touched(refresh, view)
              done == Finished("discovery", IF found = NoImage \/ expected THEN "applied" ELSE "stopped")
          IN IF StorageDue(r)
             THEN /\ jobs' = [done EXCEPT !["storage"] = StorageJob(r)]
                  /\ refresh' = Storing(r)
             ELSE jobs' = done /\ refresh' = r
    /\ Leave(w)

\* _finish_refresh_storage.
FinishStorage(w) ==
    /\ w.slot = "storage" /\ Owns(w) /\ Wanted(w)
    /\ refresh' = Touched(refresh, [refresh.draft EXCEPT !.stored = jobs["storage"].image])
    /\ jobs' = Finished("storage", "applied")
    /\ Leave(w)

Work(w) ==
    \/ ClaimAnalysis(w) \/ Lost(w) \/ Stop(w) \/ ReadDraft(w)
    \/ ApplyEnrichment(w) \/ ApplyAnalysis(w) \/ FinishDiscovery(w) \/ FinishStorage(w)

Event == bounds.events < MaxEvents /\ bounds' = Counted

\* The attempt fails; only enrichment does not ask whether it is still wanted.
Fail(w) ==
    /\ w.phase # "preview" /\ Owns(w) /\ Event
    /\ w.slot = "enrichment" \/ Wanted(w)
    /\ \E retryable \in BOOLEAN : jobs' = FailedJob(w.slot, retryable)
    /\ workers' = workers \ {w}
    /\ UNCHANGED <<article, authority, catalog, refresh, prepared, seen>>

\* The scheduler takes back an expired lease, dead worker or not.
Recover(s) ==
    /\ jobs[s].status = "running" /\ Event
    /\ jobs' = FailedJob(s, TRUE)
    /\ UNCHANGED <<article, authority, catalog, refresh, workers, prepared, seen>>

-----------------------------------------------------------------------------
(* What happens around a candidate.                                        *)

Change == Event /\ UNCHANGED <<refresh, jobs, workers, prepared, seen>>

\* Assignments and polled metadata change without the revision, editorial
\* corrections with it.
Edit ==
    /\ bounds.events < MaxEvents
    /\ \E step \in {0, 1} :
          article' = [view |-> [article.view EXCEPT !.edits = @ + 1],
                      revision |-> article.revision + step, shown |-> article.shown]
    /\ bounds' = [Counted EXCEPT !.edits = @ + 1]
    /\ UNCHANGED <<authority, catalog, refresh, jobs, workers, prepared, seen>>

ShowOrHide ==
    /\ Change
    /\ article' = [view |-> article.view, revision |-> article.revision + 1, shown |-> ~article.shown]
    /\ UNCHANGED <<authority, catalog>>

Authorise ==
    /\ Change
    /\ authority' = [authority EXCEPT !.approved = ~@]
    /\ UNCHANGED <<article, catalog>>

ChangeCatalog ==
    /\ Change
    /\ catalog' = catalog + 1
    /\ UNCHANGED <<article, authority>>

Resume == Prepare \/ Retire \/ \E p \in prepared : Commit(p)

Next ==
    \/ \E target \in Targets : Retry(target)
    \/ \E s \in Slots : RetryJob(s)
    \/ Look \/ Reject \/ Approve \/ Resume
    \/ Preview \/ \E s \in Slots : Claim(s) \/ Recover(s)
    \/ \E w \in workers : Work(w) \/ Fail(w)
    \/ Edit \/ ShowOrHide \/ Authorise \/ ChangeCatalog

Spec == Init /\ [][Next]_vars

\* The scheduler's tick resumes what is due, queues deliver, and workers come
\* back.  No operator, editor or fault has to happen.
Fairness ==
    /\ WF_vars(Prepare) /\ WF_vars(Retire) /\ WF_vars(\E p \in By("system") : Commit(p))
    /\ WF_vars(Preview \/ \E s \in Slots : Claim(s))
    /\ WF_vars(\E w \in workers : Work(w))

FairSpec == Spec /\ Fairness

-----------------------------------------------------------------------------
(* Properties.                                                             *)

Views == [text : Nat, judged : SUBSET [text : Nat, catalog : Nat],
          image : Images \cup {NoImage}, stored : Images \cup {NoImage}, edits : Nat]

Refreshes ==
    [id : Nat, target : Targets, version : Nat, base : Views, revision : Nat,
     status : {"none", "active", "review", "promoted", "superseded", "cancelled"},
     draft : Views, tried : SUBSET Images]

Jobs ==
    [refresh : Nat, status : {"queued", "running", "succeeded", "failed"}, token : Nat,
     attempts : Nat, text : Nat, catalog : Nat, image : Images \cup {NoImage},
     outcome : {"none", "applied", "paywalled", "stopped", "insufficient"}]

Workers ==
    [slot : Slots, refresh : Nat, token : Nat, phase : {"preview", "working", "read"},
     version : Nat, draft : Views, catalog : Nat, tries : Nat]

Preparations ==
    [by : {"system", "editor"}, refresh : Nat, version : Nat, draft : Views, catalog : Nat,
     step : {"promote", "analysis", "images"}, consent : Views]

TypeOK ==
    /\ article \in [view : Views, revision : Nat, shown : BOOLEAN]
    /\ authority \in [approved : BOOLEAN, automatic : BOOLEAN]
    /\ catalog \in Nat
    /\ refresh \in Refreshes
    /\ jobs \in [Slots -> Jobs]
    /\ workers \subseteq Workers
    /\ prepared \subseteq Preparations
    /\ seen \in [refresh : Nat, version : Nat, draft : Views]
    /\ bounds \in [edits : Nat, events : Nat, retries : Nat, tokens : Nat]

\* What editors and feeds did to the publication is never lost to a draft that
\* was copied before it (approved_digest in commit_promotion).
EditsSurvive == article.view.edits = bounds.edits

Promoting == Active(refresh) /\ refresh'.status = "promoted"

\* A replacement is the candidate as it is at that moment, whole: no selected
\* job is still to come, its page was not behind a paywall, its analysis is of its
\* own text and of today's catalogue, and its image has its variants.
PromotedIsCurrent ==
    [][Promoting =>
          /\ article'.view = refresh.draft
          /\ ~Paywalled /\ \A s \in Slots : Selected(s) => ~Busy(s)
          /\ article'.view.stored = article'.view.image
          /\ refresh.target # "images" =>
                article'.view.judged = Judgement(article'.view.text, catalog)]_vars

\* An administrator's approval publishes the draft that the administrator saw,
\* whatever the workers did since.
ConsentBinds ==
    [][\A p \in prepared :
          Promoting /\ p \notin prepared' /\ p.by = "editor" => article'.view = p.consent]_vars

\* Why a candidate may wait for a person: nothing is under way, and it is up for
\* review, or its last word is a failure, a refusal or a job that came too late.
NeedsOperator ==
    /\ \A s \in Slots : Selected(s) => ~Busy(s)
    /\ \/ refresh.status = "review"
       \/ Paywalled
       \/ \E s \in Slots \ {"analysis"} :
             Selected(s) /\ (jobs[s].status = "failed" \/ jobs[s].outcome = "stopped")
       \/ /\ Selected("analysis") /\ jobs["analysis"].text = refresh.draft.text
          /\ jobs["analysis"].catalog = catalog
          /\ jobs["analysis"].status = "failed" \/ jobs["analysis"].outcome = "insufficient"
       \/ refresh.target = "analysis" /\ jobs["analysis"].status = "failed"
       \/ refresh.draft.image \in refresh.tried /\ refresh.draft.stored # refresh.draft.image

\* A candidate is promoted, retired or waits for a person: catalogue changes,
\* lost leases and lost races alone never strand it.
RefreshEnds == []<>(~Active(refresh) \/ NeedsOperator)

=============================================================================
