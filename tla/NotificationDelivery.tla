------------------------ MODULE NotificationDelivery ------------------------
(***************************************************************************)
(* The transactional outbox of notifications and its delivery over HTTP to *)
(* Chimely, which keeps the idempotency key of a row for Retention days.   *)
(*                                                                         *)
(* The calendar matters here, so time is explicit: `now' counts days, and  *)
(* RQ's job_timeout keeps a handler from living longer than Patience.      *)
(* Leases and retry delays are far shorter than a day and pass at any      *)
(* moment.  The broker is abstracted to what IngestionOutbox shows of it:  *)
(* it may lose, delay and repeat a delivery.                               *)
(***************************************************************************)
EXTENDS JobLifecycle, FiniteSets

CONSTANTS
    Notices,        \* (audience, subscriber, event key): one dedup_key each
    FeedNotices,    \* those of category feed.topic.new
    MaxAttempts,    \* DeliveryPolicy.max_attempts
    MaxAge,         \* DeliveryPolicy.max_age
    Patience,       \* a handler's longest life
    Retention,      \* Chimely's idempotency retention
    Horizon,        \* bound: the last day
    MaxWorkers,     \* handlers that run at the same time
    MaxFaults       \* bound: lost deliveries and rolled-back publications

ASSUME DeliveryAssumption ==
    /\ FeedNotices \subseteq Notices
    /\ MaxAttempts \in Nat \ {0}
    /\ MaxAge \in Nat
    /\ Patience \in Nat
    /\ Retention \in Nat
    /\ MaxAge + Patience <= Retention
    /\ Horizon \in Nat
    /\ MaxFaults \in Nat

VARIABLES
    now,
    enabled,    \* settings.notifications_enabled
    rows,       \* the notification_deliveries
    listed,     \* notices with a delivery in the RQ queue
    handlers,   \* workers between their two transactions
    shown,      \* how often Chimely has published the notice
    keyed,      \* day on which Chimely recorded the notice's key
    faults

vars == <<now, enabled, rows, listed, handlers, shown, keyed, faults>>

Days == 0..Horizon

Row ==
    [status : Statuses, attempts : 0..MaxAttempts, available : Availability,
     dispatched : Dispatches, lease : Leases, token : Tokens \cup {NoToken},
     created : Days,        \* created_at
     skipped : BOOLEAN]     \* settled as no longer eligible

Handler ==
    [notice : Notices, token : Tokens, claimed : Days,
     phase : {"posting", "accepted", "erred"}]

TypeOK ==
    /\ now \in Days
    /\ enabled \in BOOLEAN
    /\ rows \in [Notices -> Row]
    /\ listed \in SUBSET Notices
    /\ handlers \in SUBSET Handler
    /\ shown \in [Notices -> Nat]
    /\ keyed \in [Notices -> Days]
    /\ faults \in 0..MaxFaults

-----------------------------------------------------------------------------
FreshTokens ==
    {t \in Tokens :
        /\ \A n \in Notices : rows[n].token # t
        /\ \A h \in handlers : h.token # t}

NewRow(day) ==
    [status |-> "queued", attempts |-> 0, available |-> "due", dispatched |-> "never",
     lease |-> "none", token |-> NoToken, created |-> day, skipped |-> FALSE]

\* DeliveryPolicy.expired.
Expired(row) == now - row.created >= MaxAge

\* Mutant: an off-by-one in the retry budget.
RetryOnceMore(row) ==
    LET released == [ClearLease(row) EXCEPT !.dispatched = "never"]
    IN  IF row.attempts > MaxAttempts \/ Expired(row)
        THEN [released EXCEPT !.status = "failed"]
        ELSE [released EXCEPT !.status = "queued", !.available = "later"]

\* DeliveryPolicy.retry.
Retry(row) ==
    LET released == [ClearLease(row) EXCEPT !.dispatched = "never"]
    IN  IF row.attempts >= MaxAttempts \/ Expired(row)
        THEN [released EXCEPT !.status = "failed"]
        ELSE [released EXCEPT !.status = "queued", !.available = "later"]

-----------------------------------------------------------------------------
(* The outbox, the scheduler and the operator.                             *)

\* enqueue_notification, in the transaction that makes the event true; the
\* dedup_key makes a repeated event a no-op, which needs no step.
EnqueueNotification(n) ==
    /\ enabled
    /\ rows[n].status = "unused"
    /\ rows' = [rows EXCEPT ![n] = NewRow(now)]
    /\ UNCHANGED <<now, enabled, listed, handlers, shown, keyed, faults>>

\* dispatch_jobs(kind="notifications"): enqueue, then commit the stamp or lose it.
Dispatch(n) ==
    /\ enabled
    /\ DispatchDue(rows[n])
    /\ listed' = listed \cup {n}
    /\ \/ rows' = [rows EXCEPT ![n].dispatched = "recent"] /\ UNCHANGED faults
       \/ faults < MaxFaults /\ faults' = faults + 1 /\ UNCHANGED rows
    /\ UNCHANGED <<now, enabled, handlers, shown, keyed>>

\* Mutant: an exhausted row is left as it is.
RecoverUnlessExhausted(n) ==
    /\ enabled
    /\ rows[n].status = "running" /\ rows[n].lease = "expired"
    /\ rows[n].attempts < MaxAttempts
    /\ rows' = [rows EXCEPT ![n] = Retry(rows[n])]
    /\ UNCHANGED <<now, enabled, listed, handlers, shown, keyed, faults>>

RecoverNotifications(n) ==
    /\ enabled
    /\ rows[n].status = "running"
    /\ rows[n].lease = "expired"
    /\ rows' = [rows EXCEPT ![n] = Retry(rows[n])]
    /\ UNCHANGED <<now, enabled, listed, handlers, shown, keyed, faults>>

\* Mutant: the operator's retry makes the row young again.
RetryAsNew(n) ==
    /\ rows[n].status = "failed"
    /\ rows' = [rows EXCEPT ![n] = NewRow(now)]
    /\ UNCHANGED <<now, enabled, listed, handlers, shown, keyed, faults>>

\* The operator's retry keeps the row, hence its key and its age.
RetryNotification(n) ==
    /\ rows[n].status = "failed"
    /\ ~Expired(rows[n])
    /\ rows' = [rows EXCEPT ![n] = NewRow(rows[n].created)]
    /\ UNCHANGED <<now, enabled, listed, handlers, shown, keyed, faults>>

\* The integration is switched off or on, with a restart of every process.
Configure ==
    /\ enabled' = ~enabled
    /\ UNCHANGED <<now, rows, listed, handlers, shown, keyed, faults>>

-----------------------------------------------------------------------------
(* The worker: _deliver, and Chimely's side of its request.                *)

\* The first transaction.  A row that cannot be claimed, a disabled integration,
\* an expired row and an ineligible recipient all end the handler.
Claim(n) ==
    LET t == CHOOSE k \in FreshTokens : TRUE
        claimable == enabled /\ rows[n].status = "queued" /\ rows[n].available = "due"
    IN  /\ n \in listed
        /\ Cardinality(handlers) < MaxWorkers
        /\ listed' \in {listed, listed \ {n}}
        /\ \/ ~claimable /\ UNCHANGED <<rows, handlers>>
           \/ /\ claimable /\ Expired(rows[n])
              /\ rows' = [rows EXCEPT ![n].status = "failed"]
              /\ UNCHANGED handlers
           \/ /\ claimable /\ ~Expired(rows[n]) /\ n \in FeedNotices
              /\ rows' = [rows EXCEPT ![n] = [@ EXCEPT !.status = "succeeded", !.skipped = TRUE]]
              /\ UNCHANGED handlers
           \/ /\ claimable /\ ~Expired(rows[n])
              /\ FreshTokens # {}
              /\ rows' = [rows EXCEPT ![n] = StartJob(rows[n], t)]
              /\ handlers' = handlers \cup
                    {[notice |-> n, token |-> t, claimed |-> now, phase |-> "posting"]}
        /\ UNCHANGED <<now, enabled, shown, keyed, faults>>

Reach(h, phase) == handlers' = (handlers \ {h}) \cup {[h EXCEPT !.phase = phase]}

\* Chimely gets the request: a key it still keeps publishes nothing.  The reply
\* may be lost, or name an error that came after.
PostReceived(h) ==
    LET n == h.notice
        known == shown[n] > 0 /\ now - keyed[n] < Retention
    IN  /\ h \in handlers /\ h.phase = "posting"
        /\ shown' = IF known THEN shown ELSE [shown EXCEPT ![n] = @ + 1]
        /\ keyed' = IF known THEN keyed ELSE [keyed EXCEPT ![n] = now]
        /\ \E phase \in {"accepted", "erred"} : Reach(h, phase)
        /\ UNCHANGED <<now, enabled, rows, listed, faults>>

\* The request never arrives or is refused, or no destination is configured.
PostRefused(h) ==
    /\ h \in handlers /\ h.phase = "posting"
    /\ Reach(h, "erred")
    /\ UNCHANGED <<now, enabled, rows, listed, shown, keyed, faults>>

Succeed(row) == [ClearLease(row) EXCEPT !.status = "succeeded"]

\* Mutant: whatever ended the request, the attempt is taken for a success.
SettleAnyReply(h) ==
    LET n == h.notice
    IN  /\ h \in handlers /\ h.phase # "posting"
        /\ handlers' = handlers \ {h}
        /\ rows' = IF OwnedBy(rows[n], h.token)
                   THEN [rows EXCEPT ![n] = Succeed(rows[n])] ELSE rows
        /\ UNCHANGED <<now, enabled, listed, shown, keyed, faults>>

\* The second transaction.
Settle(h) ==
    LET n == h.notice
    IN  /\ h \in handlers /\ h.phase # "posting"
        /\ handlers' = handlers \ {h}
        /\ \/ ~OwnedBy(rows[n], h.token) /\ UNCHANGED rows
           \/ /\ OwnedBy(rows[n], h.token) /\ h.phase = "erred"
              /\ rows' = [rows EXCEPT ![n] = Retry(rows[n])]
           \/ /\ OwnedBy(rows[n], h.token) /\ h.phase = "accepted"
              /\ rows' = [rows EXCEPT ![n] = Succeed(rows[n])]
        /\ UNCHANGED <<now, enabled, listed, shown, keyed, faults>>

\* The worker dies, is killed at its job_timeout, or its handler raises.
Die(h) ==
    /\ h \in handlers
    /\ handlers' = handlers \ {h}
    /\ UNCHANGED <<now, enabled, rows, listed, shown, keyed, faults>>

-----------------------------------------------------------------------------
(* The broker and the clocks.                                              *)

LoseDelivery(n) ==
    /\ n \in listed
    /\ faults < MaxFaults
    /\ faults' = faults + 1
    /\ listed' = listed \ {n}
    /\ UNCHANGED <<now, enabled, rows, handlers, shown, keyed>>

LeaseExpires(n) ==
    /\ rows[n].lease = "live"
    /\ rows' = [rows EXCEPT ![n].lease = "expired"]
    /\ UNCHANGED <<now, enabled, listed, handlers, shown, keyed, faults>>

ComesDue(n) ==
    /\ rows[n].status = "queued" /\ rows[n].available = "later"
    /\ rows' = [rows EXCEPT ![n].available = "due"]
    /\ UNCHANGED <<now, enabled, listed, handlers, shown, keyed, faults>>

DispatchGoesStale(n) ==
    /\ rows[n].status = "queued" /\ rows[n].dispatched = "recent"
    /\ rows' = [rows EXCEPT ![n].dispatched = "stale"]
    /\ UNCHANGED <<now, enabled, listed, handlers, shown, keyed, faults>>

\* A day ends, unless a handler would outlive its timeout.
DayPasses ==
    /\ now < Horizon
    /\ \A h \in handlers : now < h.claimed + Patience
    /\ now' = now + 1
    /\ UNCHANGED <<enabled, rows, listed, handlers, shown, keyed, faults>>

-----------------------------------------------------------------------------
Init ==
    /\ now = 0
    /\ enabled \in BOOLEAN
    /\ rows = [n \in Notices |-> [NewRow(0) EXCEPT !.status = "unused"]]
    /\ listed = {}
    /\ handlers = {}
    /\ shown = [n \in Notices |-> 0]
    /\ keyed = [n \in Notices |-> 0]
    /\ faults = 0

Outbox(n) ==
    \/ EnqueueNotification(n) \/ Dispatch(n) \/ RecoverNotifications(n)
    \/ RetryNotification(n)

Worker ==
    \/ \E n \in Notices : Claim(n)
    \/ \E h \in handlers : PostReceived(h) \/ PostRefused(h) \/ Settle(h) \/ Die(h)

Environment ==
    \/ Configure \/ DayPasses
    \/ \E n \in Notices :
        LoseDelivery(n) \/ LeaseExpires(n) \/ ComesDue(n) \/ DispatchGoesStale(n)

Next == Worker \/ Environment \/ \E n \in Notices : Outbox(n)

Spec == Init /\ [][Next]_vars

\* The scheduler ticks, clocks run, a listed delivery is popped once a worker is
\* free again and again (strong: RQ's list is first-in first-out), a handler ends
\* one way or another.  Nothing is assumed of operators, Chimely or the calendar.
Fairness ==
    /\ \A n \in Notices :
        /\ WF_vars(Dispatch(n))
        /\ WF_vars(RecoverNotifications(n))
        /\ SF_vars(Claim(n))
        /\ WF_vars(LeaseExpires(n))
        /\ WF_vars(ComesDue(n))
        /\ WF_vars(DispatchGoesStale(n))
    /\ WF_vars(\E h \in handlers : PostReceived(h) \/ PostRefused(h) \/ Settle(h) \/ Die(h))

FairSpec == Spec /\ Fairness

-----------------------------------------------------------------------------
(* Correctness.                                                            *)

\* A notice reaches its audience at most once, although workers die between the
\* request and its commit, replies are lost, deliveries are repeated, leases
\* change hands and operators retry: every request of a row is sent while
\* Chimely still keeps the row's key ("Leave a margin below Chimely's 30-day
\* idempotency retention").
ShownOnce == \A n \in Notices : shown[n] <= 1

\* A row that says succeeded was published, or was skipped as ineligible.
SuccessIsTrue ==
    \A n \in Notices :
        rows[n].status = "succeeded" /\ ~rows[n].skipped => shown[n] > 0

\* An attempt ends as the handler that owns it was answered, or is taken back once
\* its lease has expired: a handler that answers late, when its row is queued again
\* or running under another handler, settles nothing (the second transaction of
\* _deliver compares the lease token).
SettledBy(h, n) ==
    /\ h.notice = n
    /\ h.token = rows[n].token
    /\ h.phase = "accepted" <=> rows'[n].status = "succeeded"

OwnerSettles ==
    [][\A n \in Notices :
        rows[n].status = "running" /\ rows'[n].status # "running" =>
            \/ \E h \in handlers \ handlers' : SettledBy(h, n)
            \/ /\ rows[n].lease = "expired"
               /\ rows'[n].status # "succeeded"
               /\ UNCHANGED handlers]_vars

\* Every notice is a durable job: its attempts are serialised and settled once,
\* and none exceeds the retry budget, although replies are lost, handlers outlive
\* their leases and operators retry.  A skipped notice was withdrawn.
Contract == INSTANCE JobContract WITH
    JobIds <- Notices,
    Subjects <- Notices,
    NoSubject <- "none",
    status <- [n \in Notices |-> IF rows[n].skipped THEN "failed" ELSE rows[n].status],
    attempts <- [n \in Notices |-> rows[n].attempts],
    subject <- [n \in Notices |-> IF rows[n].status = "unused" THEN "none" ELSE n]

ContractHolds == Contract!Spec

\* Once the integration stays enabled, every recorded notice is settled in the end.
EveryNoticeSettles ==
    <>[]enabled => \A n \in Notices : Active(rows[n]) ~> Terminal(rows[n])

=============================================================================
