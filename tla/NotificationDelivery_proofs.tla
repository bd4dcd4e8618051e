--------------------- MODULE NotificationDelivery_proofs --------------------
(***************************************************************************)
(* NotificationDelivery keeps ShownOnce and SuccessIsTrue for any number   *)
(* of notices, workers and tokens, and for every MaxAge, Patience and      *)
(* Retention with MaxAge + Patience <= Retention.                          *)
(*                                                                         *)
(* The argument is about the calendar: a handler claims a row younger than *)
(* MaxAge and sends its request within Patience, and Chimely's key of the  *)
(* row is not older than the row.  So no request of the row is later than  *)
(* created + MaxAge + Patience, when a key recorded at created or later is *)
(* still kept.                                                             *)
(***************************************************************************)
EXTENDS NotificationDelivery, TLAPS

\* A row that may still be claimed has an attempt left, and no row is from the
\* future.
RowOK(n) ==
    /\ rows[n].status = "queued" => rows[n].attempts < MaxAttempts
    /\ rows[n].created <= now

\* A handler works on a recorded row, which it claimed young enough and lately;
\* what it took for an acceptance was published.
HandlerOK(h) ==
    /\ rows[h.notice].status # "unused"
    /\ h.claimed < rows[h.notice].created + MaxAge
    /\ now <= h.claimed + Patience
    /\ h.phase = "accepted" => shown[h.notice] > 0

\* A published notice has a row, and its key is not older than that row.
KeyOK(n) ==
    shown[n] > 0 => rows[n].status # "unused" /\ rows[n].created <= keyed[n]

IInv ==
    /\ TypeOK
    /\ \A n \in Notices : RowOK(n) /\ KeyOK(n)
    /\ \A h \in handlers : HandlerOK(h)
    /\ ShownOnce
    /\ SuccessIsTrue

\* The policy's retry (notification_delivery.py) returns a row, keeps its age and
\* never leaves a row with no attempt left in the queue.
LEMMA RetryKeeps ==
    ASSUME TypeOK, NEW n \in Notices, rows[n].status = "running"
    PROVE  /\ Retry(rows[n]) \in Row
           /\ Retry(rows[n]).status \in {"queued", "failed"}
           /\ Retry(rows[n]).created = rows[n].created
           /\ Retry(rows[n]).status = "queued" => Retry(rows[n]).attempts < MaxAttempts
<1> DEFINE released == [ClearLease(rows[n]) EXCEPT !.dispatched = "never"]
<1>1. rows[n] \in Row /\ rows[n].attempts \in Nat
  BY DeliveryAssumption DEF TypeOK, Row
<1>2. /\ released \in Row
      /\ released.created = rows[n].created /\ released.attempts = rows[n].attempts
  BY <1>1 DEF ClearLease, Row, Leases, Dispatches
<1>3. /\ [released EXCEPT !.status = "failed"] \in Row
      /\ [released EXCEPT !.status = "failed"].status = "failed"
      /\ [released EXCEPT !.status = "failed"].created = rows[n].created
  BY <1>2 DEF Row, Statuses
<1>4. /\ [released EXCEPT !.status = "queued", !.available = "later"] \in Row
      /\ [released EXCEPT !.status = "queued", !.available = "later"].status = "queued"
      /\ [released EXCEPT !.status = "queued", !.available = "later"].created = rows[n].created
      /\ [released EXCEPT !.status = "queued", !.available = "later"].attempts
            = rows[n].attempts
  BY <1>2 DEF Row, Statuses, Availability
<1>5. \/ Retry(rows[n]) = [released EXCEPT !.status = "failed"]
      \/ /\ rows[n].attempts < MaxAttempts
         /\ Retry(rows[n]) = [released EXCEPT !.status = "queued", !.available = "later"]
  <2>1. CASE rows[n].attempts >= MaxAttempts \/ Expired(rows[n])
    BY <2>1 DEF Retry
  <2>2. CASE ~(rows[n].attempts >= MaxAttempts \/ Expired(rows[n]))
    <3>1. rows[n].attempts < MaxAttempts
      BY <1>1, <2>2, DeliveryAssumption
    <3> QED
      BY <2>2, <3>1 DEF Retry
  <2> QED
    BY <2>1, <2>2
<1> HIDE DEF released
<1> QED
  BY <1>3, <1>4, <1>5

\* A step that replaces one recorded row by another recorded row of the same age
\* keeps the invariant, if the new row has an attempt left while it is queued and
\* says succeeded only for a notice that was skipped or published.
LEMMA RowStepKeeps ==
    ASSUME IInv, NEW n \in Notices, NEW row \in Row,
           rows[n].status # "unused", row.status # "unused",
           row.created = rows[n].created,
           row.status = "queued" => row.attempts < MaxAttempts,
           row.status = "succeeded" /\ ~row.skipped => shown[n] > 0,
           rows' = [rows EXCEPT ![n] = row],
           listed' \in SUBSET Notices, faults' \in 0..MaxFaults,
           handlers' \in SUBSET handlers,
           UNCHANGED <<now, enabled, shown, keyed>>
    PROVE  IInv'
<1>1. TypeOK'
  BY DEF IInv, TypeOK
<1>2. ASSUME NEW m \in Notices PROVE RowOK(m)' /\ KeyOK(m)'
  BY DEF IInv, TypeOK, RowOK, KeyOK
<1>3. ASSUME NEW h \in handlers' PROVE HandlerOK(h)'
  BY DEF IInv, TypeOK, HandlerOK, Handler
<1>4. ShownOnce' /\ SuccessIsTrue'
  BY DEF IInv, TypeOK, ShownOnce, SuccessIsTrue
<1> QED
  BY <1>1, <1>2, <1>3, <1>4 DEF IInv

\* A step that touches neither the rows, the calendar nor Chimely keeps it.
LEMMA QueueStepKeeps ==
    ASSUME IInv, enabled' \in BOOLEAN, listed' \in SUBSET Notices,
           faults' \in 0..MaxFaults, handlers' \in SUBSET handlers,
           UNCHANGED <<now, rows, shown, keyed>>
    PROVE  IInv'
  BY DEF IInv, TypeOK, RowOK, KeyOK, HandlerOK, Handler, Expired, ShownOnce, SuccessIsTrue

LEMMA OutboxKeeps ==
    ASSUME IInv, NEW n \in Notices, Outbox(n)
    PROVE  IInv'
<1>1. CASE EnqueueNotification(n)
  <2> USE <1>1, DeliveryAssumption, TokenAssumption
  <2>1. NewRow(now) \in Row
    BY DEF IInv, TypeOK, NewRow, Row, Statuses, Availability, Dispatches, Leases
  <2>2. /\ rows[n].status = "unused"
        /\ rows' = [rows EXCEPT ![n] = NewRow(now)]
        /\ UNCHANGED <<now, enabled, listed, handlers, shown, keyed, faults>>
    BY DEF EnqueueNotification
  <2>3. shown[n] = 0 /\ \A h \in handlers : h.notice # n
    BY <2>2 DEF IInv, TypeOK, KeyOK, HandlerOK
  <2>4. TypeOK'
    BY <2>1, <2>2 DEF IInv, TypeOK
  <2>5. ASSUME NEW m \in Notices PROVE RowOK(m)' /\ KeyOK(m)'
    BY <2>2, <2>3 DEF IInv, TypeOK, RowOK, KeyOK, NewRow, Days
  <2>6. ASSUME NEW h \in handlers' PROVE HandlerOK(h)'
    BY <2>2, <2>3 DEF IInv, TypeOK, HandlerOK, Handler
  <2>7. ShownOnce' /\ SuccessIsTrue'
    BY <2>2 DEF IInv, TypeOK, ShownOnce, SuccessIsTrue, NewRow
  <2> QED
    BY <2>4, <2>5, <2>6, <2>7 DEF IInv
<1>2. CASE Dispatch(n)
  <2>1. CASE UNCHANGED rows
    BY <1>2, <2>1, QueueStepKeeps, DeliveryAssumption DEF Dispatch, IInv, TypeOK
  <2>2. CASE rows' = [rows EXCEPT ![n].dispatched = "recent"] /\ UNCHANGED faults
    <3> DEFINE row == [rows[n] EXCEPT !.dispatched = "recent"]
    <3>1. rows[n] \in Row /\ rows[n].status = "queued"
      BY <1>2 DEF Dispatch, DispatchDue, IInv, TypeOK
    <3>2. /\ row \in Row /\ row.status = "queued"
          /\ row.created = rows[n].created /\ row.attempts = rows[n].attempts
      BY <3>1 DEF Row, Dispatches
    <3>3. rows[n].attempts < MaxAttempts
      BY <3>1 DEF IInv, RowOK
    <3>4. rows' = [rows EXCEPT ![n] = row]
      BY <2>2 DEF IInv, TypeOK
    <3>5. listed' \in SUBSET Notices /\ faults' \in 0..MaxFaults
      BY <1>2, <2>2 DEF Dispatch, IInv, TypeOK
    <3> HIDE DEF row
    <3> QED
      BY <1>2, <3>1, <3>2, <3>3, <3>4, <3>5, RowStepKeeps DEF Dispatch
  <2> QED
    BY <1>2, <2>1, <2>2 DEF Dispatch
<1>3. CASE RecoverNotifications(n)
  BY <1>3, RetryKeeps, RowStepKeeps DEF RecoverNotifications, IInv, TypeOK
<1>4. CASE RetryNotification(n)
  <2> DEFINE row == NewRow(rows[n].created)
  <2>1. rows[n] \in Row /\ rows[n].status = "failed"
    BY <1>4 DEF RetryNotification, IInv, TypeOK
  <2>2. /\ row \in Row /\ row.status = "queued"
        /\ row.created = rows[n].created /\ row.attempts < MaxAttempts
    BY <2>1, DeliveryAssumption, TokenAssumption
       DEF NewRow, Row, Statuses, Availability, Dispatches, Leases
  <2> HIDE DEF row
  <2>3. rows' = [rows EXCEPT ![n] = row]
    BY <1>4 DEF RetryNotification, row
  <2> QED
    BY <1>4, <2>1, <2>2, <2>3, RowStepKeeps DEF RetryNotification, IInv, TypeOK
<1> QED
  BY <1>1, <1>2, <1>3, <1>4 DEF Outbox

LEMMA ClaimKeeps ==
    ASSUME IInv, NEW n \in Notices, Claim(n)
    PROVE  IInv'
<1> DEFINE t == CHOOSE k \in FreshTokens : TRUE
<1>0. /\ rows[n] \in Row /\ listed' \in SUBSET Notices /\ faults' \in 0..MaxFaults
      /\ UNCHANGED <<now, enabled, shown, keyed, faults>>
  BY DEF Claim, IInv, TypeOK
<1>1. CASE UNCHANGED <<rows, handlers>>
  BY <1>0, <1>1, QueueStepKeeps DEF IInv, TypeOK
<1>2. CASE /\ rows[n].status = "queued" /\ rows' = [rows EXCEPT ![n].status = "failed"]
           /\ UNCHANGED handlers
  <2> DEFINE row == [rows[n] EXCEPT !.status = "failed"]
  <2>1. row \in Row /\ row.status = "failed" /\ row.created = rows[n].created
    BY <1>0 DEF Row, Statuses
  <2>2. rows' = [rows EXCEPT ![n] = row]
    BY <1>2
  <2> HIDE DEF row
  <2> QED
    BY <1>0, <1>2, <2>1, <2>2, RowStepKeeps
<1>3. CASE /\ rows[n].status = "queued"
           /\ rows' = [rows EXCEPT ![n] = [@ EXCEPT !.status = "succeeded", !.skipped = TRUE]]
           /\ UNCHANGED handlers
  <2> DEFINE row == [rows[n] EXCEPT !.status = "succeeded", !.skipped = TRUE]
  <2>1. row \in Row /\ row.status = "succeeded" /\ row.skipped /\ row.created = rows[n].created
    BY <1>0 DEF Row, Statuses
  <2>2. rows' = [rows EXCEPT ![n] = row]
    BY <1>3
  <2> HIDE DEF row
  <2> QED
    BY <1>0, <1>3, <2>1, <2>2, RowStepKeeps
<1>4. CASE /\ rows[n].status = "queued" /\ ~Expired(rows[n])
           /\ FreshTokens # {}
           /\ rows' = [rows EXCEPT ![n] = StartJob(rows[n], t)]
           /\ handlers' = handlers \cup
                 {[notice |-> n, token |-> t, claimed |-> now, phase |-> "posting"]}
  <2> DEFINE h0 == [notice |-> n, token |-> t, claimed |-> now, phase |-> "posting"]
             row == StartJob(rows[n], t)
  <2>1. t \in Tokens
    BY <1>4 DEF FreshTokens
  <2>2. h0 \in Handler /\ h0.notice = n /\ h0.claimed = now /\ h0.phase = "posting"
    BY <2>1 DEF Handler, IInv, TypeOK
  <2>3. rows[n].attempts < MaxAttempts /\ rows[n].created <= now
    BY <1>4 DEF IInv, RowOK
  <2>4. row \in Row /\ row.status = "running" /\ row.created = rows[n].created
    <3>1. rows[n].attempts + 1 \in 0..MaxAttempts
      BY <1>0, <2>3, DeliveryAssumption DEF Row
    <3>2. row = [rows[n] EXCEPT !.status = "running", !.attempts = rows[n].attempts + 1,
                                !.token = t, !.lease = "live"]
      BY <1>0 DEF StartJob, Row
    <3> HIDE DEF row, t
    <3> QED
      BY <1>0, <2>1, <3>1, <3>2 DEF Row, Statuses, Leases
  <2>5. rows' = [rows EXCEPT ![n] = row] /\ handlers' = handlers \cup {h0}
    BY <1>4
  <2>6. now < rows[n].created + MaxAge
    BY <1>0, <1>4, DeliveryAssumption DEF Expired, IInv, TypeOK, Row, Days
  <2> HIDE DEF t, h0, row
  <2>7. TypeOK'
    BY <1>0, <2>2, <2>4, <2>5 DEF IInv, TypeOK
  <2>8. ASSUME NEW m \in Notices PROVE RowOK(m)' /\ KeyOK(m)'
    BY <1>0, <2>4, <2>5 DEF IInv, TypeOK, RowOK, KeyOK
  <2>9. ASSUME NEW h \in handlers' PROVE HandlerOK(h)'
    <3>1. CASE h = h0
      BY <1>0, <2>2, <2>4, <2>5, <2>6, <3>1, DeliveryAssumption
         DEF IInv, TypeOK, HandlerOK, Days
    <3>2. CASE h \in handlers
      BY <1>0, <2>4, <2>5, <3>2 DEF IInv, TypeOK, HandlerOK, Handler
    <3> QED
      BY <2>5, <3>1, <3>2
  <2>10. ShownOnce' /\ SuccessIsTrue'
    BY <1>0, <2>4, <2>5 DEF IInv, TypeOK, ShownOnce, SuccessIsTrue
  <2> QED
    BY <2>7, <2>8, <2>9, <2>10 DEF IInv
<1> QED
  BY <1>1, <1>2, <1>3, <1>4 DEF Claim

LEMMA HandlerStepKeeps ==
    ASSUME IInv, NEW h \in handlers,
           PostReceived(h) \/ PostRefused(h) \/ Settle(h) \/ Die(h)
    PROVE  IInv'
<1> DEFINE n == h.notice
<1>0. n \in Notices /\ h \in Handler /\ rows[n] \in Row /\ HandlerOK(h)
  BY DEF IInv, TypeOK, Handler
<1>1. CASE PostReceived(h)
  <2> DEFINE known == shown[n] > 0 /\ now - keyed[n] < Retention
  <2>1. PICK phase \in {"accepted", "erred"} :
            handlers' = (handlers \ {h}) \cup {[h EXCEPT !.phase = phase]}
    BY <1>1 DEF PostReceived, Reach
  <2>2. /\ shown' = IF known THEN shown ELSE [shown EXCEPT ![n] = @ + 1]
        /\ keyed' = IF known THEN keyed ELSE [keyed EXCEPT ![n] = now]
        /\ UNCHANGED <<now, enabled, rows, listed, faults>>
    BY <1>1 DEF PostReceived
  <2>3. shown[n] > 0 => known
    BY <1>0, DeliveryAssumption DEF IInv, TypeOK, KeyOK, HandlerOK, Handler, Row, Days
  <2>4. /\ shown' \in [Notices -> Nat] /\ keyed' \in [Notices -> Days]
        /\ shown'[n] = 1 /\ rows[n].created <= keyed'[n]
        /\ \A m \in Notices \ {n} : shown'[m] = shown[m] /\ keyed'[m] = keyed[m]
    BY <1>0, <2>2, <2>3 DEF IInv, TypeOK, RowOK, KeyOK, ShownOnce, Days, Row
  <2>5. [h EXCEPT !.phase = phase] \in Handler
    BY <1>0 DEF Handler
  <2> HIDE DEF known
  <2>6. TypeOK'
    BY <2>1, <2>2, <2>4, <2>5 DEF IInv, TypeOK
  <2>7. ASSUME NEW m \in Notices PROVE RowOK(m)' /\ KeyOK(m)'
    BY <1>0, <2>2, <2>4 DEF IInv, TypeOK, RowOK, KeyOK, HandlerOK
  <2>8. ASSUME NEW k \in handlers' PROVE HandlerOK(k)'
    <3>1. CASE k \in handlers
      BY <1>0, <2>2, <2>4, <3>1 DEF IInv, TypeOK, HandlerOK, Handler
    <3>2. CASE k = [h EXCEPT !.phase = phase]
      <4>1. k.notice = n /\ k.claimed = h.claimed
        BY <1>0, <3>2 DEF Handler
      <4> QED
        BY <1>0, <2>2, <2>4, <4>1 DEF HandlerOK
    <3> QED
      BY <2>1, <3>1, <3>2
  <2>9. ShownOnce' /\ SuccessIsTrue'
    BY <1>0, <2>2, <2>4 DEF IInv, TypeOK, ShownOnce, SuccessIsTrue
  <2> QED
    BY <2>6, <2>7, <2>8, <2>9 DEF IInv
<1>2. CASE PostRefused(h)
  <2>1. /\ handlers' = (handlers \ {h}) \cup {[h EXCEPT !.phase = "erred"]}
        /\ UNCHANGED <<now, enabled, rows, listed, shown, keyed, faults>>
    BY <1>2 DEF PostRefused, Reach
  <2>2. /\ [h EXCEPT !.phase = "erred"] \in Handler
        /\ [h EXCEPT !.phase = "erred"].notice = n
        /\ [h EXCEPT !.phase = "erred"].claimed = h.claimed
        /\ [h EXCEPT !.phase = "erred"].phase = "erred"
    BY <1>0 DEF Handler
  <2>3. TypeOK'
    BY <2>1, <2>2 DEF IInv, TypeOK
  <2>4. ASSUME NEW m \in Notices PROVE RowOK(m)' /\ KeyOK(m)'
    BY <2>1 DEF IInv, RowOK, KeyOK
  <2>5. ASSUME NEW k \in handlers' PROVE HandlerOK(k)'
    BY <1>0, <2>1, <2>2 DEF IInv, HandlerOK
  <2>6. ShownOnce' /\ SuccessIsTrue'
    BY <2>1 DEF IInv, ShownOnce, SuccessIsTrue
  <2> QED
    BY <2>3, <2>4, <2>5, <2>6 DEF IInv
<1>3. CASE Settle(h)
  <2>0. /\ handlers' \in SUBSET handlers /\ listed' \in SUBSET Notices /\ faults' \in 0..MaxFaults
        /\ UNCHANGED <<now, enabled, shown, keyed, faults>>
    BY <1>3 DEF Settle, IInv, TypeOK
  <2>1. CASE UNCHANGED rows
    BY <2>0, <2>1, QueueStepKeeps DEF IInv, TypeOK
  <2>2. CASE OwnedBy(rows[n], h.token) /\ rows' = [rows EXCEPT ![n] = Retry(rows[n])]
    BY <1>0, <2>0, <2>2, RetryKeeps, RowStepKeeps DEF OwnedBy, IInv
  <2>3. CASE /\ OwnedBy(rows[n], h.token) /\ h.phase = "accepted"
             /\ rows' = [rows EXCEPT ![n] = Succeed(rows[n])]
    <3>1. /\ Succeed(rows[n]) \in Row /\ Succeed(rows[n]).status = "succeeded"
          /\ Succeed(rows[n]).created = rows[n].created
      BY <1>0, TokenAssumption DEF Succeed, ClearLease, Row, Statuses, Leases
    <3> QED
      BY <1>0, <2>0, <2>3, <3>1, RowStepKeeps DEF OwnedBy, HandlerOK
  <2> QED
    BY <1>3, <2>1, <2>2, <2>3 DEF Settle
<1>4. CASE Die(h)
  BY <1>4, QueueStepKeeps DEF Die, IInv, TypeOK
<1> QED
  BY <1>1, <1>2, <1>3, <1>4

LEMMA EnvironmentKeeps ==
    ASSUME IInv, Environment
    PROVE  IInv'
<1>1. CASE Configure
  BY <1>1, QueueStepKeeps DEF Configure, IInv, TypeOK
<1>2. CASE DayPasses
  <2> USE <1>2, DeliveryAssumption
  <2>1. TypeOK'
    BY DEF DayPasses, IInv, TypeOK, Days
  <2>2. ASSUME NEW m \in Notices PROVE RowOK(m)' /\ KeyOK(m)'
    BY DEF DayPasses, IInv, TypeOK, RowOK, KeyOK, Days, Row
  <2>3. ASSUME NEW h \in handlers' PROVE HandlerOK(h)'
    BY DEF DayPasses, IInv, TypeOK, HandlerOK, Handler, Days
  <2>4. ShownOnce' /\ SuccessIsTrue'
    BY DEF DayPasses, IInv, ShownOnce, SuccessIsTrue
  <2> QED
    BY <2>1, <2>2, <2>3, <2>4 DEF IInv
<1>3. ASSUME NEW n \in Notices, LoseDelivery(n) PROVE IInv'
  BY <1>3, QueueStepKeeps, DeliveryAssumption DEF LoseDelivery, IInv, TypeOK
<1>4. ASSUME NEW n \in Notices, LeaseExpires(n) \/ ComesDue(n) \/ DispatchGoesStale(n)
      PROVE  IInv'
  <2>1. rows[n] \in Row
    BY DEF IInv, TypeOK
  <2> DEFINE Same(row) ==
                /\ row \in Row /\ rows' = [rows EXCEPT ![n] = row]
                /\ row.status = rows[n].status /\ row.created = rows[n].created
                /\ row.attempts = rows[n].attempts /\ row.skipped = rows[n].skipped
  <2>2. \E row : Same(row)
    <3>1. CASE LeaseExpires(n)
      <4>1. Same([rows[n] EXCEPT !.lease = "expired"])
        BY <2>1, <3>1 DEF LeaseExpires, Row, Leases
      <4> QED BY <4>1
    <3>2. CASE ComesDue(n)
      <4>1. Same([rows[n] EXCEPT !.available = "due"])
        BY <2>1, <3>2 DEF ComesDue, Row, Availability
      <4> QED BY <4>1
    <3>3. CASE DispatchGoesStale(n)
      <4>1. Same([rows[n] EXCEPT !.dispatched = "stale"])
        BY <2>1, <3>3 DEF DispatchGoesStale, Row, Dispatches
      <4> QED BY <4>1
    <3> QED
      BY <1>4, <3>1, <3>2, <3>3
  <2>3. UNCHANGED <<now, enabled, listed, handlers, shown, keyed, faults>>
    BY <1>4 DEF LeaseExpires, ComesDue, DispatchGoesStale
  <2>4. PICK row : Same(row)
    BY <2>2
  <2>5. TypeOK'
    BY <2>3, <2>4 DEF IInv, TypeOK
  <2>6. ASSUME NEW m \in Notices PROVE RowOK(m)' /\ KeyOK(m)'
    BY <2>3, <2>4 DEF IInv, TypeOK, RowOK, KeyOK
  <2>7. ASSUME NEW h \in handlers' PROVE HandlerOK(h)'
    BY <2>3, <2>4 DEF IInv, TypeOK, HandlerOK, Handler
  <2>8. ShownOnce' /\ SuccessIsTrue'
    BY <2>3, <2>4 DEF IInv, TypeOK, ShownOnce, SuccessIsTrue
  <2> QED
    BY <2>5, <2>6, <2>7, <2>8 DEF IInv
<1> QED
  BY <1>1, <1>2, <1>3, <1>4 DEF Environment

\* The invariant holds in every state the outbox, the scheduler, the workers
\* (delivery.py), Chimely and the operators can bring about.
THEOREM Invariance == Spec => []IInv
<1>1. Init => IInv
  <2> SUFFICES ASSUME Init PROVE IInv
    OBVIOUS
  <2>1. [NewRow(0) EXCEPT !.status = "unused"] \in Row
    <3>1. NewRow(0) \in Row
      BY DeliveryAssumption
         DEF NewRow, Row, Statuses, Availability, Dispatches, Leases, Days
    <3> QED
      BY <3>1 DEF Row, Statuses
  <2>2. TypeOK
    BY <2>1, DeliveryAssumption DEF Init, TypeOK, Days
  <2>3. \A n \in Notices : RowOK(n) /\ KeyOK(n)
    BY <2>1 DEF Init, RowOK, KeyOK, NewRow
  <2> QED
    BY <2>2, <2>3 DEF Init, IInv, ShownOnce, SuccessIsTrue, NewRow
<1>2. IInv /\ [Next]_vars => IInv'
  <2> SUFFICES ASSUME IInv, [Next]_vars PROVE IInv'
    OBVIOUS
  <2>1. CASE Worker
    BY <2>1, ClaimKeeps, HandlerStepKeeps DEF Worker
  <2>2. CASE UNCHANGED vars
    BY <2>2, QueueStepKeeps DEF vars, IInv, TypeOK
  <2> QED
    BY <2>1, <2>2, OutboxKeeps, EnvironmentKeeps DEF Next
<1> QED
  BY <1>1, <1>2, PTL DEF Spec

\* No notice is published twice (delivery.py, job_retries.py).
THEOREM AtMostOnce == Spec => []ShownOnce
<1>1. IInv => ShownOnce
  BY DEF IInv
<1> QED
  BY <1>1, Invariance, PTL

\* A delivery recorded as succeeded was published or skipped (delivery.py).
THEOREM Truthful == Spec => []SuccessIsTrue
<1>1. IInv => SuccessIsTrue
  BY DEF IInv
<1> QED
  BY <1>1, Invariance, PTL

-----------------------------------------------------------------------------
(* The contract of a durable job.  A step leaves a row alone, for all that *)
(* the contract sees of it, or it makes one of the contract's steps.       *)

\* Every reachable state of the outbox, its handlers and Chimely is well typed.
THEOREM TypeCorrect == Spec => []TypeOK
<1>1. IInv => TypeOK
  BY DEF IInv
<1> QED
  BY <1>1, Invariance, PTL

\* Only a settled notice was skipped.
SkippedIsSettled == \A n \in Notices : rows[n].skipped => rows[n].status = "succeeded"

Requested(n, row) ==
    /\ rows[n].status \in {"unused", "failed"}
    /\ row.status = "queued" /\ row.attempts = 0 /\ ~row.skipped

Started(n, row) ==
    /\ rows[n].status = "queued" /\ rows[n].attempts < MaxAttempts
    /\ row.status = "running" /\ row.attempts = rows[n].attempts + 1
    /\ row.skipped = rows[n].skipped

Settled(n, row) ==
    /\ rows[n].status = "running" /\ row.status \in {"queued", "succeeded", "failed"}
    /\ row.status = "queued" => row.attempts < MaxAttempts
    /\ row.attempts = rows[n].attempts /\ row.skipped = rows[n].skipped

Withdrawn(n, row) ==
    /\ rows[n].status = "queued" /\ row.attempts = rows[n].attempts
    /\ \/ row.status = "failed" /\ row.skipped = rows[n].skipped
       \/ row.status = "succeeded" /\ row.skipped

SameForContract(n, row) ==
    /\ row.status = rows[n].status /\ row.attempts = rows[n].attempts
    /\ row.skipped = rows[n].skipped

RowStep(n, row) ==
    /\ rows' = [rows EXCEPT ![n] = row]
    /\ \/ Requested(n, row) \/ Started(n, row) \/ Settled(n, row) \/ Withdrawn(n, row)
       \/ SameForContract(n, row)

\* What the policy gives back is settled or queued with an attempt left.
LEMMA RetrySettles ==
    ASSUME IInv, NEW n \in Notices, rows[n].status = "running"
    PROVE  Settled(n, Retry(rows[n]))
<1>1. rows[n] \in Row
  BY DEF IInv, TypeOK
<1>2. /\ Retry(rows[n]).status \in {"queued", "failed"}
      /\ Retry(rows[n]).status = "queued" => Retry(rows[n]).attempts < MaxAttempts
  BY RetryKeeps DEF IInv
<1>3. Retry(rows[n]).attempts = rows[n].attempts /\ Retry(rows[n]).skipped = rows[n].skipped
  BY <1>1 DEF Retry, ClearLease, Row
<1> QED
  BY <1>2, <1>3 DEF Settled

LEMMA OutboxRowStep ==
    ASSUME IInv, NEW n \in Notices, Outbox(n)
    PROVE  UNCHANGED rows \/ \E row : RowStep(n, row)
<1>1. rows \in [Notices -> Row] /\ rows[n] \in Row
  BY DEF IInv, TypeOK
<1>2. CASE EnqueueNotification(n)
  <2>1. Requested(n, NewRow(now))
    BY <1>2 DEF EnqueueNotification, Requested, NewRow
  <2> QED
    BY <1>2, <2>1 DEF EnqueueNotification, RowStep
<1>3. CASE Dispatch(n)
  <2> DEFINE row == [rows[n] EXCEPT !.dispatched = "recent"]
  <2>1. SameForContract(n, row)
    BY <1>1 DEF SameForContract, Row
  <2>2. UNCHANGED rows \/ rows' = [rows EXCEPT ![n] = row]
    BY <1>1, <1>3 DEF Dispatch
  <2> QED
    BY <2>1, <2>2 DEF RowStep
<1>4. CASE RecoverNotifications(n)
  BY <1>4, RetrySettles DEF RecoverNotifications, RowStep
<1>5. CASE RetryNotification(n)
  <2>1. Requested(n, NewRow(rows[n].created))
    BY <1>5 DEF RetryNotification, Requested, NewRow
  <2> QED
    BY <1>5, <2>1 DEF RetryNotification, RowStep
<1> QED
  BY <1>2, <1>3, <1>4, <1>5 DEF Outbox

LEMMA ClaimRowStep ==
    ASSUME IInv, NEW n \in Notices, Claim(n)
    PROVE  UNCHANGED rows \/ \E row : RowStep(n, row)
<1> DEFINE t == CHOOSE k \in FreshTokens : TRUE
<1>1. rows \in [Notices -> Row] /\ rows[n] \in Row
  BY DEF IInv, TypeOK
<1>2. CASE rows[n].status = "queued" /\ rows' = [rows EXCEPT ![n].status = "failed"]
  <2> DEFINE row == [rows[n] EXCEPT !.status = "failed"]
  <2>1. Withdrawn(n, row) /\ rows' = [rows EXCEPT ![n] = row]
    BY <1>1, <1>2 DEF Withdrawn, Row
  <2> QED
    BY <2>1 DEF RowStep
<1>3. CASE /\ rows[n].status = "queued"
           /\ rows' = [rows EXCEPT ![n] = [@ EXCEPT !.status = "succeeded", !.skipped = TRUE]]
  <2> DEFINE row == [rows[n] EXCEPT !.status = "succeeded", !.skipped = TRUE]
  <2>1. Withdrawn(n, row) /\ rows' = [rows EXCEPT ![n] = row]
    BY <1>1, <1>3 DEF Withdrawn, Row
  <2> QED
    BY <2>1 DEF RowStep
<1>4. CASE rows[n].status = "queued" /\ rows' = [rows EXCEPT ![n] = StartJob(rows[n], t)]
  <2>1. rows[n].attempts < MaxAttempts
    BY <1>4 DEF IInv, RowOK
  <2> HIDE DEF t
  <2>2. Started(n, StartJob(rows[n], t))
    BY <1>1, <1>4, <2>1 DEF Started, StartJob, Row
  <2> QED
    BY <1>4, <2>2 DEF RowStep
<1> QED
  BY <1>2, <1>3, <1>4 DEF Claim

\* The second transaction, and the clocks.
LEMMA OtherRowStep ==
    ASSUME IInv, Environment \/ \E h \in handlers :
                    PostReceived(h) \/ PostRefused(h) \/ Settle(h) \/ Die(h)
    PROVE  UNCHANGED rows \/ \E n \in Notices : \E row : RowStep(n, row)
<1>0. rows \in [Notices -> Row] /\ handlers \subseteq Handler
  BY DEF IInv, TypeOK
<1>1. ASSUME NEW h \in handlers, Settle(h)
      PROVE  UNCHANGED rows \/ \E row : RowStep(h.notice, row)
  <2> DEFINE n == h.notice
  <2>1. n \in Notices /\ rows[n] \in Row
    BY <1>0 DEF Handler
  <2>2. CASE OwnedBy(rows[n], h.token) /\ rows' = [rows EXCEPT ![n] = Retry(rows[n])]
    BY <2>1, <2>2, RetrySettles DEF OwnedBy, RowStep
  <2>3. CASE OwnedBy(rows[n], h.token) /\ rows' = [rows EXCEPT ![n] = Succeed(rows[n])]
    <3>1. Settled(n, Succeed(rows[n]))
      BY <2>1, <2>3 DEF OwnedBy, Settled, Succeed, ClearLease, Row
    <3> QED
      BY <2>3, <3>1 DEF RowStep
  <2> QED
    BY <1>1, <2>2, <2>3 DEF Settle
<1>2. ASSUME NEW n \in Notices, LeaseExpires(n) \/ ComesDue(n) \/ DispatchGoesStale(n)
      PROVE  \E row : RowStep(n, row)
  <2>1. rows[n] \in Row
    BY <1>0
  <2>2. ASSUME NEW row, row \in {[rows[n] EXCEPT !.lease = "expired"],
                                 [rows[n] EXCEPT !.available = "due"],
                                 [rows[n] EXCEPT !.dispatched = "stale"]}
        PROVE  SameForContract(n, row)
    BY <2>1, <2>2 DEF SameForContract, Row
  <2>3. \E row \in {[rows[n] EXCEPT !.lease = "expired"], [rows[n] EXCEPT !.available = "due"],
                    [rows[n] EXCEPT !.dispatched = "stale"]} : rows' = [rows EXCEPT ![n] = row]
    BY <1>0, <1>2 DEF LeaseExpires, ComesDue, DispatchGoesStale
  <2> QED
    BY <2>2, <2>3 DEF RowStep
<1>3. ASSUME NEW h \in handlers, PostReceived(h) \/ PostRefused(h) \/ Die(h)
      PROVE  UNCHANGED rows
  BY <1>3 DEF PostReceived, PostRefused, Die
<1>4. CASE Environment
  BY <1>2, <1>4 DEF Environment, Configure, DayPasses, LoseDelivery
<1>5. ASSUME NEW h \in handlers PROVE h.notice \in Notices
  BY <1>0 DEF Handler
<1> QED
  BY <1>1, <1>3, <1>4, <1>5

LEMMA NextRowStep ==
    ASSUME IInv, Next
    PROVE  UNCHANGED rows \/ \E n \in Notices : \E row : RowStep(n, row)
  BY OutboxRowStep, ClaimRowStep, OtherRowStep DEF Next, Worker

LEMMA SkippedStep ==
    ASSUME IInv, SkippedIsSettled, NEW n \in Notices, NEW row, RowStep(n, row)
    PROVE  SkippedIsSettled'
<1>1. rows \in [Notices -> Row]
  BY DEF IInv, TypeOK
<1>2. row.skipped => row.status = "succeeded"
  BY DEF RowStep, SkippedIsSettled, Requested, Started, Settled, Withdrawn, SameForContract
<1> QED
  BY <1>1, <1>2 DEF RowStep, SkippedIsSettled

\* One row's step is a step of the contract, or none.
LEMMA ContractStep ==
    ASSUME IInv, SkippedIsSettled, NEW n \in Notices, NEW row, RowStep(n, row)
    PROVE  Contract!Next \/ UNCHANGED Contract!vars
<1> DEFINE was == IF rows[n].skipped THEN "failed" ELSE rows[n].status
           is == IF row.skipped THEN "failed" ELSE row.status
<1>1. rows \in [Notices -> Row] /\ rows[n] \in Row
  BY DEF IInv, TypeOK
<1>2. /\ [k \in Notices |-> IF rows[k].skipped THEN "failed" ELSE rows[k].status]'
            = [[k \in Notices |-> IF rows[k].skipped THEN "failed" ELSE rows[k].status]
                  EXCEPT ![n] = is]
      /\ [k \in Notices |-> rows[k].attempts]'
            = [[k \in Notices |-> rows[k].attempts] EXCEPT ![n] = row.attempts]
      /\ [k \in Notices |-> IF rows[k].status = "unused" THEN "none" ELSE k]'
            = [[k \in Notices |-> IF rows[k].status = "unused" THEN "none" ELSE k]
                  EXCEPT ![n] = IF row.status = "unused" THEN "none" ELSE n]
  BY <1>1 DEF RowStep
<1>3. CASE Requested(n, row)
  <2>1. Contract!Request(n, n)
    BY <1>1, <1>2, <1>3 DEF Requested, Contract!Request, Contract!Idle
  <2> QED
    BY <2>1 DEF Contract!Next
<1>4. CASE Started(n, row)
  <2>1. Contract!Start(n)
    BY <1>1, <1>2, <1>4 DEF Started, Contract!Start, SkippedIsSettled
  <2> QED
    BY <2>1 DEF Contract!Next
<1>5. CASE Settled(n, row) \/ Withdrawn(n, row)
  <2>1. is \in {"queued", "succeeded", "failed"}
    BY <1>5 DEF Settled, Withdrawn
  <2>2. /\ rows[n].status \in {"queued", "running"} /\ row.status # "unused"
        /\ ~rows[n].skipped /\ row.attempts = rows[n].attempts
    BY <1>5 DEF Settled, Withdrawn, SkippedIsSettled
  <2>3. /\ rows[n].status = "running" /\ is = "queued" => rows[n].attempts < MaxAttempts
        /\ rows[n].status = "queued" => is = "failed"
    BY <1>5, <2>2 DEF Settled, Withdrawn
  <2> HIDE DEF is
  <2>4. /\ UNCHANGED [k \in Notices |-> rows[k].attempts]
        /\ UNCHANGED [k \in Notices |-> IF rows[k].status = "unused" THEN "none" ELSE k]
    BY <1>2, <2>2
  <2>5. Contract!Settle(n, is)
    BY <1>2, <2>1, <2>2, <2>3, <2>4 DEF Contract!Settle
  <2> QED
    BY <2>1, <2>5 DEF Contract!Next
<1>6. CASE SameForContract(n, row)
  BY <1>1, <1>2, <1>6 DEF SameForContract, Contract!vars
<1> QED
  BY <1>3, <1>4, <1>5, <1>6 DEF RowStep

\* A notice keeps the contract of a durable job through lost replies, late
\* handlers, recoveries and the operator's retries (delivery.py,
\* notification_delivery.py, job_retries.py).
THEOREM Implements == Spec => ContractHolds
<1>1. Init => Contract!Init /\ SkippedIsSettled
  BY DEF Init, NewRow, Contract!Init, SkippedIsSettled
<1>2. ASSUME IInv, SkippedIsSettled, [Next]_vars
      PROVE  SkippedIsSettled' /\ [Contract!Next]_(Contract!vars)
  <2>1. CASE UNCHANGED rows
    BY <1>2, <2>1 DEF SkippedIsSettled, Contract!vars
  <2>2. CASE \E n \in Notices : \E row : RowStep(n, row)
    BY <1>2, <2>2, SkippedStep, ContractStep
  <2> QED
    BY <1>2, <2>1, <2>2, NextRowStep DEF vars
<1> QED
  BY <1>1, <1>2, Invariance, PTL DEF Spec, ContractHolds, Contract!Spec

-----------------------------------------------------------------------------
(* Who settles an attempt.                                                 *)

SettledOrTakenBack(n) ==
    \/ \E h \in handlers \ handlers' : SettledBy(h, n)
    \/ rows[n].lease = "expired" /\ rows'[n].status # "succeeded" /\ UNCHANGED handlers

LEMMA SettleStep ==
    ASSUME IInv, NEW h \in handlers, Settle(h),
           NEW n \in Notices, rows[n].status = "running", rows'[n].status # "running"
    PROVE  SettledOrTakenBack(n)
<1>1. rows \in [Notices -> Row] /\ h \in Handler /\ h \in handlers \ handlers'
  BY DEF Settle, IInv, TypeOK
<1>2. h.notice = n /\ OwnedBy(rows[n], h.token)
  BY <1>1 DEF Settle, Handler
<1>3. CASE h.phase = "erred" /\ rows' = [rows EXCEPT ![n] = Retry(rows[n])]
  BY <1>1, <1>2, <1>3, RetryKeeps DEF OwnedBy, SettledBy, SettledOrTakenBack, IInv
<1>4. CASE h.phase = "accepted" /\ rows' = [rows EXCEPT ![n] = Succeed(rows[n])]
  <2>1. Succeed(rows[n]).status = "succeeded"
    BY <1>1 DEF Succeed, ClearLease, Row
  <2> QED
    BY <1>1, <1>2, <1>4, <2>1 DEF OwnedBy, SettledBy, SettledOrTakenBack
<1> QED
  BY <1>2, <1>3, <1>4 DEF Settle

\* An attempt ends as its own handler was answered, or is taken back after its
\* lease: the second transaction of delivery.py compares the token under the row's
\* lock, so a late answer settles nobody else's attempt.
THEOREM OwnerAlone == Spec => OwnerSettles
<1>1. ASSUME IInv, Next, NEW n \in Notices,
             rows[n].status = "running", rows'[n].status # "running"
      PROVE  SettledOrTakenBack(n)
  <2>1. rows \in [Notices -> Row]
    BY <1>1 DEF IInv, TypeOK
  <2>2. ASSUME NEW m \in Notices, Outbox(m) PROVE SettledOrTakenBack(n)
    <3>1. CASE RecoverNotifications(m)
      <4>1. m = n /\ rows' = [rows EXCEPT ![n] = Retry(rows[n])]
        BY <1>1, <2>1, <3>1 DEF RecoverNotifications
      <4> QED
        BY <1>1, <2>1, <3>1, <4>1, RetryKeeps
           DEF RecoverNotifications, SettledOrTakenBack, IInv
    <3>2. CASE EnqueueNotification(m) \/ Dispatch(m) \/ RetryNotification(m)
      BY <1>1, <2>1, <3>2
         DEF EnqueueNotification, Dispatch, DispatchDue, RetryNotification, Row
    <3> QED
      BY <2>2, <3>1, <3>2 DEF Outbox
  <2>3. ASSUME NEW m \in Notices, Claim(m) PROVE FALSE
    BY <1>1, <2>1, <2>3 DEF Claim
  <2>4. ASSUME NEW h \in handlers,
               PostReceived(h) \/ PostRefused(h) \/ Settle(h) \/ Die(h)
        PROVE  SettledOrTakenBack(n)
    BY <1>1, <2>4, SettleStep DEF PostReceived, PostRefused, Die
  <2>5. CASE Environment
    <3>1. ASSUME NEW m \in Notices, LeaseExpires(m) \/ ComesDue(m) \/ DispatchGoesStale(m)
          PROVE  rows'[n].status = rows[n].status
      BY <2>1, <3>1 DEF LeaseExpires, ComesDue, DispatchGoesStale, Row
    <3> QED
      BY <1>1, <2>5, <3>1 DEF Environment, Configure, DayPasses, LoseDelivery
  <2> QED
    BY <1>1, <2>2, <2>3, <2>4, <2>5 DEF Next, Worker
<1>2. IInv /\ [Next]_vars =>
        [\A n \in Notices :
            rows[n].status = "running" /\ rows'[n].status # "running" =>
                \/ \E h \in handlers \ handlers' : SettledBy(h, n)
                \/ /\ rows[n].lease = "expired"
                   /\ rows'[n].status # "succeeded"
                   /\ UNCHANGED handlers]_vars
  BY <1>1 DEF SettledOrTakenBack
<1> QED
  BY <1>2, Invariance, PTL DEF Spec, OwnerSettles

=============================================================================
