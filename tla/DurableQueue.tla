---------------------------- MODULE DurableQueue ----------------------------
(***************************************************************************)
(* The life of one unique delivery in Redis, as DurableQueue               *)
(* (apps/aggregator/src/queue.py) and RQ leave it:                         *)
(*                                                                         *)
(*   "absent"    no such RQ job (never published, finished, or lost)       *)
(*   "listed"    status queued, its id in the queue's list                 *)
(*   "orphaned"  status queued, its id in neither the list nor the         *)
(*               intermediate list: no worker will ever pop it             *)
(*   "started"   popped by a worker process, which may have died since     *)
(*   "dead"      FAILED, STOPPED or CANCELED, kept for failure_ttl         *)
(*                                                                         *)
(* Handlers return nothing and result_ttl is 0, so a finished delivery is  *)
(* deleted at once.                                                        *)
(***************************************************************************)

DeliveryStates == {"absent", "listed", "orphaned", "started", "dead"}

\* Mutant: every existing delivery is returned as it is.
EnqueueIfAbsent(state) == IF state = "absent" THEN "listed" ELSE state

\* DurableQueue.enqueue with unique=True: RESTORE_QUEUED lists an orphan again,
\* a terminal delivery is deleted and published afresh, any other is kept.
EnqueueUnique(state) == IF state = "started" THEN "started" ELSE "listed"

\* RQ's maintenance of its started registry fails a delivery whose worker died.
ReapStarted(state) == IF state = "started" THEN "dead" ELSE state

=============================================================================
