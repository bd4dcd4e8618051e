---------------------------- MODULE JobContract -----------------------------
(***************************************************************************)
(* What a durable job promises whoever requested it, with no broker, no    *)
(* worker, no lease and no clock: work on one subject is serialised, an    *)
(* attempt starts only after the previous one was settled, an attempt is   *)
(* settled once, and no job starts more than MaxAttempts attempts.         *)
(*                                                                         *)
(* A settled job that nothing refers to any more may lend its identifier   *)
(* to a new request: identifiers are a bounded stand-in for UUIDs.         *)
(***************************************************************************)
EXTENDS Naturals

CONSTANTS JobIds, Subjects, NoSubject, MaxAttempts

VARIABLES status, attempts, subject

vars == <<status, attempts, subject>>

Idle(j) == status[j] \in {"unused", "succeeded", "failed"}

Init ==
    /\ status = [j \in JobIds |-> "unused"]
    /\ attempts = [j \in JobIds |-> 0]
    /\ subject = [j \in JobIds |-> NoSubject]

Request(j, s) ==
    /\ Idle(j)
    /\ \A k \in JobIds : subject[k] = s => Idle(k)
    /\ status' = [status EXCEPT ![j] = "queued"]
    /\ attempts' = [attempts EXCEPT ![j] = 0]
    /\ subject' = [subject EXCEPT ![j] = s]

Start(j) ==
    /\ status[j] = "queued"
    /\ attempts[j] < MaxAttempts
    /\ status' = [status EXCEPT ![j] = "running"]
    /\ attempts' = [attempts EXCEPT ![j] = @ + 1]
    /\ UNCHANGED subject

\* Settle the running attempt, or withdraw the job before it starts one.
Settle(j, outcome) ==
    /\ \/ status[j] = "running" /\ outcome \in {"succeeded", "failed"}
       \/ status[j] = "running" /\ outcome = "queued" /\ attempts[j] < MaxAttempts
       \/ status[j] = "queued" /\ outcome = "failed"
    /\ status' = [status EXCEPT ![j] = outcome]
    /\ UNCHANGED <<attempts, subject>>

Next ==
    \E j \in JobIds :
        \/ \E s \in Subjects : Request(j, s)
        \/ Start(j)
        \/ \E outcome \in {"queued", "succeeded", "failed"} : Settle(j, outcome)

Spec == Init /\ [][Next]_vars

=============================================================================
