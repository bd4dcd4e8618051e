--------------------------- MODULE ResponseCache ----------------------------
(***************************************************************************)
(* The disposable response cache in Redis (packages/core/src/cache.py), the *)
(* requests that read through it (CachedReadRoute, public_profile) and the *)
(* writers that replace its generation after they commit (cache_events.py). *)
(*                                                                         *)
(* One action is one Redis command, one Lua script or one database         *)
(* snapshot.  The database is the number of its last committed public      *)
(* write; a response is the number its snapshot saw.  Any command may fail *)
(* as unavailable (an error, a timeout, or the process's open breaker).    *)
(***************************************************************************)
EXTENDS Integers

CONSTANTS
    Readers,        \* requests in flight at the same time
    Identities,     \* cache identities of the public domain
    Generations,    \* bounded stand-in for the UUIDs of generations
    Tokens,         \* bounded stand-in for the UUIDs of loaders
    NoGeneration, NoToken, NoVersion,
    MaxVersion      \* bound: committed public writes

ASSUME CacheAssumption ==
    /\ NoGeneration \notin Generations
    /\ NoToken \notin Tokens
    /\ NoVersion \notin Nat
    /\ MaxVersion \in Nat

VARIABLES
    committed,  \* last committed public write
    pending,    \* committed writes whose after_commit hook has not run yet
    announced,  \* latest write whose invalidation has succeeded
    generation, \* the domain's generation key
    cached,     \* body stored for each generation and identity
    lock,       \* loader's lock for each generation and identity
    reader      \* the requests

vars == <<committed, pending, announced, generation, cached, lock, reader>>

Versions == 0..MaxVersion

Phases ==
    {"idle", "starting", "seeding", "rereading", "probing", "locking",
     "rendering", "publishing", "releasing", "bypassing", "answered"}

Request ==
    [phase      : Phases,
     identity   : Identities,
     generation : Generations \cup {NoGeneration},  \* lookup.generation
     token      : Tokens \cup {NoToken},            \* lookup.token
     version    : Versions,                         \* the response it has
     floor      : Versions,                         \* announced when it began
     late       : BOOLEAN]                          \* its deadline has passed

TypeOK ==
    /\ committed \in Versions
    /\ pending \in SUBSET Versions
    /\ announced \in Versions
    /\ generation \in Generations \cup {NoGeneration}
    /\ cached \in [Generations -> [Identities -> Versions \cup {NoVersion}]]
    /\ lock \in [Generations -> [Identities -> Tokens \cup {NoToken}]]
    /\ reader \in [Readers -> Request]

-----------------------------------------------------------------------------
FreshGenerations ==
    {g \in Generations \ {generation} :
        /\ \A i \in Identities : cached[g][i] = NoVersion /\ lock[g][i] = NoToken
        /\ \A r \in Readers : reader[r].generation # g}

FreshTokens ==
    {t \in Tokens :
        /\ \A g \in Generations, i \in Identities : lock[g][i] # t
        /\ \A r \in Readers : reader[r].token # t}

NewGeneration == CHOOSE g \in FreshGenerations : TRUE

NewToken == CHOOSE t \in FreshTokens : TRUE

Goto(r, phase) == reader' = [reader EXCEPT ![r].phase = phase]

\* The request has its response and forgets its lookup.
Answered(r, version) ==
    reader' = [reader EXCEPT ![r] =
        [@ EXCEPT !.phase = "answered", !.version = version, !.late = FALSE,
                  !.generation = NoGeneration, !.token = NoToken]]

Idle(i) ==
    [phase |-> "idle", identity |-> i, generation |-> NoGeneration, token |-> NoToken,
     version |-> 0, floor |-> 0, late |-> FALSE]

-----------------------------------------------------------------------------
(* Writers.                                                                *)

Commit ==
    /\ committed < MaxVersion
    /\ committed' = committed + 1
    /\ pending' = pending \cup {committed + 1}
    /\ UNCHANGED <<announced, generation, cached, lock, reader>>

\* The after_commit hook replaces the generation.
Invalidate(v) ==
    /\ v \in pending
    /\ FreshGenerations # {}
    /\ pending' = pending \ {v}
    /\ announced' = IF v > announced THEN v ELSE announced
    /\ generation' = NewGeneration
    /\ UNCHANGED <<committed, cached, lock, reader>>

\* The writer dies before its hook, or the hook's CacheUnavailable is suppressed.
MissInvalidation(v) ==
    /\ v \in pending
    /\ pending' = pending \ {v}
    /\ UNCHANGED <<committed, announced, generation, cached, lock, reader>>

\* An invalidation that follows no write of its own (the CLI's cache_clear), or
\* whose reply was lost.
ReplaceGeneration ==
    /\ FreshGenerations # {}
    /\ generation' = NewGeneration
    /\ UNCHANGED <<committed, pending, announced, cached, lock, reader>>

-----------------------------------------------------------------------------
(* Requests: lookup, render, publish, release.                             *)

\* public_profile reads the account, for its visibility, before the lookup.
Begin(r, i) ==
    /\ reader[r].phase = "idle"
    /\ reader' = [reader EXCEPT ![r] =
            [Idle(i) EXCEPT !.phase = "starting", !.version = committed, !.floor = announced]]
    /\ UNCHANGED <<committed, pending, announced, generation, cached, lock>>

\* Mutant: a generation evicted again is seeded again.
ReadGenerationAgain(r) ==
    /\ reader[r].phase \in {"starting", "rereading"}
    /\ reader' = [reader EXCEPT ![r] =
            [@ EXCEPT !.generation = generation,
                      !.phase = IF generation # NoGeneration THEN "probing" ELSE "seeding"]]
    /\ UNCHANGED <<committed, pending, announced, generation, cached, lock>>

\* GET of the generation key, the first or the one after SET NX.
ReadGeneration(r) ==
    /\ reader[r].phase \in {"starting", "rereading"}
    /\ reader' = [reader EXCEPT ![r] =
            [@ EXCEPT !.generation = generation,
                      !.phase = IF generation # NoGeneration THEN "probing"
                                ELSE IF reader[r].phase = "starting" THEN "seeding" ELSE "bypassing"]]
    /\ UNCHANGED <<committed, pending, announced, generation, cached, lock>>

SeedGeneration(r) ==
    /\ reader[r].phase = "seeding"
    /\ \/ generation # NoGeneration /\ UNCHANGED generation
       \/ generation = NoGeneration /\ FreshGenerations # {} /\ generation' = NewGeneration
    /\ Goto(r, "rereading")
    /\ UNCHANGED <<committed, pending, announced, cached, lock>>

\* GET of the body: a hit answers the request.
Probe(r) ==
    LET body == cached[reader[r].generation][reader[r].identity]
    IN  /\ reader[r].phase = "probing"
        /\ \/ body # NoVersion /\ Answered(r, body)
           \/ body = NoVersion /\ Goto(r, "locking")
        /\ UNCHANGED <<committed, pending, announced, generation, cached, lock>>

\* SET NX of the lock; without it the request looks up again until its deadline.
\* public_profile does not wait at all: its deadline has passed from the start.
TakeLock(r) ==
    LET g == reader[r].generation
        i == reader[r].identity
    IN  /\ reader[r].phase = "locking"
        /\ \/ /\ lock[g][i] = NoToken
              /\ FreshTokens # {}
              /\ lock' = [lock EXCEPT ![g][i] = NewToken]
              /\ reader' = [reader EXCEPT ![r] =
                    [@ EXCEPT !.phase = "rendering", !.token = NewToken]]
           \/ /\ lock[g][i] # NoToken
              /\ Goto(r, IF reader[r].late THEN "rendering" ELSE "starting")
              /\ UNCHANGED lock
        /\ UNCHANGED <<committed, pending, announced, generation, cached>>

DeadlinePasses(r) ==
    /\ reader[r].phase \in {"starting", "seeding", "rereading", "probing", "locking"}
    /\ ~reader[r].late
    /\ reader' = [reader EXCEPT ![r].late = TRUE]
    /\ UNCHANGED <<committed, pending, announced, generation, cached, lock>>

\* A lookup command raises CacheUnavailable; a SET NX may have been applied.
LookupFails(r) ==
    LET g == reader[r].generation
        i == reader[r].identity
    IN  /\ reader[r].phase \in {"starting", "seeding", "rereading", "probing", "locking"}
        /\ Goto(r, "bypassing")
        /\ \/ UNCHANGED lock
           \/ /\ reader[r].phase = "locking"
              /\ lock[g][i] = NoToken
              /\ FreshTokens # {}
              /\ lock' = [lock EXCEPT ![g][i] = NewToken]
        /\ UNCHANGED <<committed, pending, announced, generation, cached>>

\* Mutant: the response is built from what was read before the lookup.
RenderFirstRead(r) ==
    /\ \/ reader[r].phase = "rendering" /\ Goto(r, "publishing")
       \/ reader[r].phase = "bypassing" /\ Answered(r, reader[r].version)
    /\ UNCHANGED <<committed, pending, announced, generation, cached, lock>>

\* The request's own database snapshot, opened after its lookup; when the lookup
\* has failed, public_profile answers with the account it has read before.
Render(r) ==
    /\ \/ /\ reader[r].phase = "rendering"
          /\ reader' = [reader EXCEPT ![r] =
                [@ EXCEPT !.phase = "publishing", !.version = committed]]
       \/ /\ reader[r].phase = "bypassing"
          /\ \E version \in {reader[r].version, committed} : Answered(r, version)
    /\ UNCHANGED <<committed, pending, announced, generation, cached, lock>>

\* Mutant: the script compares the generation only.
PublishUnlocked(r) ==
    LET q == reader[r]
    IN  /\ q.phase = "publishing"
        /\ \/ UNCHANGED cached
           \/ /\ q.token # NoToken /\ generation = q.generation
              /\ cached' = [cached EXCEPT ![q.generation][q.identity] = q.version]
        /\ Goto(r, "releasing")
        /\ UNCHANGED <<committed, pending, announced, generation, lock>>

\* The PUBLISH script, by a loader that has a token.  The body may also be
\* uncacheable, or Redis unavailable.
Publish(r) ==
    LET q == reader[r]
    IN  /\ q.phase = "publishing"
        /\ \/ UNCHANGED cached
           \/ /\ q.token # NoToken
              /\ generation = q.generation
              /\ lock[q.generation][q.identity] = q.token
              /\ cached' = [cached EXCEPT ![q.generation][q.identity] = q.version]
        /\ Goto(r, "releasing")
        /\ UNCHANGED <<committed, pending, announced, generation, lock>>

\* The RELEASE script, owner-checked; it may fail, and leaves the lock to expire.
Release(r) ==
    LET q == reader[r]
    IN  /\ q.phase = "releasing"
        /\ \/ UNCHANGED lock
           \/ /\ q.token # NoToken
              /\ lock[q.generation][q.identity] = q.token
              /\ lock' = [lock EXCEPT ![q.generation][q.identity] = NoToken]
        /\ Answered(r, q.version)
        /\ UNCHANGED <<committed, pending, announced, generation, cached>>

\* The request is over: answered, or its process died.
End(r) ==
    /\ reader[r].phase # "idle"
    /\ reader' = [reader EXCEPT ![r] = Idle(reader[r].identity)]
    /\ UNCHANGED <<committed, pending, announced, generation, cached, lock>>

-----------------------------------------------------------------------------
(* Redis: expiry and eviction.                                             *)

\* Mutant: a body of the current generation is stored without a lifetime.
ExpireSuperseded(g, i) ==
    /\ g # generation /\ cached[g][i] # NoVersion
    /\ cached' = [cached EXCEPT ![g][i] = NoVersion]
    /\ UNCHANGED <<committed, pending, announced, generation, lock, reader>>

ExpireEntry(g, i) ==
    /\ cached[g][i] # NoVersion
    /\ cached' = [cached EXCEPT ![g][i] = NoVersion]
    /\ UNCHANGED <<committed, pending, announced, generation, lock, reader>>

ExpireLock(g, i) ==
    /\ lock[g][i] # NoToken
    /\ lock' = [lock EXCEPT ![g][i] = NoToken]
    /\ UNCHANGED <<committed, pending, announced, generation, cached, reader>>

EvictGeneration ==
    /\ generation # NoGeneration
    /\ generation' = NoGeneration
    /\ UNCHANGED <<committed, pending, announced, cached, lock, reader>>

-----------------------------------------------------------------------------
Init ==
    /\ committed = 0
    /\ pending = {}
    /\ announced = 0
    /\ generation = NoGeneration
    /\ cached = [g \in Generations |-> [i \in Identities |-> NoVersion]]
    /\ lock = [g \in Generations |-> [i \in Identities |-> NoToken]]
    /\ \E i \in Identities : reader = [r \in Readers |-> Idle(i)]

Writer == Commit \/ ReplaceGeneration \/ \E v \in pending : Invalidate(v) \/ MissInvalidation(v)

Answer(r) ==
    \/ ReadGeneration(r) \/ SeedGeneration(r) \/ Probe(r) \/ TakeLock(r)
    \/ Render(r) \/ Publish(r) \/ Release(r)

Serve(r) ==
    \/ \E i \in Identities : Begin(r, i)
    \/ Answer(r) \/ LookupFails(r) \/ DeadlinePasses(r) \/ End(r)

Redis ==
    \/ EvictGeneration
    \/ \E g \in Generations, i \in Identities : ExpireEntry(g, i) \/ ExpireLock(g, i)

Next == Writer \/ Redis \/ \E r \in Readers : Serve(r)

Spec == Init /\ [][Next]_vars

\* A live request goes on to its answer, clocks run: deadlines pass, bodies and
\* locks expire.  Nothing makes a writer's hook run or Redis stay available.
\* Fairness of a request is strong only because of the bounded identifiers: a
\* command that waits here for a free one can always be sent in the code.
Fairness ==
    /\ \A r \in Readers : SF_vars(Answer(r)) /\ WF_vars(DeadlinePasses(r))
    /\ \A g \in Generations, i \in Identities :
        WF_vars(ExpireEntry(g, i)) /\ WF_vars(ExpireLock(g, i))

FairSpec == Spec /\ Fairness

-----------------------------------------------------------------------------
(* Correctness.                                                            *)

\* No request is answered with less than every write whose invalidation had
\* succeeded before the request began, whatever loaders were still rendering
\* older snapshots or were left with an older generation ("a late user may not
\* repopulate a generation invalidated by a committed write").
NoStaleAnswer ==
    \A r \in Readers : reader[r].phase = "answered" => reader[r].version >= reader[r].floor

\* A stored body is never replaced by an older one: a loader that lost its lock
\* cannot overwrite its successor's response, even when an invalidation was missed.
EntryNeverRegresses ==
    [][\A g \in Generations, i \in Identities :
        cached[g][i] # NoVersion /\ cached'[g][i] # NoVersion
            => cached'[g][i] >= cached[g][i]]_vars

\* A request never waits for ever for another loader's lock, nor for Redis.
EveryRequestEnds ==
    \A r \in Readers :
        reader[r].phase \notin {"idle", "answered"} ~> reader[r].phase \in {"idle", "answered"}

\* A missed invalidation is repaired by the lifetime of the bodies ("TTL bounds
\* staleness"): once writing stops, what is stored is in the end what is committed.
StalenessEnds ==
    <>[](\A g \in Generations, i \in Identities : cached[g][i] \in {NoVersion, committed})

=============================================================================
