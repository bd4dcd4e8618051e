------------------------ MODULE ResponseCache_proofs ------------------------
(***************************************************************************)
(* Machine-checked proofs about ResponseCache, for every set of requests,  *)
(* identities, generations and tokens and every number of writes.          *)
(***************************************************************************)
EXTENDS ResponseCache, TLAPS

\* Phases in which a request works with the generation of its lookup.
Looking == {"probing", "locking", "rendering", "publishing", "releasing"}

\* Only committed writes are announced or about to be.
WritesOK == announced <= committed /\ \A v \in pending : v <= committed

\* A body is a committed state of the database, and under the current generation
\* one that has seen every announced write.
StoreOK ==
    \A g \in Generations, i \in Identities :
        cached[g][i] # NoVersion =>
            /\ cached[g][i] <= committed
            /\ g = generation => cached[g][i] >= announced

\* What a request knows of its generation: every body stored under it is fresh
\* enough for the request; what it may still publish there is fresh enough for
\* every other request, and no older than what is stored while it has the lock.
RequestOK(q) ==
    /\ q.floor <= announced /\ q.floor <= q.version /\ q.version <= committed
    /\ q.phase \in Looking => q.generation \in Generations
    /\ q.generation \in Generations =>
          \A i \in Identities :
              cached[q.generation][i] # NoVersion => cached[q.generation][i] >= q.floor
    /\ q.phase = "publishing" /\ q.generation = generation => q.version >= announced
    /\ /\ q.phase = "publishing"
       /\ q.token # NoToken
       /\ lock[q.generation][q.identity] = q.token
       /\ cached[q.generation][q.identity] # NoVersion
       => cached[q.generation][q.identity] <= q.version

\* No two requests hold the same token.
TokensOK ==
    \A r, q \in Readers :
        r # q /\ reader[r].token # NoToken => reader[r].token # reader[q].token

IInv ==
    /\ TypeOK /\ WritesOK /\ StoreOK /\ TokensOK
    /\ \A r \in Readers : RequestOK(reader[r])

-----------------------------------------------------------------------------
(* Lemmas: what each kind of step keeps.                                   *)

\* A new generation is one that nothing is stored, locked or looked up under.
LEMMA FreshGeneration ==
    ASSUME FreshGenerations # {}
    PROVE  /\ NewGeneration \in Generations /\ NewGeneration # generation
           /\ \A i \in Identities : cached[NewGeneration][i] = NoVersion
           /\ \A r \in Readers : reader[r].generation # NewGeneration
BY DEF NewGeneration, FreshGenerations

\* A new token is one that no lock and no request has.
LEMMA FreshToken ==
    ASSUME FreshTokens # {}
    PROVE  /\ NewToken \in Tokens
           /\ \A g \in Generations, i \in Identities : lock[g][i] # NewToken
           /\ \A r \in Readers : reader[r].token # NewToken
BY DEF NewToken, FreshTokens

\* The request of an idle slot is well formed.
LEMMA IdleRequest ==
    ASSUME NEW i \in Identities, TypeOK, WritesOK
    PROVE  Idle(i) \in Request /\ RequestOK(Idle(i))
BY CacheAssumption DEF Idle, Request, RequestOK, TypeOK, WritesOK, Versions, Phases, Looking

\* Replacing the generation by a fresh one, or losing it, and announcing a
\* committed write at the same time keeps the invariant.
LEMMA NewGenerationKeeps ==
    ASSUME IInv,
           \/ generation' = NoGeneration
           \/ FreshGenerations # {} /\ generation' = NewGeneration,
           announced' \in Versions, announced <= announced', announced' <= committed,
           pending' \in SUBSET pending,
           UNCHANGED <<committed, cached, lock, reader>>
    PROVE  IInv'
<1>1. /\ TypeOK /\ WritesOK /\ StoreOK /\ TokensOK
      /\ \A r \in Readers : RequestOK(reader[r])
  BY DEF IInv
<1>2. generation' \in Generations \cup {NoGeneration}
  BY FreshGeneration
<1>3. TypeOK'
  BY <1>1, <1>2 DEF TypeOK
<1>4. WritesOK' /\ TokensOK'
  BY <1>1 DEF WritesOK, TokensOK
<1>5. \A i \in Identities, g \in Generations : g = generation' => cached[g][i] = NoVersion
  BY FreshGeneration, CacheAssumption
<1>6. StoreOK'
  BY <1>1, <1>5 DEF StoreOK
<1>7. ASSUME NEW r \in Readers PROVE RequestOK(reader[r])'
  <2>1. reader[r].phase = "publishing" => reader[r].generation # generation'
    BY <1>1, FreshGeneration, CacheAssumption DEF RequestOK, Looking
  <2>2. reader[r].floor \in Nat /\ announced \in Nat /\ announced' \in Nat
    BY <1>1, CacheAssumption DEF TypeOK, Request, Versions
  <2> QED
    BY <1>1, <2>1, <2>2 DEF RequestOK
<1> QED
  BY <1>3, <1>4, <1>6, <1>7 DEF IInv

\* A step of one request that leaves the store and the locks alone keeps the
\* invariant if the request's new state is well formed.
LEMMA RequestKeeps ==
    ASSUME IInv, NEW r \in Readers, NEW q \in Request,
           reader' = [reader EXCEPT ![r] = q],
           q.token = NoToken \/ q.token = reader[r].token,
           RequestOK(q),
           UNCHANGED <<committed, pending, announced, generation, cached, lock>>
    PROVE  IInv'
<1>1. /\ TypeOK /\ WritesOK /\ StoreOK /\ TokensOK
      /\ \A s \in Readers : RequestOK(reader[s])
  BY DEF IInv
<1>2. reader \in [Readers -> Request]
  BY <1>1 DEF TypeOK
<1>3. TypeOK'
  BY <1>1, <1>2 DEF TypeOK
<1>4. WritesOK' /\ StoreOK'
  BY <1>1 DEF WritesOK, StoreOK
<1>5. TokensOK'
  BY <1>1, <1>2 DEF TokensOK
<1>6. \A s \in Readers : RequestOK(reader'[s])
  BY <1>1, <1>2
<1>7. \A s \in Readers : RequestOK(reader[s])'
  BY <1>6 DEF RequestOK
<1> QED
  BY <1>3, <1>4, <1>5, <1>7 DEF IInv

\* Taking a free lock with a fresh token keeps the invariant.
LEMMA LockKeeps ==
    ASSUME IInv, NEW r \in Readers, FreshTokens # {},
           reader[r].phase = "locking",
           lock' = [lock EXCEPT ![reader[r].generation][reader[r].identity] = NewToken],
           NEW q \in {[reader[r] EXCEPT !.phase = "rendering", !.token = NewToken],
                      [reader[r] EXCEPT !.phase = "bypassing"]},
           reader' = [reader EXCEPT ![r] = q],
           UNCHANGED <<committed, pending, announced, generation, cached>>
    PROVE  IInv'
<1>1. /\ TypeOK /\ WritesOK /\ StoreOK /\ TokensOK
      /\ \A s \in Readers : RequestOK(reader[s])
  BY DEF IInv
<1>2. /\ reader \in [Readers -> Request]
      /\ lock \in [Generations -> [Identities -> Tokens \cup {NoToken}]]
  BY <1>1 DEF TypeOK
<1>3. reader[r].generation \in Generations /\ reader[r].identity \in Identities
  BY <1>1, <1>2 DEF RequestOK, Looking, Request
<1>4. /\ NewToken \in Tokens
      /\ \A s \in Readers : reader[s].token # NewToken
  BY FreshToken
<1>5. reader' \in [Readers -> Request]
  <2>1. q \in Request
    BY <1>2, <1>4 DEF Request, Phases
  <2> QED
    BY <1>2, <2>1
<1>6. TypeOK'
  BY <1>1, <1>2, <1>3, <1>4, <1>5 DEF TypeOK
<1>7. WritesOK' /\ StoreOK'
  BY <1>1 DEF WritesOK, StoreOK
<1>8. TokensOK'
  <2>1. q.token \in {NewToken, reader[r].token}
    <3>0. reader[r] \in Request
      BY <1>2
    <3>1. CASE q = [reader[r] EXCEPT !.phase = "rendering", !.token = NewToken]
      BY <3>0, <3>1 DEF Request
    <3>2. CASE q = [reader[r] EXCEPT !.phase = "bypassing"]
      BY <3>0, <3>2 DEF Request
    <3> QED
      BY <3>1, <3>2
  <2> QED
    BY <1>1, <1>2, <1>4, <2>1 DEF TokensOK
<1>9. ASSUME NEW s \in Readers PROVE RequestOK(reader[s])'
  <2>1. \A g \in Generations, i \in Identities :
            lock'[g][i] = lock[g][i] \/ lock'[g][i] = NewToken
    BY <1>2, <1>3
  <2>2. CASE s = r
    <3>1. reader[r] \in Request /\ reader'[s] = q
      BY <1>2, <2>2
    <3>2. /\ q.phase \in {"rendering", "bypassing"}
          /\ q.floor = reader[r].floor /\ q.version = reader[r].version
          /\ q.generation = reader[r].generation
      <4>1. CASE q = [reader[r] EXCEPT !.phase = "rendering", !.token = NewToken]
        BY <3>1, <4>1 DEF Request
      <4>2. CASE q = [reader[r] EXCEPT !.phase = "bypassing"]
        BY <3>1, <4>2 DEF Request
      <4> QED
        BY <4>1, <4>2
    <3>3. RequestOK(reader[r]) /\ q.phase # "publishing"
      BY <1>1, <3>2
    <3> QED
      BY <1>3, <3>1, <3>2, <3>3 DEF RequestOK
  <2>3. CASE s # r
    <3>1. reader'[s] = reader[s] /\ reader[s].token # NewToken
      BY <1>2, <1>4, <2>3
    <3>2. reader[s].identity \in Identities
      BY <1>2 DEF Request
    <3> QED
      BY <1>1, <2>1, <3>1, <3>2 DEF RequestOK, Looking
  <2> QED
    BY <2>2, <2>3
<1> QED
  BY <1>6, <1>7, <1>8, <1>9 DEF IInv

\* Removing bodies and locks keeps the invariant.
LEMMA ExpiryKeeps ==
    ASSUME IInv, TypeOK',
           \A g \in Generations, i \in Identities :
               /\ cached'[g][i] \in {cached[g][i], NoVersion}
               /\ lock'[g][i] \in {lock[g][i], NoToken},
           UNCHANGED <<committed, pending, announced, generation, reader>>
    PROVE  IInv'
<1>1. /\ TypeOK /\ WritesOK /\ StoreOK /\ TokensOK
      /\ \A s \in Readers : RequestOK(reader[s])
  BY DEF IInv
<1>2. WritesOK' /\ StoreOK' /\ TokensOK'
  BY <1>1 DEF WritesOK, StoreOK, TokensOK
<1>3. ASSUME NEW s \in Readers PROVE RequestOK(reader[s])'
  <2>1. reader[s].identity \in Identities
    BY <1>1 DEF TypeOK, Request
  <2> QED
    BY <1>1, <2>1 DEF RequestOK, Looking
<1> QED
  BY <1>2, <1>3 DEF IInv

\* A body published under the current generation by the holder of the lock is
\* fresh enough for everyone and replaces nothing newer.
LEMMA PublishKeeps ==
    ASSUME IInv, NEW r \in Readers, Publish(r)
    PROVE  /\ IInv'
           /\ \A g \in Generations, i \in Identities :
                  cached[g][i] # NoVersion /\ cached'[g][i] # NoVersion
                      => cached'[g][i] >= cached[g][i]
<1> DEFINE q == reader[r]
           z == [reader[r] EXCEPT !.phase = "releasing"]
<1>1. /\ TypeOK /\ WritesOK /\ StoreOK /\ TokensOK
      /\ \A s \in Readers : RequestOK(reader[s])
  BY DEF IInv
<1>2. /\ reader \in [Readers -> Request]
      /\ cached \in [Generations -> [Identities -> Versions \cup {NoVersion}]]
      /\ \A g \in Generations, i \in Identities : cached[g][i] # NoVersion => cached[g][i] \in Nat
  BY <1>1, CacheAssumption DEF TypeOK, Versions
<1>3. /\ q.phase = "publishing" /\ q.generation \in Generations /\ q.identity \in Identities
      /\ q.version \in Versions /\ q.version \in Nat /\ q.floor \in Nat
  BY <1>1, <1>2, CacheAssumption DEF Publish, RequestOK, Looking, Request, Versions
<1>4. reader' = [reader EXCEPT ![r] = z] /\ z \in Request
  BY <1>2 DEF Publish, Goto, Request, Phases
<1>5. RequestOK(z)
  BY <1>1, <1>2, <1>3 DEF RequestOK, Looking, Request
<1>6. CASE UNCHANGED cached
  <2>1. z.token = reader[r].token
    BY <1>2 DEF Request
  <2>2. UNCHANGED <<committed, pending, announced, generation, cached, lock>>
    BY <1>6 DEF Publish
  <2>3. IInv'
    <3> HIDE DEF z
    <3> QED
      BY <1>4, <1>5, <2>1, <2>2, RequestKeeps
  <2> QED
    BY <1>2, <1>6, <2>3
<1>7. CASE /\ q.token # NoToken
           /\ generation = q.generation
           /\ lock[q.generation][q.identity] = q.token
           /\ cached' = [cached EXCEPT ![q.generation][q.identity] = q.version]
  <2>1. \A g \in Generations, i \in Identities :
            cached'[g][i] = IF g = q.generation /\ i = q.identity
                            THEN q.version ELSE cached[g][i]
    BY <1>2, <1>3, <1>7
  <2>2. UNCHANGED <<committed, pending, announced, generation, lock>>
    BY DEF Publish
  <2>3. q.version >= announced /\ q.version <= committed
    BY <1>1, <1>3, <1>7 DEF RequestOK
  <2>4. TypeOK'
    BY <1>1, <1>2, <1>3, <1>4, <1>7, <2>2 DEF TypeOK
  <2>5. WritesOK' /\ TokensOK'
    BY <1>1, <1>2, <1>4, <2>2 DEF WritesOK, TokensOK, Request
  <2>6. StoreOK'
    BY <1>1, <2>1, <2>2, <2>3 DEF StoreOK
  <2>7. ASSUME NEW s \in Readers PROVE RequestOK(reader[s])'
    <3>1. reader[s].identity \in Identities /\ reader[s].floor \in Nat /\ announced \in Nat
      BY <1>1, <1>2, CacheAssumption DEF TypeOK, Request, Versions
    <3>2. reader[s].floor <= announced
      BY <1>1 DEF RequestOK
    <3>3. CASE s = r
      <4>1. reader'[s] = z
        BY <1>2, <1>4, <3>3
      <4> QED
        BY <1>1, <1>2, <1>3, <1>5, <2>1, <2>2, <2>3, <3>1, <3>2, <3>3, <4>1
           DEF RequestOK, Looking, Request
    <3>4. CASE s # r
      <4>1. reader'[s] = reader[s] /\ reader[s].token # q.token
        BY <1>1, <1>2, <1>4, <1>7, <3>4 DEF TokensOK
      <4> QED
        BY <1>1, <1>3, <1>7, <2>1, <2>2, <2>3, <3>1, <3>2, <4>1 DEF RequestOK, Looking
    <3> QED
      BY <3>3, <3>4
  <2>8. \A g \in Generations, i \in Identities :
            cached[g][i] # NoVersion /\ cached'[g][i] # NoVersion
                => cached'[g][i] >= cached[g][i]
    BY <1>1, <1>2, <1>3, <1>7, <2>1 DEF RequestOK
  <2> QED
    BY <2>4, <2>5, <2>6, <2>7, <2>8 DEF IInv
<1> QED
  BY <1>6, <1>7 DEF Publish

-----------------------------------------------------------------------------
(* The invariant.                                                          *)

\* Every step of a request other than its publication keeps the invariant.
LEMMA ServeKeeps ==
    ASSUME IInv, NEW r \in Readers, Serve(r)
    PROVE  IInv'
<1>1. /\ TypeOK /\ WritesOK /\ StoreOK /\ TokensOK
      /\ \A s \in Readers : RequestOK(reader[s])
  BY DEF IInv
<1>2. /\ reader \in [Readers -> Request] /\ reader[r] \in Request /\ RequestOK(reader[r])
      /\ committed \in Versions /\ announced \in Versions
      /\ committed \in Nat /\ announced \in Nat /\ announced <= committed
      /\ generation \in Generations \cup {NoGeneration}
      /\ reader[r].floor \in Nat /\ reader[r].version \in Nat /\ reader[r].identity \in Identities
  BY <1>1, CacheAssumption DEF TypeOK, WritesOK, Versions, Request
<1> USE DEF Looking
<1>3. ASSUME NEW phase \in Phases \ {"publishing", "releasing", "answered"},
             phase \in Looking => reader[r].phase \in Looking,
             Goto(r, phase),
             UNCHANGED <<committed, pending, announced, generation, cached, lock>>
      PROVE  IInv'
  <2> DEFINE q == [reader[r] EXCEPT !.phase = phase]
  <2>1. q \in Request /\ q.token = reader[r].token /\ RequestOK(q)
    BY <1>2, <1>3 DEF Request, RequestOK
  <2>2. reader' = [reader EXCEPT ![r] = q]
    BY <1>2, <1>3 DEF Goto
  <2> HIDE DEF q
  <2> QED
    BY <1>3, <2>1, <2>2, RequestKeeps
<1>4. ASSUME NEW v \in Versions, v >= reader[r].floor, v <= committed, Answered(r, v),
             UNCHANGED <<committed, pending, announced, generation, cached, lock>>
      PROVE  IInv'
  <2> DEFINE q == [reader[r] EXCEPT !.phase = "answered", !.version = v, !.late = FALSE,
                                    !.generation = NoGeneration, !.token = NoToken]
  <2>1. q \in Request /\ q.token = NoToken
    BY <1>2 DEF Request, Phases
  <2>2. RequestOK(q)
    BY <1>2, <1>4, CacheAssumption DEF Request, RequestOK
  <2>3. reader' = [reader EXCEPT ![r] = q]
    BY <1>2, <1>4 DEF Answered
  <2> HIDE DEF q
  <2> QED
    BY <1>4, <2>1, <2>2, <2>3, RequestKeeps
<1>5. ASSUME NEW i \in Identities, Begin(r, i) PROVE IInv'
  <2> DEFINE q == [Idle(i) EXCEPT !.phase = "starting", !.version = committed, !.floor = announced]
  <2>0. Idle(i) \in Request /\ Idle(i).generation = NoGeneration /\ Idle(i).token = NoToken
    BY <1>1, IdleRequest DEF Idle
  <2>1. q \in Request /\ q.token = NoToken
    BY <1>2, <2>0 DEF Request, Phases
  <2>2. RequestOK(q)
    <3>1. /\ q.phase = "starting" /\ q.generation = NoGeneration
          /\ q.version = committed /\ q.floor = announced
      BY <2>0 DEF Request
    <3> QED
      BY <1>2, <3>1, CacheAssumption DEF RequestOK
  <2>3. reader' = [reader EXCEPT ![r] = q]
    BY <1>5 DEF Begin
  <2> HIDE DEF q
  <2> QED
    BY <1>5, <2>1, <2>2, <2>3, RequestKeeps DEF Begin
<1>6. CASE ReadGeneration(r)
  <2> DEFINE phase == IF generation # NoGeneration THEN "probing"
                      ELSE IF reader[r].phase = "starting" THEN "seeding" ELSE "bypassing"
             q == [reader[r] EXCEPT !.generation = generation, !.phase = phase]
  <2>1. q \in Request /\ q.token = reader[r].token
    BY <1>2 DEF Request, Phases
  <2>2. RequestOK(q)
    <3>1. \A i \in Identities :
              generation \in Generations /\ cached[generation][i] # NoVersion
                  => cached[generation][i] >= reader[r].floor
      <4> SUFFICES ASSUME NEW i \in Identities, generation \in Generations,
                          cached[generation][i] # NoVersion
                   PROVE  cached[generation][i] >= reader[r].floor
        OBVIOUS
      <4>1. cached[generation][i] \in Nat /\ cached[generation][i] >= announced
        BY <1>1, CacheAssumption DEF StoreOK, TypeOK, Versions
      <4> QED
        BY <1>2, <4>1 DEF RequestOK
    <3> QED
      BY <1>2, <3>1 DEF Request, RequestOK
  <2>3. reader' = [reader EXCEPT ![r] = q]
    BY <1>2, <1>6 DEF ReadGeneration
  <2> HIDE DEF q
  <2> QED
    BY <1>6, <2>1, <2>2, <2>3, RequestKeeps DEF ReadGeneration
<1>7. CASE SeedGeneration(r)
  <2> DEFINE q == [reader[r] EXCEPT !.phase = "rereading"]
  <2>1. q \in Request /\ q.token = reader[r].token /\ RequestOK(q)
    BY <1>2 DEF Request, RequestOK, Phases
  <2>2. reader' = [reader EXCEPT ![r] = q]
    BY <1>2, <1>7 DEF SeedGeneration, Goto
  <2>3. CASE UNCHANGED generation
    <3> HIDE DEF q
    <3> QED
      BY <1>7, <2>1, <2>2, <2>3, RequestKeeps DEF SeedGeneration
  <2>4. CASE generation = NoGeneration /\ FreshGenerations # {} /\ generation' = NewGeneration
    <3>1. /\ NewGeneration \in Generations
          /\ \A i \in Identities : cached[NewGeneration][i] = NoVersion
          /\ \A s \in Readers : reader[s].generation # NewGeneration
      BY <2>4, FreshGeneration
    <3>2. UNCHANGED <<committed, pending, announced, cached, lock>>
      BY <1>7 DEF SeedGeneration
    <3>3. reader' \in [Readers -> Request] /\ TypeOK'
      BY <1>1, <1>2, <2>1, <2>2, <2>4, <3>1, <3>2 DEF TypeOK
    <3>4. WritesOK' /\ StoreOK'
      BY <1>1, <2>4, <3>1, <3>2 DEF WritesOK, StoreOK
    <3>5. \A s \in Readers : reader'[s].token = reader[s].token
      BY <1>2, <2>1, <2>2
    <3>6. TokensOK'
      BY <1>1, <3>5 DEF TokensOK
    <3>7. ASSUME NEW s \in Readers PROVE RequestOK(reader[s])'
      <4>1. /\ RequestOK(reader'[s])
            /\ reader'[s].generation # NewGeneration
        BY <1>1, <1>2, <2>1, <2>2, <3>1 DEF Request
      <4> QED
        BY <2>4, <3>2, <4>1 DEF RequestOK
    <3> QED
      BY <3>3, <3>4, <3>6, <3>7 DEF IInv
  <2> QED
    BY <1>7, <2>3, <2>4 DEF SeedGeneration
<1>8. CASE Probe(r)
  <2>1. reader[r].generation \in Generations
    BY <1>2, <1>8 DEF Probe, RequestOK
  <2> DEFINE body == cached[reader[r].generation][reader[r].identity]
  <2>2. CASE body # NoVersion /\ Answered(r, body)
    <3>1. body \in Versions /\ body <= committed /\ body >= reader[r].floor
      BY <1>1, <1>2, <2>1, <2>2 DEF TypeOK, StoreOK, RequestOK
    <3> HIDE DEF body
    <3> QED
      BY <1>4, <1>8, <2>2, <3>1 DEF Probe
  <2>3. CASE Goto(r, "locking")
    BY <1>3, <1>8, <2>3 DEF Probe, Phases
  <2> QED
    BY <1>8, <2>2, <2>3 DEF Probe
<1>9. CASE TakeLock(r)
  <2>1. CASE lock[reader[r].generation][reader[r].identity] = NoToken
    BY <1>9, <2>1, LockKeeps DEF TakeLock
  <2>2. CASE lock[reader[r].generation][reader[r].identity] # NoToken
    <3>1. reader[r].phase = "locking"
      BY <1>9 DEF TakeLock
    <3>2. \E phase \in {"rendering", "starting"} : Goto(r, phase)
      BY <1>9, <2>2 DEF TakeLock
    <3> QED
      BY <1>3, <1>9, <2>2, <3>1, <3>2 DEF TakeLock, Phases
  <2> QED
    BY <2>1, <2>2
<1>10. CASE LookupFails(r)
  <2>1. CASE UNCHANGED lock
    BY <1>3, <1>10, <2>1 DEF LookupFails, Phases
  <2>2. CASE /\ reader[r].phase = "locking" /\ FreshTokens # {}
             /\ lock' = [lock EXCEPT ![reader[r].generation][reader[r].identity] = NewToken]
    <3>1. reader' = [reader EXCEPT ![r] = [reader[r] EXCEPT !.phase = "bypassing"]]
      BY <1>2, <1>10 DEF LookupFails, Goto
    <3> QED
      BY <1>10, <2>2, <3>1, LockKeeps DEF LookupFails
  <2> QED
    BY <1>10, <2>1, <2>2 DEF LookupFails
<1>11. CASE Render(r)
  <2>1. CASE reader[r].phase = "rendering"
    <3> DEFINE q == [reader[r] EXCEPT !.phase = "publishing", !.version = committed]
    <3>1. q \in Request /\ q.token = reader[r].token
      BY <1>2 DEF Request, Phases
    <3>2. reader[r].generation \in Generations /\ reader[r].floor <= announced
      BY <1>2, <2>1 DEF RequestOK
    <3>3. cached[reader[r].generation][reader[r].identity] # NoVersion
              => cached[reader[r].generation][reader[r].identity] <= committed
      BY <1>1, <1>2, <3>2 DEF StoreOK
    <3>4. RequestOK(q)
      BY <1>2, <3>2, <3>3 DEF Request, RequestOK
    <3>5. reader' = [reader EXCEPT ![r] = q]
      BY <1>2, <1>11, <2>1 DEF Render
    <3> HIDE DEF q
    <3> QED
      BY <1>11, <3>1, <3>4, <3>5, RequestKeeps DEF Render
  <2>2. CASE reader[r].phase = "bypassing"
    <3>1. PICK version \in {reader[r].version, committed} : Answered(r, version)
      BY <1>11, <2>2 DEF Render
    <3>2. version \in Versions /\ version >= reader[r].floor /\ version <= committed
      BY <1>2, CacheAssumption DEF RequestOK, Request, Versions
    <3>3. UNCHANGED <<committed, pending, announced, generation, cached, lock>>
      BY <1>11 DEF Render
    <3> QED
      BY <1>4, <3>1, <3>2, <3>3
  <2> QED
    BY <1>11, <2>1, <2>2 DEF Render
<1>12. CASE Publish(r)
  BY <1>12, PublishKeeps
<1>13. CASE Release(r)
  <2> DEFINE q == [reader[r] EXCEPT !.phase = "answered", !.version = reader[r].version,
                                    !.late = FALSE, !.generation = NoGeneration,
                                    !.token = NoToken]
  <2>1. q \in Request /\ q.token = NoToken
    BY <1>2 DEF Request, Phases
  <2>2. RequestOK(q)
    <3>1. /\ q.phase = "answered" /\ q.generation = NoGeneration
          /\ q.version = reader[r].version /\ q.floor = reader[r].floor
      BY <1>2 DEF Request
    <3> QED
      BY <1>2, <3>1, CacheAssumption DEF RequestOK, Looking
  <2>3. reader' = [reader EXCEPT ![r] = q]
    BY <1>2, <1>13 DEF Release, Answered
  <2>4. UNCHANGED <<committed, pending, announced, generation, cached>>
    BY <1>13 DEF Release
  <2>5. reader[r].generation \in Generations
    BY <1>2, <1>13 DEF Release, RequestOK
  <2>6. /\ \A g \in Generations, i \in Identities : lock'[g][i] \in {lock[g][i], NoToken}
        /\ lock' \in [Generations -> [Identities -> Tokens \cup {NoToken}]]
    <3>1. lock \in [Generations -> [Identities -> Tokens \cup {NoToken}]]
      BY <1>1 DEF TypeOK
    <3>2. reader[r].identity \in Identities
      BY <1>2 DEF Request
    <3>3. CASE UNCHANGED lock
      BY <3>1, <3>3
    <3>4. CASE lock' = [lock EXCEPT ![reader[r].generation][reader[r].identity] = NoToken]
      BY <2>5, <3>1, <3>2, <3>4
    <3> QED
      BY <1>13, <3>3, <3>4 DEF Release
  <2>7. TypeOK' /\ WritesOK' /\ StoreOK'
    BY <1>1, <1>2, <2>1, <2>3, <2>4, <2>6 DEF TypeOK, WritesOK, StoreOK
  <2>8. TokensOK'
    BY <1>1, <1>2, <2>1, <2>3 DEF TokensOK
  <2>9. ASSUME NEW s \in Readers PROVE RequestOK(reader[s])'
    <3>1. RequestOK(reader'[s]) /\ reader'[s].identity \in Identities
      BY <1>1, <1>2, <2>1, <2>2, <2>3 DEF Request
    <3> QED
      BY <2>4, <2>6, <3>1 DEF RequestOK
  <2> QED
    BY <2>7, <2>8, <2>9 DEF IInv
<1>14. CASE DeadlinePasses(r)
  <2> DEFINE q == [reader[r] EXCEPT !.late = TRUE]
  <2>1. q \in Request /\ q.token = reader[r].token /\ RequestOK(q)
    BY <1>2 DEF Request, RequestOK
  <2>2. reader' = [reader EXCEPT ![r] = q]
    BY <1>2, <1>14 DEF DeadlinePasses
  <2> HIDE DEF q
  <2> QED
    BY <1>14, <2>1, <2>2, RequestKeeps DEF DeadlinePasses
<1>15. CASE End(r)
  BY <1>1, <1>2, <1>15, IdleRequest, RequestKeeps DEF End, Idle
<1> QED
  BY <1>5, <1>6, <1>7, <1>8, <1>9, <1>10, <1>11, <1>12, <1>13, <1>14, <1>15
     DEF Serve, Answer

\* The invariant holds in every reachable state.
THEOREM Invariance == Spec => []IInv
<1>1. Init => IInv
  <2> SUFFICES ASSUME Init PROVE IInv
    OBVIOUS
  <2>1. PICK i \in Identities : reader = [r \in Readers |-> Idle(i)]
    BY DEF Init
  <2>2. Idle(i) \in Request
    BY CacheAssumption DEF Idle, Request, Phases, Versions
  <2>3. TypeOK /\ WritesOK /\ StoreOK
    BY <2>1, <2>2, CacheAssumption DEF Init, TypeOK, WritesOK, StoreOK, Versions
  <2>4. TokensOK
    BY <2>1 DEF TokensOK, Idle
  <2> QED
    BY <2>1, <2>3, <2>4, IdleRequest DEF IInv
<1>2. IInv /\ [Next]_vars => IInv'
  <2> SUFFICES ASSUME IInv, [Next]_vars PROVE IInv'
    OBVIOUS
  <2>1. /\ TypeOK /\ WritesOK /\ StoreOK /\ TokensOK
        /\ \A r \in Readers : RequestOK(reader[r])
        /\ committed \in Nat /\ announced \in Nat
    BY CacheAssumption DEF IInv, TypeOK, Versions
  <2>2. CASE UNCHANGED vars
    BY <2>1, <2>2 DEF IInv, vars, TypeOK, WritesOK, StoreOK, TokensOK, RequestOK
  <2>3. CASE Commit
    <3>1. TypeOK'
      BY <2>1, <2>3, CacheAssumption DEF Commit, TypeOK, Versions
    <3>2. WritesOK' /\ TokensOK'
      BY <2>1, <2>3, CacheAssumption DEF Commit, TypeOK, Versions, WritesOK, TokensOK
    <3>3. StoreOK'
      BY <2>1, <2>3, CacheAssumption DEF Commit, TypeOK, Versions, StoreOK
    <3>4. ASSUME NEW r \in Readers PROVE RequestOK(reader[r])'
      <4>1. reader[r].version \in Nat
        BY <2>1, CacheAssumption DEF TypeOK, Request, Versions
      <4> QED
        BY <2>1, <2>3, <4>1 DEF Commit, RequestOK
    <3> QED
      BY <3>1, <3>2, <3>3, <3>4 DEF IInv
  <2>4. CASE ReplaceGeneration \/ EvictGeneration
    BY <2>1, <2>4, NewGenerationKeeps DEF ReplaceGeneration, EvictGeneration, TypeOK, WritesOK
  <2>5. ASSUME NEW v \in pending, Invalidate(v) PROVE IInv'
    <3>1. v \in Versions /\ v \in Nat /\ v <= committed
      BY <2>1, CacheAssumption DEF TypeOK, WritesOK, Versions
    <3>2. announced' \in Versions /\ announced <= announced' /\ announced' <= committed
      BY <2>1, <2>5, <3>1 DEF Invalidate, TypeOK, WritesOK
    <3>3. pending' \in SUBSET pending
      BY <2>5 DEF Invalidate
    <3> QED
      BY <2>5, <3>2, <3>3, NewGenerationKeeps DEF Invalidate
  <2>6. ASSUME NEW v \in pending, MissInvalidation(v) PROVE IInv'
    BY <2>1, <2>6
       DEF MissInvalidation, IInv, TypeOK, WritesOK, StoreOK, TokensOK, RequestOK
  <2>7. ASSUME NEW g \in Generations, NEW i \in Identities, ExpireEntry(g, i) \/ ExpireLock(g, i)
        PROVE  IInv'
    <3>1. UNCHANGED <<committed, pending, announced, generation, reader>>
      BY <2>7 DEF ExpireEntry, ExpireLock
    <3>2. /\ cached' = cached \/ cached' = [cached EXCEPT ![g][i] = NoVersion]
          /\ lock' = lock \/ lock' = [lock EXCEPT ![g][i] = NoToken]
      BY <2>7 DEF ExpireEntry, ExpireLock
    <3>3. /\ cached' \in [Generations -> [Identities -> Versions \cup {NoVersion}]]
          /\ \A h \in Generations, k \in Identities :
                cached'[h][k] \in {cached[h][k], NoVersion}
      <4>1. cached \in [Generations -> [Identities -> Versions \cup {NoVersion}]]
        BY <2>1 DEF TypeOK
      <4>2. CASE cached' = cached
        BY <4>1, <4>2
      <4>3. CASE cached' = [cached EXCEPT ![g][i] = NoVersion]
        BY <4>1, <4>3
      <4> QED
        BY <3>2, <4>2, <4>3
    <3>4. /\ lock' \in [Generations -> [Identities -> Tokens \cup {NoToken}]]
          /\ \A h \in Generations, k \in Identities : lock'[h][k] \in {lock[h][k], NoToken}
      <4>1. lock \in [Generations -> [Identities -> Tokens \cup {NoToken}]]
        BY <2>1 DEF TypeOK
      <4>2. CASE lock' = lock
        BY <4>1, <4>2
      <4>3. CASE lock' = [lock EXCEPT ![g][i] = NoToken]
        BY <4>1, <4>3
      <4> QED
        BY <3>2, <4>2, <4>3
    <3>5. TypeOK'
      BY <2>1, <3>1, <3>3, <3>4 DEF TypeOK
    <3> QED
      BY <3>1, <3>3, <3>5, <3>4, ExpiryKeeps
  <2>8. ASSUME NEW r \in Readers, Serve(r) PROVE IInv'
    BY <2>8, ServeKeeps
  <2> QED
    BY <2>2, <2>3, <2>4, <2>5, <2>6, <2>7, <2>8 DEF Next, Writer, Redis
<1> QED
  BY <1>1, <1>2, PTL DEF Spec

\* No request is answered with less than what was announced before it began,
\* for any number of requests, writers, generations and lost commands.
THEOREM AnswersAreFresh == Spec => []NoStaleAnswer
<1>1. IInv => NoStaleAnswer
  BY DEF IInv, RequestOK, NoStaleAnswer
<1> QED
  BY <1>1, Invariance, PTL

\* A stored body is never replaced by an older one.
THEOREM EntriesAdvance == Spec => EntryNeverRegresses
<1> DEFINE Advances ==
        \A g \in Generations, i \in Identities :
            cached[g][i] # NoVersion /\ cached'[g][i] # NoVersion
                => cached'[g][i] >= cached[g][i]
<1>1. IInv /\ [Next]_vars => [Advances]_vars
  <2> SUFFICES ASSUME IInv, Next PROVE Advances
    OBVIOUS
  <2>1. /\ cached \in [Generations -> [Identities -> Versions \cup {NoVersion}]]
        /\ \A g \in Generations, i \in Identities :
               cached[g][i] # NoVersion => cached[g][i] \in Nat
    BY CacheAssumption DEF IInv, TypeOK, Versions
  <2>2. CASE UNCHANGED cached
    BY <2>1, <2>2
  <2>3. ASSUME NEW r \in Readers, Publish(r) PROVE Advances
    BY <2>3, PublishKeeps
  <2>4. ASSUME NEW g \in Generations, NEW i \in Identities, ExpireEntry(g, i) PROVE Advances
    BY <2>1, <2>4 DEF ExpireEntry
  <2> QED
    BY <2>2, <2>3, <2>4
       DEF Next, Writer, Redis, Serve, Answer, Commit, Invalidate, MissInvalidation,
           ReplaceGeneration, EvictGeneration, ExpireLock, Begin, ReadGeneration,
           SeedGeneration, Probe, TakeLock, LookupFails, DeadlinePasses, Render, Release, End
<1> QED
  BY <1>1, Invariance, PTL DEF Spec, EntryNeverRegresses

=============================================================================
