----------------------------- MODULE StoresProofs -----------------------------
(***************************************************************************)
(* Theorems about the stores, for any number of callers, workers, edits,   *)
(* libraries, releases, processes, commands and builders: what the SQL     *)
(* session store revokes, what the development server serves, and what     *)
(* commands leave installed and builds leave as output, wherever they fail *)
(* or die.                                                                 *)
(***************************************************************************)
EXTENDS MCStores, TLAPS

-----------------------------------------------------------------------------
(* The SQL session store: any lease times, and any lag of a transaction's clock. *)

USE NoOwnerAssumption, TimesAssumption

\* Before it is issued a session has no revision, no lease and no revocation;
\* once issued, its revision counts from one.
RowStarts ==
  /\ session.state = "none" => session.revision = 0 /\ session.lease = NoOwner
  /\ session.state # "none" => session.revision >= 1

\* A caller never read a revision newer than the stored one, and the token it
\* read with the stored revision is the stored token.
ReadersBehind ==
  \A c \in Callers :
    /\ caller[c].revision <= session.revision
    /\ session.state = "live" /\ caller[c].revision = session.revision
         => caller[c].gen = session.gen

\* The lease of a live session is held on the stored revision.
LeaseOnCurrent ==
  \A c \in Callers :
    session.state = "live" /\ session.lease = c
      => caller[c].revision = session.revision

\* Material is in the outbox only when its row is gone, and workers are busy
\* only with material of a row that is gone.
OutboxAfterRow ==
  /\ outbox.queued => session.state = "gone" /\ outbox.gen = session.gen
  /\ session.state # "gone" => \A w \in Workers : worker[w].at = "idle"

\* A worker whose claim still runs owns the row, until the very time it was told.
ClaimsAreOwned ==
  outbox.queued =>
    \A w \in Claiming : outbox.owner = w /\ outbox.leaseUntil = worker[w].leaseUntil

StoreInv == /\ TypeOK
            /\ RowStarts /\ ReadersBehind /\ LeaseOnCurrent
            /\ OutboxAfterRow /\ ClaimsAreOwned
-----------------------------------------------------------------------------
\* A transaction begins at a time that has come, whatever its lag, and every
\* time it writes is a time.
LEMMA BegunInPast ==
  ASSUME now \in Nat, NEW t \in Begun
  PROVE  /\ t \in Nat /\ t <= now
         /\ t + LeaseTime \in Nat /\ t + ClaimTime \in Nat /\ t + RetryDelay \in Nat
         /\ now + TokenTtl \in Nat
<1>1. t \in Nat /\ t <= now
  BY DEF Begun
<1> QED
  BY <1>1

\* The row of the session keeps its type.
LEMMA SessionType == TypeOK /\ [Next]_vars => session' \in SessionRow
<1> SUFFICES ASSUME TypeOK, [Next]_vars PROVE session' \in SessionRow
  OBVIOUS
<1>1. session \in SessionRow
  BY DEF TypeOK
<1>2. CASE Issue
  <2>1. now + TokenTtl \in Nat /\ now + SessionTtl \in Nat
    BY DEF TypeOK
  <2> QED
    BY <1>1, <1>2, <2>1 DEF Issue, SessionRow
<1>3. CASE Prune
  <2>1. [session EXCEPT !.state = "gone"] \in SessionRow
    BY <1>1 DEF SessionRow
  <2> QED
    BY <1>1, <1>3, <2>1 DEF Prune, PruneAt
<1>4. ASSUME NEW c \in Callers, Release(c)
      PROVE  session' \in SessionRow
  <2>1. [session EXCEPT !.lease = NoOwner, !.leaseUntil = 0] \in SessionRow
    BY <1>1 DEF SessionRow
  <2> QED
    BY <1>1, <1>4, <2>1 DEF Release
<1>5. ASSUME NEW c \in Callers, NEW t \in Begun, Resolve(c, t) \/ Revoke(c, t)
      PROVE  session' \in SessionRow
  BY <1>1, <1>5 DEF Resolve, Revoke, SessionRow
<1>6. ASSUME NEW c \in Callers, NEW t \in Begun, Acquire(c, t)
      PROVE  session' \in SessionRow
  <2>1. t + LeaseTime \in Nat
    BY BegunInPast DEF TypeOK
  <2> QED
    BY <1>1, <1>6, <2>1 DEF Acquire, SessionRow
<1>7. ASSUME NEW c \in Callers, NEW t \in Begun, Complete(c, t)
      PROVE  session' \in SessionRow
  <2>1. /\ now + TokenTtl \in Nat /\ caller[c].gen + 1 \in Nat
        /\ session.revision + 1 \in Nat
    BY <1>1 DEF TypeOK, CallerRow, SessionRow
  <2>2. CASE Completable(c, t)
    <3>1. session' = [session EXCEPT !.gen = caller[c].gen + 1,
                        !.revision = session.revision + 1, !.until = now + TokenTtl,
                        !.lease = NoOwner, !.leaseUntil = 0]
      BY <1>7, <2>2 DEF Complete
    <3> QED
      BY <1>1, <2>1, <3>1 DEF SessionRow
  <2>3. CASE ~Completable(c, t)
    BY <1>1, <1>7, <2>3 DEF Complete
  <2> QED
    BY <2>2, <2>3
<1>8. ASSUME UNCHANGED session
      PROVE  session' \in SessionRow
  BY <1>1, <1>8
<1> QED
  BY <1>2, <1>3, <1>4, <1>5, <1>6, <1>7, <1>8
     DEF Next, vars, Tick, Redeem, Claim, Attempt, CompleteRevocation, Retry,
         WorkerCrash

\* The row of the outbox keeps its type.
LEMMA OutboxType == TypeOK /\ [Next]_vars => outbox' \in OutboxRow
<1> SUFFICES ASSUME TypeOK, [Next]_vars PROVE outbox' \in OutboxRow
  OBVIOUS
<1>1. outbox \in OutboxRow /\ NoOutbox \in OutboxRow
  BY DEF TypeOK, NoOutbox, OutboxRow
<1>2. CASE Prune
  BY <1>1, <1>2 DEF Prune, PruneAt
<1>3. ASSUME NEW c \in Callers, NEW t \in Begun, Revoke(c, t)
      PROVE  outbox' \in OutboxRow
  <2>1. session.gen \in Nat /\ session.until \in Nat /\ t \in Nat
    BY BegunInPast DEF TypeOK, SessionRow
  <2>2. Enqueued(t) \in OutboxRow
    BY <1>1, <2>1 DEF Enqueued, OutboxRow
  <2> QED
    BY <1>1, <1>3, <2>2 DEF Revoke
<1>4. ASSUME NEW w \in Workers, NEW t \in Begun, Claim(w, t)
      PROVE  outbox' \in OutboxRow
  <2>1. t + ClaimTime \in Nat
    BY BegunInPast DEF TypeOK
  <2>2. outbox.attempts + 1 \in 0..MaxAttempts
    BY <1>1, <1>4 DEF Claim, Due, OutboxRow
  <2> QED
    BY <1>1, <1>4, <2>1, <2>2 DEF Claim, OutboxRow
<1>5. ASSUME NEW w \in Workers, CompleteRevocation(w)
      PROVE  outbox' \in OutboxRow
  BY <1>1, <1>5 DEF CompleteRevocation
<1>6. ASSUME NEW w \in Workers, NEW t \in Begun, Retry(w, t)
      PROVE  outbox' \in OutboxRow
  <2>1. Sooner(t + RetryDelay, outbox.until) \in Nat
    BY <1>1, BegunInPast DEF TypeOK, Sooner, OutboxRow
  <2> QED
    BY <1>1, <1>6, <2>1 DEF Retry, OutboxRow
<1>7. ASSUME UNCHANGED outbox
      PROVE  outbox' \in OutboxRow
  BY <1>1, <1>7
<1> QED
  BY <1>2, <1>3, <1>4, <1>5, <1>6, <1>7
     DEF Next, vars, Issue, Tick, Redeem, Release, Resolve, Acquire, Complete,
         Attempt, WorkerCrash

\* The rows, the callers and the workers keep their types.
LEMMA TypesStep == TypeOK /\ [Next]_vars => TypeOK'
<1> SUFFICES ASSUME TypeOK, [Next]_vars PROVE TypeOK'
  OBVIOUS
<1>1. now' \in {now, now + 1} /\ provider' \in {provider, provider + 1, 1}
  BY DEF Next, vars, Issue, Prune, PruneAt, Tick, Redeem, Release, Resolve,
         Acquire, Complete, Revoke, Attempt, CompleteRevocation, WorkerCrash, Claim,
         Retry
<1>2. caller' \in [Callers -> CallerRow]
  <2>1. /\ caller \in [Callers -> CallerRow]
        /\ session.gen \in Nat /\ session.revision \in Nat
    BY DEF TypeOK, SessionRow
  <2>2. \A c \in Callers, to \in CallerPlaces :
          Goto(c, to) => caller' \in [Callers -> CallerRow]
    BY <2>1 DEF Goto, CallerRow
  <2>3. ASSUME NEW c \in Callers, NEW t \in Begun, Resolve(c, t)
        PROVE  caller' \in [Callers -> CallerRow]
    BY <2>1, <2>2, <2>3 DEF Resolve, CallerRow, CallerPlaces
  <2>4. ASSUME NEW c \in Callers, NEW t \in Begun,
               \/ Acquire(c, t) \/ Complete(c, t) \/ Revoke(c, t)
               \/ Redeem(c) \/ Release(c)
        PROVE  caller' \in [Callers -> CallerRow]
    BY <2>2, <2>4 DEF Acquire, Complete, Revoke, Redeem, Release, CallerPlaces
  <2>5. ASSUME NEW c \in Callers, Redeem(c) \/ Release(c)
        PROVE  caller' \in [Callers -> CallerRow]
    BY <2>2, <2>5 DEF Redeem, Release, CallerPlaces
  <2>6. ASSUME UNCHANGED caller
        PROVE  caller' \in [Callers -> CallerRow]
    BY <2>1, <2>6
  <2> QED
    BY <2>3, <2>4, <2>5, <2>6
       DEF Next, vars, Issue, Prune, PruneAt, Tick, Claim, Attempt,
           CompleteRevocation, Retry, WorkerCrash
<1>3. worker' \in [Workers -> WorkerRow]
  <2>1. worker \in [Workers -> WorkerRow]
    BY DEF TypeOK
  <2>2. ASSUME NEW w \in Workers, Attempt(w) \/ CompleteRevocation(w) \/ WorkerCrash(w)
        PROVE  worker' \in [Workers -> WorkerRow]
    BY <2>1, <2>2 DEF Attempt, CompleteRevocation, WorkerCrash, WorkerRow
  <2>3. ASSUME NEW w \in Workers, NEW t \in Begun, Claim(w, t) \/ Retry(w, t)
        PROVE  worker' \in [Workers -> WorkerRow]
    <3>1. t + ClaimTime \in Nat
      BY BegunInPast DEF TypeOK
    <3> QED
      BY <2>1, <2>3, <3>1 DEF Claim, Retry, WorkerRow
  <2>4. ASSUME UNCHANGED worker
        PROVE  worker' \in [Workers -> WorkerRow]
    BY <2>1, <2>4
  <2> QED
    BY <2>2, <2>3, <2>4
       DEF Next, vars, Issue, Prune, PruneAt, Tick, Redeem, Release, Resolve,
           Acquire, Complete, Revoke
<1> QED
  BY <1>1, <1>2, <1>3, SessionType, OutboxType DEF TypeOK

\* A call that goes on to a place keeps what it read.
LEMMA GotoKeeps ==
  ASSUME TypeOK, NEW c \in Callers, NEW to, Goto(c, to)
  PROVE  \A d \in Callers : caller'[d].gen = caller[d].gen
                            /\ caller'[d].revision = caller[d].revision
BY DEF TypeOK, Goto, CallerRow

\* A row that goes keeps its material.
LEMMA GoneKeeps ==
  ASSUME session \in SessionRow, session' = [session EXCEPT !.state = "gone"]
  PROVE  /\ session'.revision = session.revision /\ session'.gen = session.gen
         /\ session'.state = "gone" /\ session'.lease = session.lease
BY DEF SessionRow

\* A row that at most goes keeps its material; its lease at most ends.
LEMMA ReadersUndisturbed ==
  ASSUME StoreInv,
         /\ session'.revision = session.revision /\ session'.gen = session.gen
         /\ session'.state \in {session.state, "gone"}
         /\ session.state = "none" => session'.state = "none"
         /\ session'.lease \in {session.lease, NoOwner},
         \A d \in Callers : caller'[d].gen = caller[d].gen
                            /\ caller'[d].revision = caller[d].revision
  PROVE  (RowStarts /\ ReadersBehind /\ LeaseOnCurrent)'
BY DEF StoreInv, RowStarts, ReadersBehind, LeaseOnCurrent

\* What a caller read stays behind what is stored, and a lease is on it.
LEMMA ReadersStep ==
  StoreInv /\ [Next]_vars => (RowStarts /\ ReadersBehind /\ LeaseOnCurrent)'
<1> SUFFICES ASSUME StoreInv, [Next]_vars
             PROVE  (RowStarts /\ ReadersBehind /\ LeaseOnCurrent)'
  OBVIOUS
<1>1. TypeOK /\ session \in SessionRow /\ caller \in [Callers -> CallerRow]
  BY DEF StoreInv, TypeOK
<1>2. CASE Issue
  <2>1. /\ session.state = "none" /\ caller' = caller /\ session'.lease = session.lease
        /\ session'.state = "live" /\ session'.revision = 1 /\ session'.gen = 1
    BY <1>1, <1>2 DEF Issue, SessionRow
  <2>2. \A c \in Callers : caller[c].revision \in Nat
    BY <1>1 DEF CallerRow
  <2>3. \A c \in Callers : caller[c].revision <= 0
    BY <2>1 DEF StoreInv, RowStarts, ReadersBehind
  <2> QED
    BY <2>1, <2>2, <2>3 DEF StoreInv, RowStarts, ReadersBehind, LeaseOnCurrent
<1>3. CASE Prune
  <2>1. \/ session' = session
        \/ session.state = "live" /\ session' = [session EXCEPT !.state = "gone"]
    BY <1>3 DEF Prune, PruneAt
  <2>2. /\ session'.revision = session.revision /\ session'.gen = session.gen
        /\ session'.state \in {session.state, "gone"} /\ session'.lease = session.lease
        /\ session.state = "none" => session'.state = "none"
    BY <1>1, <2>1, GoneKeeps
  <2> QED
    BY <1>3, <2>2, ReadersUndisturbed DEF Prune, PruneAt
<1>4. ASSUME NEW c \in Callers, Release(c)
      PROVE  (RowStarts /\ ReadersBehind /\ LeaseOnCurrent)'
  <2>1. session' = session \/ session' = [session EXCEPT !.lease = NoOwner,
                                                         !.leaseUntil = 0]
    BY <1>4 DEF Release
  <2>2. /\ session'.revision = session.revision /\ session'.gen = session.gen
        /\ session'.state = session.state /\ session'.lease \in {session.lease, NoOwner}
    BY <1>1, <2>1 DEF SessionRow
  <2> QED
    BY <1>1, <1>4, <2>2, GotoKeeps, ReadersUndisturbed DEF Release
<1>5. ASSUME NEW c \in Callers, NEW t \in Begun, Resolve(c, t)
      PROVE  (RowStarts /\ ReadersBehind /\ LeaseOnCurrent)'
  <2>1. CASE session.state = "live" /\ session.sessionUntil > t
    <3>1. /\ session' = session
          /\ caller' = [caller EXCEPT ![c] = [at |-> "resolved",
                          gen |-> session.gen, revision |-> session.revision]]
      BY <1>5, <2>1 DEF Resolve
    <3>2. session.revision \in Nat
      BY <1>1 DEF SessionRow
    <3>3. caller'[c].gen = session.gen /\ caller'[c].revision = session.revision
      BY <1>1, <3>1
    <3>4. \A d \in Callers \ {c} : caller'[d] = caller[d]
      BY <1>1, <3>1
    <3> QED
      BY <3>1, <3>2, <3>3, <3>4 DEF StoreInv, RowStarts, ReadersBehind, LeaseOnCurrent
  <2>2. CASE ~(session.state = "live" /\ session.sessionUntil > t)
    <3>1. /\ session' = [session EXCEPT !.state = "gone"]
          /\ session.state # "none" /\ Goto(c, "unauthorized")
      BY <1>5, <2>2 DEF Resolve
    <3>2. /\ session'.revision = session.revision /\ session'.gen = session.gen
          /\ session'.state = "gone" /\ session'.lease = session.lease
      BY <1>1, <3>1 DEF SessionRow
    <3> QED
      BY <1>1, <3>1, <3>2, GotoKeeps, ReadersUndisturbed
  <2> QED
    BY <2>1, <2>2
<1>6. ASSUME NEW c \in Callers, NEW t \in Begun, Acquire(c, t)
      PROVE  (RowStarts /\ ReadersBehind /\ LeaseOnCurrent)'
  <2>1. \A d \in Callers : caller'[d].gen = caller[d].gen
                           /\ caller'[d].revision = caller[d].revision
    BY <1>1, <1>6, GotoKeeps DEF Acquire
  <2>2. CASE Acquirable(c, t)
    <3>1. session' = [session EXCEPT !.lease = c, !.leaseUntil = t + LeaseTime]
      BY <1>6, <2>2 DEF Acquire
    <3>2. /\ session'.revision = session.revision /\ session'.gen = session.gen
          /\ session'.state = session.state /\ session'.lease = c
      BY <1>1, <3>1 DEF SessionRow
    <3> QED
      BY <2>1, <2>2, <3>2
         DEF Acquirable, StoreInv, RowStarts, ReadersBehind, LeaseOnCurrent
  <2>3. CASE ~Acquirable(c, t)
    BY <1>6, <2>1, <2>3, ReadersUndisturbed DEF Acquire
  <2> QED
    BY <2>2, <2>3
<1>7. ASSUME NEW c \in Callers, NEW t \in Begun, Complete(c, t)
      PROVE  (RowStarts /\ ReadersBehind /\ LeaseOnCurrent)'
  <2>1. \A d \in Callers : caller'[d].gen = caller[d].gen
                           /\ caller'[d].revision = caller[d].revision
    BY <1>1, <1>7, GotoKeeps DEF Complete
  <2>2. CASE Completable(c, t)
    <3>1. session' = [session EXCEPT !.gen = caller[c].gen + 1,
                        !.revision = session.revision + 1, !.until = now + TokenTtl,
                        !.lease = NoOwner, !.leaseUntil = 0]
      BY <1>7, <2>2 DEF Complete
    <3>2. /\ session'.revision = session.revision + 1 /\ session'.lease = NoOwner
          /\ session'.state = session.state
      BY <1>1, <3>1 DEF SessionRow
    <3>3. session.revision \in Nat /\ \A d \in Callers : caller[d].revision \in Nat
      BY <1>1 DEF SessionRow, CallerRow
    <3> QED
      BY <2>1, <2>2, <3>2, <3>3
         DEF Completable, StoreInv, RowStarts, ReadersBehind, LeaseOnCurrent
  <2>3. CASE ~Completable(c, t)
    BY <1>7, <2>1, <2>3, ReadersUndisturbed DEF Complete
  <2> QED
    BY <2>2, <2>3
<1>8. ASSUME NEW c \in Callers, NEW t \in Begun, Revoke(c, t)
      PROVE  (RowStarts /\ ReadersBehind /\ LeaseOnCurrent)'
  <2>1. /\ session'.revision = session.revision /\ session'.gen = session.gen
        /\ session'.state = "gone" /\ session'.lease = session.lease
        /\ session.state # "none"
    BY <1>1, <1>8 DEF Revoke, SessionRow
  <2> QED
    BY <1>1, <1>8, <2>1, GotoKeeps, ReadersUndisturbed DEF Revoke
<1>9. ASSUME NEW c \in Callers, Redeem(c)
      PROVE  (RowStarts /\ ReadersBehind /\ LeaseOnCurrent)'
  BY <1>1, <1>9, GotoKeeps, ReadersUndisturbed DEF Redeem
<1>10. ASSUME UNCHANGED <<session, caller>>
       PROVE  (RowStarts /\ ReadersBehind /\ LeaseOnCurrent)'
  BY <1>10 DEF StoreInv, RowStarts, ReadersBehind, LeaseOnCurrent
<1> QED
  BY <1>2, <1>3, <1>4, <1>5, <1>6, <1>7, <1>8, <1>9, <1>10
     DEF Next, vars, Tick, Attempt, CompleteRevocation, WorkerCrash, Claim, Retry

\* Nothing but claims and answers of workers sets the outbox or the workers.
LEMMA OutboxUndisturbed ==
  ASSUME StoreInv, outbox' = outbox, worker' = worker, now' >= now, now' \in Nat,
         /\ session'.gen = session.gen
         /\ session.state = "gone" => session'.state = "gone"
  PROVE  (OutboxAfterRow /\ ClaimsAreOwned)'
<1>1. \A w \in Workers : worker[w].leaseUntil \in Nat
  BY DEF StoreInv, TypeOK, WorkerRow
<1>2. now \in Nat
  BY DEF StoreInv, TypeOK
<1>3. Claiming' \subseteq Claiming
  BY <1>1, <1>2 DEF Claiming
<1>4. session'.state # "gone" => session.state # "gone"
  OBVIOUS
<1> QED
  BY <1>3, <1>4 DEF StoreInv, OutboxAfterRow, ClaimsAreOwned

\* The outbox and its claims belong to a row that is gone.
LEMMA OutboxStep == StoreInv /\ [Next]_vars => (OutboxAfterRow /\ ClaimsAreOwned)'
<1> SUFFICES ASSUME StoreInv, [Next]_vars
             PROVE  (OutboxAfterRow /\ ClaimsAreOwned)'
  OBVIOUS
<1>1. /\ session \in SessionRow /\ outbox \in OutboxRow /\ now \in Nat
      /\ worker \in [Workers -> WorkerRow]
      /\ caller \in [Callers -> CallerRow]
  BY DEF StoreInv, TypeOK
<1>2. CASE Issue
  <2>1. ~outbox.queued /\ \A w \in Workers : worker[w].at = "idle"
    BY <1>2 DEF Issue, StoreInv, OutboxAfterRow
  <2> QED
    BY <1>2, <2>1 DEF Issue, OutboxAfterRow, ClaimsAreOwned
<1>3. CASE Prune
  <2>1. outbox' = outbox \/ ~outbox'.queued
    BY <1>3 DEF Prune, PruneAt, NoOutbox
  <2>2. /\ session'.gen = session.gen
        /\ \/ session'.state = session.state
           \/ session.state = "live" /\ session'.state = "gone"
    <3>1. \/ session' = session
          \/ session.state = "live" /\ session' = [session EXCEPT !.state = "gone"]
      BY <1>3 DEF Prune, PruneAt
    <3> QED
      BY <1>1, <3>1, GoneKeeps
  <2>3. worker' = worker /\ now' = now
    BY <1>3 DEF Prune, PruneAt
  <2>4. CASE outbox' = outbox
    BY <1>1, <2>2, <2>3, <2>4, OutboxUndisturbed
  <2>5. CASE ~outbox'.queued
    BY <2>2, <2>3, <2>5 DEF StoreInv, OutboxAfterRow, ClaimsAreOwned
  <2> QED
    BY <2>1, <2>4, <2>5
<1>4. CASE Tick
  BY <1>1, <1>4, OutboxUndisturbed DEF Tick
<1>5. ASSUME NEW c \in Callers, Redeem(c) \/ Release(c)
       PROVE  (OutboxAfterRow /\ ClaimsAreOwned)'
  <2>1. outbox' = outbox /\ worker' = worker /\ now' = now
    BY <1>5 DEF Redeem, Release
  <2>2. \/ session' = session
        \/ session' = [session EXCEPT !.lease = NoOwner, !.leaseUntil = 0]
    BY <1>5 DEF Redeem, Release
  <2>3. session'.gen = session.gen /\ session'.state = session.state
    BY <1>1, <2>2 DEF SessionRow
  <2> QED
    BY <1>1, <2>1, <2>3, OutboxUndisturbed
<1>6. ASSUME NEW c \in Callers, NEW t \in Begun, Resolve(c, t) \/ Acquire(c, t)
      PROVE  (OutboxAfterRow /\ ClaimsAreOwned)'
  <2>1. outbox' = outbox /\ worker' = worker /\ now' = now
    BY <1>6 DEF Resolve, Acquire
  <2>2. \/ session' = session
        \/ session' = [session EXCEPT !.state = "gone"]
        \/ session' = [session EXCEPT !.lease = c, !.leaseUntil = t + LeaseTime]
    BY <1>6 DEF Resolve, Acquire
  <2>3. session'.gen = session.gen /\ session'.state \in {session.state, "gone"}
    BY <1>1, <2>2 DEF SessionRow
  <2> QED
    BY <1>1, <2>1, <2>3, OutboxUndisturbed
<1>7. ASSUME NEW c \in Callers, NEW t \in Begun, Complete(c, t)
      PROVE  (OutboxAfterRow /\ ClaimsAreOwned)'
  <2>1. outbox' = outbox /\ worker' = worker /\ now' = now
    BY <1>7 DEF Complete
  <2>2. CASE session.state = "live"
    <3>1. ~outbox.queued /\ \A w \in Workers : worker[w].at = "idle"
      BY <2>2 DEF StoreInv, OutboxAfterRow
    <3> QED
      BY <2>1, <3>1 DEF OutboxAfterRow, ClaimsAreOwned
  <2>3. CASE session.state # "live"
    BY <1>1, <1>7, <2>1, <2>3, OutboxUndisturbed DEF Complete, Completable
  <2> QED
    BY <2>2, <2>3
<1>8. ASSUME NEW c \in Callers, NEW t \in Begun, Revoke(c, t)
      PROVE  (OutboxAfterRow /\ ClaimsAreOwned)'
  <2>1. /\ session'.gen = session.gen /\ session'.state = "gone"
        /\ worker' = worker /\ now' = now
    BY <1>1, <1>8 DEF Revoke, SessionRow
  <2>2. CASE outbox' = outbox
    BY <1>1, <2>1, <2>2, OutboxUndisturbed
  <2>3. CASE session.state = "live" /\ outbox' = Enqueued(t)
    <3>1. \A w \in Workers : worker[w].at = "idle"
      BY <2>3 DEF StoreInv, OutboxAfterRow
    <3>2. outbox'.gen = session.gen
      BY <2>3 DEF Enqueued, NoOutbox
    <3> QED
      BY <2>1, <3>1, <3>2 DEF OutboxAfterRow, ClaimsAreOwned, Claiming
  <2> QED
    BY <1>8, <2>2, <2>3 DEF Revoke
<1>9. ASSUME NEW w \in Workers, Attempt(w) \/ WorkerCrash(w)
      PROVE  (OutboxAfterRow /\ ClaimsAreOwned)'
  <2>1. outbox' = outbox /\ session' = session /\ now' = now /\ worker[w].at # "idle"
    BY <1>9 DEF Attempt, WorkerCrash
  <2>2. \A v \in Workers : worker'[v].at # "idle" =>
          worker[v].at # "idle" /\ worker'[v].leaseUntil = worker[v].leaseUntil
    BY <1>1, <1>9 DEF Attempt, WorkerCrash, WorkerRow
  <2>3. \A v \in Claiming' : v \in Claiming /\ worker'[v].leaseUntil = worker[v].leaseUntil
    BY <2>1, <2>2 DEF Claiming
  <2>4. session.state = "gone"
    BY <2>1 DEF StoreInv, OutboxAfterRow
  <2> QED
    BY <2>1, <2>3, <2>4 DEF StoreInv, OutboxAfterRow, ClaimsAreOwned
<1>10. ASSUME NEW w \in Workers, CompleteRevocation(w)
      PROVE  (OutboxAfterRow /\ ClaimsAreOwned)'
  <2>1. session' = session /\ now' = now /\ worker[w].at # "idle"
    BY <1>10 DEF CompleteRevocation
  <2>2. \A v \in Workers : worker'[v] = IF v = w THEN [at |-> "idle", leaseUntil |-> 0]
                                                ELSE worker[v]
    BY <1>1, <1>10 DEF CompleteRevocation
  <2>3. \A v \in Claiming' : v \in Claiming /\ worker'[v] = worker[v]
    BY <2>1, <2>2 DEF Claiming
  <2>4. session.state = "gone"
    BY <2>1 DEF StoreInv, OutboxAfterRow
  <2>5. outbox' = outbox \/ ~outbox'.queued
    BY <1>10 DEF CompleteRevocation, NoOutbox
  <2> QED
    BY <2>1, <2>3, <2>4, <2>5 DEF StoreInv, OutboxAfterRow, ClaimsAreOwned
<1>11. ASSUME NEW w \in Workers, NEW t \in Begun, Claim(w, t)
       PROVE  (OutboxAfterRow /\ ClaimsAreOwned)'
  <2>1. /\ session' = session /\ now' = now /\ outbox.queued /\ worker[w].at = "idle"
        /\ outbox.owner = NoOwner \/ outbox.leaseUntil <= t
    BY <1>11 DEF Claim, Due
  <2>2. /\ outbox'.owner = w /\ outbox'.leaseUntil = t + ClaimTime
        /\ outbox'.gen = outbox.gen
    BY <1>1, <1>11 DEF Claim, OutboxRow
  <2>3. \A v \in Workers :
          worker'[v] = IF v = w THEN [at |-> "attempting", leaseUntil |-> t + ClaimTime]
                                ELSE worker[v]
    BY <1>1, <1>11 DEF Claim
  <2>4. Claiming = {}
    <3> SUFFICES ASSUME NEW v \in Claiming PROVE FALSE
      OBVIOUS
    <3>1. /\ outbox.owner = v /\ outbox.leaseUntil = worker[v].leaseUntil
          /\ v \in Workers /\ worker[v].leaseUntil > now
      BY <2>1 DEF StoreInv, ClaimsAreOwned, Claiming
    <3>2. outbox.leaseUntil <= t
      BY <2>1, <3>1
    <3>3. t \in Nat /\ t <= now
      BY <1>1, BegunInPast
    <3>4. outbox.leaseUntil \in Nat
      BY <1>1 DEF OutboxRow
    <3> QED
      BY <1>1, <3>1, <3>2, <3>3, <3>4
  <2>5. \A v \in Claiming' : v = w
    BY <2>1, <2>3, <2>4 DEF Claiming
  <2> QED
    BY <2>1, <2>2, <2>3, <2>5 DEF StoreInv, OutboxAfterRow, ClaimsAreOwned
<1>12. ASSUME NEW w \in Workers, NEW t \in Begun, Retry(w, t)
       PROVE  (OutboxAfterRow /\ ClaimsAreOwned)'
  <2>1. session' = session /\ now' = now /\ worker[w].at # "idle"
    BY <1>12 DEF Retry
  <2>2. \A v \in Workers : worker'[v] = IF v = w THEN [at |-> "idle", leaseUntil |-> 0]
                                                ELSE worker[v]
    BY <1>1, <1>12 DEF Retry
  <2>3. \A v \in Claiming' : v # w /\ v \in Claiming /\ worker'[v] = worker[v]
    BY <2>1, <2>2 DEF Claiming
  <2>4. session.state = "gone"
    BY <2>1 DEF StoreInv, OutboxAfterRow
  <2>5. CASE Owned(w)
    <3>1. Claiming' = {}
      BY <2>3, <2>5 DEF StoreInv, ClaimsAreOwned, Owned
    <3>2. outbox'.gen = outbox.gen /\ outbox.queued
      BY <1>1, <1>12, <2>5 DEF Retry, OutboxRow, Owned
    <3> QED
      BY <2>1, <2>4, <3>1, <3>2 DEF StoreInv, OutboxAfterRow, ClaimsAreOwned
  <2>6. CASE ~Owned(w)
    <3>1. outbox' = outbox
      BY <1>12, <2>6 DEF Retry
    <3> QED
      BY <2>1, <2>3, <2>4, <3>1 DEF StoreInv, OutboxAfterRow, ClaimsAreOwned
  <2> QED
    BY <2>5, <2>6
<1>13. CASE UNCHANGED vars
  BY <1>13, <1>1, OutboxUndisturbed DEF vars
<1> QED
  BY <1>2, <1>3, <1>4, <1>6, <1>7, <1>8, <1>9, <1>10, <1>11, <1>12, <1>13, <1>5
     DEF Next

\* The inductive invariant of the store holds in every reachable state.
LEMMA StoreInductive == Spec => []StoreInv
<1>1. Init => StoreInv
  BY DEF Init, StoreInv, TypeOK, SessionRow, OutboxRow, CallerRow,
                        WorkerRow, RowStarts, ReadersBehind, LeaseOnCurrent,
         OutboxAfterRow, ClaimsAreOwned, NoOutbox, CallerPlaces
<1>2. StoreInv /\ [Next]_vars => StoreInv'
  BY TypesStep, ReadersStep, OutboxStep DEF StoreInv
<1> QED
  BY <1>1, <1>2, PTL DEF Spec
-----------------------------------------------------------------------------
\* The rows of the store, its callers and its workers keep their types.
THEOREM StoreTypeCorrect == Spec => []TypeOK
<1>1. StoreInv => TypeOK
  BY DEF StoreInv
<1> QED
  BY <1>1, StoreInductive, PTL

\* Who holds the refresh lease redeems the token that is stored, and two workers
\* never run a claim of one revocation at once, whatever the transactions' clocks.
THEOREM LeasesAreTrue == Spec => []LeasesHoldTrue
<1>1. StoreInv => HolderReadCurrent
  BY DEF StoreInv, TypeOK, ReadersBehind, LeaseOnCurrent, HolderReadCurrent
<1>2. StoreInv => OneClaimAtATime
  BY DEF StoreInv, ClaimsAreOwned, OneClaimAtATime
<1>3. StoreInv => LeasesHoldTrue
  BY <1>1, <1>2 DEF LeasesHoldTrue
<1> QED
  BY <1>3, StoreInductive, PTL

\* The outbox asks the provider to revoke the newest token stored for the session.
THEOREM NewestIsRevoked == Spec => []RevokesNewestMaterial
<1>1. StoreInv => RevokesNewestMaterial
  BY DEF StoreInv, OutboxAfterRow, RevokesNewestMaterial
<1> QED
  BY <1>1, StoreInductive, PTL

\* A revocation leaves the outbox confirmed or expired, never for another reason.
THEOREM RevocationsAreKept == Spec => RevocationNotDropped
<1> DEFINE Kept == outbox.queued /\ ~outbox'.queued =>
                     outbox.until <= now \/ \E w \in Workers :
                       worker[w].at = "loggedOut" /\ worker'[w].at = "idle"
<1>1. StoreInv /\ [Next]_vars => [Kept]_vars
  <2> SUFFICES ASSUME StoreInv, [Next]_vars, outbox.queued, ~outbox'.queued
               PROVE  outbox.until <= now \/ \E w \in Workers :
                        worker[w].at = "loggedOut" /\ worker'[w].at = "idle"
    OBVIOUS
  <2>1. CASE Prune
    BY <2>1, BegunInPast DEF Prune, PruneAt, Prunable, StoreInv, TypeOK, OutboxRow
  <2>2. ASSUME NEW w \in Workers, CompleteRevocation(w)
        PROVE  worker[w].at = "loggedOut" /\ worker'[w].at = "idle"
    BY <2>2 DEF CompleteRevocation, StoreInv, TypeOK
  <2>3. ASSUME NEW w \in Workers, NEW t \in Begun, Claim(w, t) \/ Retry(w, t)
        PROVE  FALSE
    BY <2>3 DEF Claim, Retry, StoreInv, TypeOK, OutboxRow
  <2>4. ASSUME NEW c \in Callers, NEW t \in Begun, Revoke(c, t)
        PROVE  FALSE
    BY <2>4 DEF Revoke, StoreInv, OutboxAfterRow, Enqueued, NoOutbox
  <2>5. outbox' # outbox
    OBVIOUS
  <2> QED
    BY <2>1, <2>2, <2>3, <2>4, <2>5
       DEF Next, vars, Issue, Tick, Redeem, Release, Resolve, Acquire, Complete,
           Attempt, WorkerCrash
<1> QED
  BY <1>1, StoreInductive, PTL DEF Spec, RevocationNotDropped

-----------------------------------------------------------------------------
(* The development server. *)

Told == noticed /\ ~armed /\ ~queued

\* A build is started for an edit: those to come have edits to themselves.
BuildsHaveEdits ==
  generation + (IF queued THEN 1 ELSE 0) + (IF armed THEN 1 ELSE 0)
    + (IF noticed THEN 0 ELSE 1) <= version + 1

\* With nobody left to tell the builder, it has read or will read the newest version.
ReadsNewest ==
  /\ queued => builder # "idle"
  /\ closing = "open" /\ Told =>
       /\ builder = "idle" =>
            attempted = version /\ (succeeded => served = [bundle |-> version, project |-> version])
       /\ builder \in {"writing", "loading", "attaching", "removing", "discarding"} =>
            candidate.bundle = version
       /\ builder \in {"attaching", "removing"} => candidate.project = version
       /\ builder = "removing" => served = candidate

\* Nothing that exists has a later generation than the build under way, which has
\* written its bundle when it attaches its backend.
NewestIsCandidate ==
  /\ \A g \in bundles \cup backends \cup {activeBundle, activeBackend} : g <= generation
  /\ builder \in {"reading", "writing", "loading", "attaching", "discarding"}
       /\ ~removalFailed =>
         activeBundle < generation /\ \A g \in backends : g < generation
  /\ builder \in {"loading", "attaching"} /\ closing # "closed" => generation \in bundles

\* What is served from until close() disposes of it.
StaysWhole ==
  closing \in {"open", "draining"} /\ ~removalFailed =>
    /\ activeBundle \in bundles
    /\ activeBackend = activeBundle
    /\ backends = {activeBackend} \cup
                  (IF builder = "removing" THEN {previous.backend} ELSE {})
    /\ builder = "removing" =>
         activeBackend = generation /\ previous.backend < generation
           /\ previous.bundle = previous.backend

\* What a build that close() did not overtake has still to remove.
RemovesAfterClose ==
  /\ closing # "open" => ~armed
  /\ closing \in {"erasing", "closed"} /\ ~overtaken =>
       /\ ~queued /\ builder \in {"idle", "removing", "discarding"}
       /\ ~removalFailed =>
            backends = IF builder = "removing" THEN {previous.backend} ELSE {}
       /\ closing = "closed" => bundles = {}

ServerInv ==
  /\ ServerTypeOK /\ BuildsHaveEdits /\ ReadsNewest /\ NewestIsCandidate
  /\ StaysWhole /\ RemovesAfterClose
-----------------------------------------------------------------------------
\* The first build is served, and nothing was edited yet.
LEMMA ServerStarts == ServerInit => ServerInv
<1> SUFFICES ASSUME ServerInit PROVE ServerInv
  OBVIOUS
<1>1. candidate \in Read /\ served \in Read
  BY ServerAssumption DEF ServerInit, Read, Versions
<1>2. MaxEdits \in Nat
  BY ServerAssumption
<1>3. version \in Versions /\ attempted \in Versions /\ generation \in 1..MaxEdits + 1
  BY <1>2 DEF ServerInit, Versions
<1>4. 0 \in Generations /\ 1 \in Generations
  BY <1>2 DEF Generations
<1>5. ServerTypeOK
  BY <1>1, <1>3, <1>4 DEF ServerInit, ServerTypeOK, BuilderPlaces
<1> QED
  BY <1>1, <1>5
     DEF ServerInit, ServerInv, BuildsHaveEdits, ReadsNewest, NewestIsCandidate, StaysWhole,
         RemovesAfterClose, Told

\* The end of a build: the next one is started if it was asked for.
LEMMA OverFacts ==
  ASSUME NEW success \in BOOLEAN, Over(success), queued \in BOOLEAN
  PROVE  /\ attempted' = candidate.bundle /\ succeeded' = success /\ queued' = FALSE
         /\ queued => builder' = "reading" /\ generation' = generation + 1
         /\ ~queued => builder' = "idle" /\ generation' = generation
  BY DEF Over, StartsBuild

\* Each edit pays for one build.
LEMMA BudgetStep == ServerInv /\ [ServerNext]_serverVars => BuildsHaveEdits'
<1> SUFFICES ASSUME ServerInv, [ServerNext]_serverVars PROVE BuildsHaveEdits'
  OBVIOUS
<1> USE DEF BuildsHaveEdits
<1>1. /\ generation \in Nat /\ version \in Nat /\ BuildsHaveEdits
      /\ noticed \in BOOLEAN /\ armed \in BOOLEAN /\ queued \in BOOLEAN
  BY ServerAssumption DEF ServerInv, ServerTypeOK, Versions
<1>2. CASE Edit
  BY <1>1, <1>2 DEF Edit
<1>7. CASE Notice
  BY <1>1, <1>7 DEF Notice
<1>8. CASE Close
  BY <1>1, <1>8 DEF Close, files
<1>3. CASE TimerFires
  BY <1>1, <1>3 DEF TimerFires, StartsBuild, files
<1>4. CASE Removes \/ Discards
  <2>1. PICK success \in BOOLEAN : Over(success)
    BY <1>4 DEF Removes, Discards
  <2>2. /\ queued' = FALSE
        /\ queued => generation' = generation + 1
        /\ ~queued => generation' = generation
    BY <1>1, <2>1, OverFacts
  <2>3. UNCHANGED <<version, noticed, armed>>
    BY <1>4 DEF Removes, Discards, files
  <2> QED
    BY <1>1, <2>2, <2>3
<1>5. CASE Reads \/ Writes \/ Loads \/ Swaps \/ CannotRemove \/ Fails \/ Drains \/ Erases
  <2>1. UNCHANGED <<version, noticed, armed, queued, generation>>
    BY <1>5 DEF Reads, Writes, Loads, Swaps, CannotRemove, Fails, Drains, Erases, files
  <2> QED
    BY <1>1, <2>1
<1>6. CASE UNCHANGED serverVars
  BY <1>1, <1>6 DEF serverVars
<1> QED
  BY <1>2, <1>3, <1>4, <1>5, <1>6, <1>7, <1>8 DEF ServerNext, BuilderSteps

\* Counters, flags and generations keep their types.
LEMMA ServerTypes == ServerInv /\ [ServerNext]_serverVars => ServerTypeOK'
<1> SUFFICES ASSUME ServerInv, [ServerNext]_serverVars PROVE ServerTypeOK'
  OBVIOUS
<1> USE DEF ServerTypeOK, Versions, Generations, BuilderPlaces
<1>1. ServerTypeOK /\ generation \in Nat /\ version \in Nat /\ MaxEdits \in Nat
  BY ServerAssumption DEF ServerInv
<1>2. version' \in Versions /\ noticed' \in BOOLEAN /\ armed' \in BOOLEAN
  <2>1. CASE Edit
    <3>1. version' \in Versions
      BY <1>1, <2>1 DEF Edit
    <3> QED
      BY <1>1, <2>1, <3>1 DEF Edit
  <2>2. CASE Notice
    BY <1>1, <2>2 DEF Notice
  <2>3. CASE TimerFires \/ Close
    BY <1>1, <2>3 DEF TimerFires, Close, files
  <2>4. CASE UNCHANGED <<version, noticed, armed>>
    BY <1>1, <2>4
  <2> QED
    BY <2>1, <2>2, <2>3, <2>4 DEF ServerNext, BuilderSteps, serverVars, files, Reads, Writes,
       Loads, Swaps, Removes, CannotRemove, Fails, Discards, Drains, Erases
<1>3. closing' \in {"open", "draining", "erasing", "closed"}
  BY <1>1 DEF ServerNext, BuilderSteps, serverVars, Edit, Notice, TimerFires, Reads, Writes,
     Loads, Swaps, Removes, CannotRemove, Fails, Discards, Close, Drains, Erases
<1>4. removalFailed' \in BOOLEAN /\ overtaken' \in BOOLEAN
  BY <1>1 DEF ServerNext, BuilderSteps, serverVars, history, Edit, Notice, TimerFires, Reads, Writes,
     Loads, Swaps, Removes, CannotRemove, Fails, Discards, Close, Drains, Erases
<1>5. candidate' \in Read
  BY <1>1 DEF Read, ServerNext, BuilderSteps, serverVars, Edit, Notice, TimerFires, Reads, Writes,
     Loads, Swaps, Removes, CannotRemove, Fails, Discards, Close, Drains, Erases
<1>6. /\ served' \in Read /\ previous' \in [bundle : Generations, backend : Generations]
      /\ activeBundle' \in Generations /\ activeBackend' \in Generations
  <2>1. CASE UNCHANGED live
    BY <1>1, <2>1 DEF live
  <2>2. CASE Swaps
    BY <1>1, <2>2 DEF Swaps
  <2>3. CASE Drains
    BY <1>1, <2>3 DEF Drains
  <2> QED
    BY <2>1, <2>2, <2>3 DEF live, ServerNext, BuilderSteps, serverVars, Edit, Notice, TimerFires,
       Reads, Writes, Loads, Removes, CannotRemove, Fails, Discards, Close, Erases
<1>7. bundles' \subseteq Generations /\ backends' \subseteq Generations
  <2>1. bundles' \subseteq bundles \cup {generation}
    BY DEF ServerNext, BuilderSteps, serverVars, Edit, Notice, TimerFires, Reads, Writes,
       Loads, Swaps, Removes, CannotRemove, Fails, Discards, Close, Drains, Erases
  <2>2. backends' \subseteq backends \cup {generation}
    BY DEF ServerNext, BuilderSteps, serverVars, Edit, Notice, TimerFires, Reads, Writes,
       Loads, Swaps, Removes, CannotRemove, Fails, Discards, Close, Drains, Erases
  <2> QED
    BY <1>1, <2>1, <2>2
<1>8. /\ builder' \in BuilderPlaces /\ generation' \in 1..MaxEdits + 1 /\ queued' \in BOOLEAN
      /\ attempted' \in Versions /\ succeeded' \in BOOLEAN
  <2>1. CASE Removes \/ Discards
    <3>1. PICK success \in BOOLEAN : Over(success)
      BY <2>1 DEF Removes, Discards
    <3>2. /\ attempted' = candidate.bundle /\ succeeded' = success /\ queued' = FALSE
          /\ queued => builder' = "reading" /\ generation' = generation + 1
          /\ ~queued => builder' = "idle" /\ generation' = generation
      BY <1>1, <3>1, OverFacts
    <3>3. candidate.bundle \in Versions
      BY <1>1 DEF Read
    <3>4. queued => generation + 1 <= MaxEdits + 1
      BY <1>1 DEF ServerInv, BuildsHaveEdits
    <3>5. builder' \in BuilderPlaces
      BY <3>2, <1>1
    <3>6. generation' \in 1..MaxEdits + 1
      BY <1>1, <3>2, <3>4
    <3>7. attempted' \in Versions
      BY <3>2, <3>3
    <3>8. queued' \in BOOLEAN /\ succeeded' \in BOOLEAN
      BY <3>2
    <3> QED
      BY <3>5, <3>6, <3>7, <3>8
  <2>2. CASE TimerFires
    <3>1. builder = "idle" => generation + 1 <= MaxEdits + 1
      BY <1>1, <2>2 DEF ServerInv, BuildsHaveEdits, TimerFires
    <3>2. builder' \in BuilderPlaces
      BY <1>1, <2>2, <3>1 DEF TimerFires, StartsBuild, ends
    <3>3. generation' \in 1..MaxEdits + 1
      BY <1>1, <2>2, <3>1 DEF TimerFires, StartsBuild, ends
    <3>4. queued' \in BOOLEAN
      BY <1>1, <2>2, <3>1 DEF TimerFires, StartsBuild, ends
    <3>5. attempted' \in Versions
      BY <1>1, <2>2, <3>1 DEF TimerFires, StartsBuild, ends
    <3>6. succeeded' \in BOOLEAN
      BY <1>1, <2>2, <3>1 DEF TimerFires, StartsBuild, ends
    <3> QED
      BY <3>2, <3>3, <3>4, <3>5, <3>6
  <2>3. CASE UNCHANGED <<generation, queued, attempted, succeeded>>
             /\ (builder' = builder \/ builder' \in BuilderPlaces)
    BY <1>1, <2>3
  <2> QED
    BY <2>1, <2>2, <2>3 DEF ServerNext, BuilderSteps, serverVars, ends, Edit, Notice,
       Reads, Writes, Loads, Swaps, CannotRemove, Fails, Close, Drains, Erases
<1> QED
  BY <1>2, <1>3, <1>4, <1>5, <1>6, <1>7, <1>8

\* Who is told last of the edits reads the newest version.
LEMMA ReadsStep == ServerInv /\ [ServerNext]_serverVars => ReadsNewest'
<1> SUFFICES ASSUME ServerInv, [ServerNext]_serverVars PROVE ReadsNewest'
  OBVIOUS
<1> USE DEF ServerInv, ReadsNewest, Told
<1>1. /\ builder \in BuilderPlaces /\ candidate \in Read /\ queued \in BOOLEAN
      /\ noticed \in BOOLEAN /\ armed \in BOOLEAN
  BY DEF ServerTypeOK
<1>2. CASE Edit \/ Notice
  BY <1>2 DEF Edit, Notice
<1>3. CASE TimerFires
  BY <1>3 DEF TimerFires, StartsBuild, live, ends, files
<1>4. CASE Reads
  BY <1>1, <1>4 DEF Reads, At, live, ends, files, Read
<1>5. CASE Loads
  BY <1>1, <1>5 DEF Loads, At, live, ends, files, Read
<1>6. CASE Writes \/ CannotRemove \/ Fails
  BY <1>6 DEF Writes, CannotRemove, Fails, At, files, live, ends
<1>7. CASE Swaps
  BY <1>7 DEF Swaps, At, files, ends
<1>8. CASE Removes
  <2>1. candidate = [bundle |-> candidate.bundle, project |-> candidate.project]
    BY <1>1 DEF Read
  <2>2. Over(TRUE) /\ builder = "removing"
        /\ UNCHANGED <<version, noticed, armed, candidate, served, closing>>
    BY <1>8 DEF Removes, At, files, live
  <2>3. /\ attempted' = candidate.bundle /\ queued' = FALSE
        /\ queued => builder' = "reading"
        /\ ~queued => builder' = "idle"
    BY <1>1, <2>2, OverFacts
  <2> QED
    BY <2>1, <2>2, <2>3
<1>9. CASE Discards
  <2>1. Over(FALSE) /\ builder = "discarding"
        /\ UNCHANGED <<version, noticed, armed, candidate, served, closing>>
    BY <1>9 DEF Discards, At, files, live
  <2>2. /\ attempted' = candidate.bundle /\ succeeded' = FALSE /\ queued' = FALSE
        /\ queued => builder' = "reading"
        /\ ~queued => builder' = "idle"
    BY <1>1, <2>1, OverFacts
  <2> QED
    BY <2>1, <2>2
<1>10. CASE Close \/ Drains \/ Erases
  BY <1>10 DEF Close, Drains, Erases
<1>11. CASE UNCHANGED serverVars
  BY <1>11 DEF serverVars
<1> QED
  BY <1>2, <1>3, <1>4, <1>5, <1>6, <1>7, <1>8, <1>9, <1>10, <1>11 DEF ServerNext, BuilderSteps

\* What exists is not newer than the build under way.
LEMMA GenerationsStep == ServerInv /\ [ServerNext]_serverVars => NewestIsCandidate'
<1> SUFFICES ASSUME ServerInv, [ServerNext]_serverVars PROVE NewestIsCandidate'
  OBVIOUS
<1> USE DEF NewestIsCandidate
<1>1. /\ generation \in Nat /\ 0 < generation /\ queued \in BOOLEAN
      /\ bundles \subseteq Nat /\ backends \subseteq Nat
      /\ activeBundle \in Nat /\ activeBackend \in Nat
  BY ServerAssumption DEF ServerInv, ServerTypeOK, Generations
<1>2. NewestIsCandidate
  BY DEF ServerInv
<1>3. CASE Edit \/ Notice \/ Close \/ UNCHANGED serverVars
  <2>1. UNCHANGED <<builder, generation, bundles, backends, activeBundle, activeBackend, removalFailed>>
        /\ (closing' = closing \/ (closing' = "draining" /\ closing = "open"))
    <3>1. CASE Edit \/ Notice
      BY <3>1 DEF Edit, Notice, live, history
    <3>2. CASE Close
      BY <3>2 DEF Close, live, history
    <3> QED
      BY <1>3, <3>1, <3>2 DEF serverVars
  <2> QED
    BY <1>2, <2>1
<1>4. CASE TimerFires
  <2>1. UNCHANGED <<bundles, backends, activeBundle, activeBackend, removalFailed, closing>>
    BY <1>4 DEF TimerFires, live, history
  <2>2. CASE builder = "idle"
    <3>1. builder' = "reading" /\ generation' = generation + 1
      BY <1>4, <2>2 DEF TimerFires, StartsBuild
    <3> QED
      BY <1>1, <1>2, <2>1, <3>1
  <2>3. CASE builder # "idle"
    BY <1>2, <1>4, <2>1, <2>3 DEF TimerFires
  <2> QED
    BY <2>2, <2>3
<1>5. CASE Reads \/ Loads \/ Fails
  <2>1. UNCHANGED <<bundles, backends, activeBundle, activeBackend, removalFailed, closing, generation>>
    BY <1>5 DEF Reads, Loads, Fails, live, history
  <2> QED
    BY <1>2, <1>5, <2>1 DEF Reads, Loads, Fails, At
<1>6. CASE Writes
  BY <1>1, <1>2, <1>6 DEF Writes, At, live, history
<1>7. CASE Swaps
  BY <1>1, <1>2, <1>7 DEF Swaps, At, history
<1>8. CASE CannotRemove
  BY <1>1, <1>2, <1>8 DEF CannotRemove, At, live
<1>9. CASE Removes \/ Discards
  <2>1. PICK success \in BOOLEAN : Over(success)
    BY <1>9 DEF Removes, Discards
  <2>2. /\ queued => builder' = "reading" /\ generation' = generation + 1
        /\ ~queued => builder' = "idle" /\ generation' = generation
    BY <1>1, <2>1, OverFacts
  <2>3. /\ bundles' \subseteq bundles /\ backends' \subseteq backends
        /\ UNCHANGED <<activeBundle, activeBackend, removalFailed>>
    BY <1>9 DEF Removes, Discards, live, history
  <2>4. \A g \in bundles \cup backends \cup {activeBundle, activeBackend} :
          g \in Nat /\ g <= generation /\ g < generation + 1
    BY <1>1, <1>2
  <2> QED
    BY <1>1, <2>2, <2>3, <2>4
<1>10. CASE Drains
  BY <1>1, <1>2, <1>10 DEF Drains
<1>11. CASE Erases
  BY <1>1, <1>2, <1>11 DEF Erases, live, history
<1> QED
  BY <1>3, <1>4, <1>5, <1>6, <1>7, <1>8, <1>9, <1>10, <1>11 DEF ServerNext, BuilderSteps

\* The server has what it serves from until it is closed.
LEMMA WholeStep == ServerInv /\ [ServerNext]_serverVars => StaysWhole'
<1> SUFFICES ASSUME ServerInv, [ServerNext]_serverVars, (closing \in {"open", "draining"} /\ ~removalFailed)'
             PROVE  StaysWhole'
  BY DEF StaysWhole
<1> USE DEF StaysWhole
<1>1. /\ generation \in Nat /\ queued \in BOOLEAN
      /\ backends \subseteq Nat
      /\ activeBundle \in Nat /\ activeBackend \in Nat
      /\ closing \in {"open", "draining", "erasing", "closed"}
  BY ServerAssumption DEF ServerInv, ServerTypeOK, Generations
<1>2. StaysWhole /\ NewestIsCandidate
  BY DEF ServerInv
<1>3. CASE Edit \/ Notice \/ Close \/ UNCHANGED serverVars
  <2>1. UNCHANGED <<builder, generation, bundles, backends, live, removalFailed>>
        /\ closing \in {"open", "draining"}
    BY <1>3 DEF Edit, Notice, Close, serverVars, live, history
  <2> QED
    BY <1>2, <2>1 DEF live
<1>4. CASE TimerFires
  <2>1. UNCHANGED <<bundles, backends, live, removalFailed, closing>>
        /\ \/ builder' = builder /\ generation' = generation
           \/ builder = "idle" /\ builder' = "reading"
    <3>1. CASE builder = "idle"
      BY <1>4, <3>1 DEF TimerFires, StartsBuild, history
    <3> QED
      BY <1>4, <3>1 DEF TimerFires, history
  <2> QED
    BY <1>2, <2>1 DEF live
<1>5. CASE Reads \/ Loads \/ Fails \/ Writes
  <2>1. UNCHANGED <<backends, live, removalFailed, closing, generation>>
        /\ bundles \subseteq bundles'
        /\ builder # "removing" /\ builder' # "removing"
    BY <1>5 DEF Reads, Loads, Fails, Writes, At, history
  <2> QED
    BY <1>2, <2>1 DEF live
<1>6. CASE Swaps
  <2>1. generation \in bundles /\ activeBackend < generation
    BY <1>1, <1>2, <1>6 DEF Swaps, At, NewestIsCandidate, history
  <2>2. backends = {activeBackend} /\ activeBackend = activeBundle
    BY <1>2, <1>6 DEF Swaps, At, history
  <2>3. /\ builder' = "removing" /\ UNCHANGED <<generation, bundles, closing, removalFailed>>
        /\ previous' = [bundle |-> activeBundle, backend |-> activeBackend]
        /\ activeBundle' = generation /\ activeBackend' = generation
        /\ backends' = backends \cup {generation}
    BY <1>6 DEF Swaps, history
  <2> QED
    BY <2>1, <2>2, <2>3
<1>7. CASE CannotRemove
  BY <1>7 DEF CannotRemove
<1>8. CASE Removes
  <2>1. /\ builder = "removing" /\ UNCHANGED <<live, closing, removalFailed>>
        /\ bundles' = bundles \ {previous.bundle} /\ backends' = backends \ {previous.backend}
        /\ Over(TRUE)
    BY <1>8 DEF Removes, At, history
  <2>2. builder' # "removing"
    BY <1>1, <2>1, OverFacts
  <2>3. activeBackend # previous.backend /\ activeBundle # previous.bundle
    BY <1>1, <1>2, <2>1
  <2> QED
    BY <1>2, <2>1, <2>2, <2>3 DEF live
<1>9. CASE Discards
  <2>1. /\ builder = "discarding" /\ UNCHANGED <<live, closing, removalFailed, backends>>
        /\ bundles' = bundles \ {generation} /\ Over(FALSE)
    BY <1>9 DEF Discards, At, history
  <2>2. builder' # "removing"
    BY <1>1, <2>1, OverFacts
  <2>3. activeBundle # generation
    BY <1>1, <1>2, <2>1 DEF NewestIsCandidate
  <2> QED
    BY <1>2, <2>1, <2>2, <2>3 DEF live
<1>10. CASE Drains \/ Erases
  BY <1>10 DEF Drains, Erases
<1> QED
  BY <1>3, <1>4, <1>5, <1>6, <1>7, <1>8, <1>9, <1>10 DEF ServerNext, BuilderSteps

\* close() leaves to the build that it waited for what that has to remove.
LEMMA CloseStep == ServerInv /\ [ServerNext]_serverVars => RemovesAfterClose'
<1> SUFFICES ASSUME ServerInv, [ServerNext]_serverVars PROVE RemovesAfterClose'
  OBVIOUS
<1> USE DEF RemovesAfterClose
<1>1. /\ queued \in BOOLEAN /\ armed \in BOOLEAN /\ builder \in BuilderPlaces
      /\ closing \in {"open", "draining", "erasing", "closed"}
  BY DEF ServerInv, ServerTypeOK
<1>2. RemovesAfterClose /\ StaysWhole
  BY DEF ServerInv
<1>3. CASE Edit \/ Notice \/ Close \/ UNCHANGED serverVars
  BY <1>2, <1>3 DEF Edit, Notice, Close, serverVars, live, history
<1>4. CASE TimerFires
  BY <1>1, <1>2, <1>4 DEF TimerFires, live, history
<1>5. CASE Reads \/ Loads \/ Writes \/ Swaps
  <2>1. UNCHANGED <<closing, overtaken, armed>> /\ builder \in {"reading", "loading", "writing", "attaching"}
    BY <1>5 DEF Reads, Loads, Writes, Swaps, At, history
  <2> QED
    BY <1>1, <1>2, <2>1
<1>6. CASE Fails
  <2>1. UNCHANGED <<closing, overtaken, armed, queued, backends, bundles>> /\ builder' = "discarding"
        /\ builder \in {"loading", "writing", "attaching"} /\ UNCHANGED removalFailed
    BY <1>6 DEF Fails, At, history
  <2> QED
    BY <1>1, <1>2, <2>1
<1>10. CASE CannotRemove
  <2>1. UNCHANGED <<closing, overtaken, armed, queued, backends, bundles>> /\ builder' = "discarding"
        /\ builder = "removing" /\ removalFailed' = TRUE
    BY <1>10 DEF CannotRemove, At
  <2> QED
    BY <1>1, <1>2, <2>1
<1>7. CASE Removes \/ Discards
  <2>1. PICK success \in BOOLEAN : Over(success)
    BY <1>7 DEF Removes, Discards
  <2>2. /\ queued' = FALSE
        /\ ~queued => builder' = "idle"
    BY <1>1, <2>1, OverFacts
  <2>3. /\ UNCHANGED <<closing, overtaken, armed, removalFailed>> /\ bundles' \subseteq bundles
        /\ \/ builder = "removing" /\ backends' = backends \ {previous.backend}
           \/ builder = "discarding" /\ backends' = backends
    BY <1>7 DEF Removes, Discards, At, history
  <2>4. closing # "open" => ~armed'
    BY <1>2, <2>3
  <2>5. ASSUME closing \in {"erasing", "closed"}, ~overtaken
        PROVE  /\ ~queued' /\ builder' = "idle"
               /\ ~removalFailed => backends' = {}
               /\ closing = "closed" => bundles' = {}
    <3>1. ~queued
      BY <1>2, <2>5
    <3>2. ~removalFailed => backends' = {}
      BY <1>2, <2>3, <2>5
    <3>3. closing = "closed" => bundles' = {}
      BY <1>2, <2>3, <2>5
    <3>4. ~queued' /\ builder' = "idle"
      BY <2>2, <3>1
    <3> QED
      BY <3>2, <3>3, <3>4
  <2> QED
    BY <2>3, <2>4, <2>5
<1>8. CASE Drains
  <2>1. ~overtaken' => ~queued /\ builder \in {"idle", "removing", "discarding"}
    BY <1>1, <1>8 DEF Drains, BuilderPlaces
  <2>2. /\ closing = "draining" /\ closing' = "erasing"
        /\ backends' = backends \ {activeBackend}
        /\ UNCHANGED <<armed, builder, queued, previous, removalFailed>>
    BY <1>8 DEF Drains
  <2>3. ~removalFailed /\ builder = "removing" => previous.backend # activeBackend
    BY <1>2, <2>2 DEF ServerInv, ServerTypeOK, StaysWhole, Generations
  <2>4. ~removalFailed => backends' = IF builder = "removing" THEN {previous.backend} ELSE {}
    BY <1>2, <2>2, <2>3 DEF StaysWhole
  <2> QED
    BY <1>2, <2>1, <2>2, <2>4
<1>9. CASE Erases
  BY <1>1, <1>2, <1>9 DEF Erases, live, history
<1> QED
  BY <1>3, <1>4, <1>5, <1>6, <1>7, <1>8, <1>9, <1>10 DEF ServerNext, BuilderSteps

\* The strengthening, in every state.
LEMMA ServerInductive == ServerSpec => []ServerInv
<1>1. ServerInv /\ [ServerNext]_serverVars => ServerInv'
  BY BudgetStep, ServerTypes, ReadsStep, GenerationsStep, WholeStep, CloseStep DEF ServerInv
<1> QED
  BY <1>1, ServerStarts, PTL DEF ServerSpec

\* The development server's counters, flags and generations keep their types: it
\* never builds more often than the project was edited.
THEOREM ServerTypeCorrect == ServerSpec => []ServerTypeOK
<1>1. ServerInv => ServerTypeOK
  BY DEF ServerInv
<1> QED
  BY <1>1, ServerInductive, PTL

\* rebuild, buildNext and close of project/run-project.mjs: however edits, builds and
\* close() overlap, the last edit is built, what is served is whole and of one
\* build, and what is closed leaves nothing.
THEOREM ServerIsWhole == ServerSpec => []ServerHolds
<1>1. ServerInv => QuietIsCurrent
  BY DEF ServerInv, QuietIsCurrent, Quiet, ReadsNewest, Told, BuilderPlaces
<1>2. ServerInv => ServesWhole /\ ClosesClean
  BY DEF ServerInv, ServesWhole, StaysWhole, ClosesClean, RemovesAfterClose
<1> QED
  BY <1>1, <1>2, ServerInductive, PTL DEF ServerHolds
-----------------------------------------------------------------------------
(* Libraries of a project. *)

Adding == {"checked", "staged", "placed"}
Leaving == {"leaving", "quarantined", "restoring"}

\* A command knows what it is about: until it writes the lockfile, the lockfile is
\* as it read it, and what it looked at before it began still holds.
CommandKnown ==
  /\ step # "idle" => job \in Jobs
  /\ step \in Adding \cup Leaving => read = lockfile
  /\ step \in Adding =>
       /\ Package \notin LockedPairs /\ Needs[Package] \subseteq LockedPairs
       /\ job.op = "update" <=> Locked(job.library)
  /\ step \in Leaving =>
       /\ Locked(job.library) /\ job.version = lockfile[job.library]
       /\ \A p \in LockedPairs : p[1] # job.library => \A n \in Needs[p] : n[1] # job.library
  /\ step = "replacing" => Previous \notin LockedPairs

\* What may be locked and not in place, and in place and not locked.
Missing == IF step \in {"quarantined", "restoring"} THEN {Package} ELSE {}
Surplus == IF step = "placed" THEN {Package} ELSE IF step = "replacing" THEN {Previous} ELSE {}

DirectoriesKnown ==
  /\ scars \cap {"quarantined", "restoring"} = {} => LockedPairs \ Missing \subseteq installed
  /\ scars \cap {"placed", "replacing"} = {} => installed \subseteq LockedPairs \cup Surplus
  /\ step = "placed" => Package \in installed
  /\ step = "quarantined" => Package \notin installed

LibrariesInv == LibrariesTypeOK /\ CommandKnown /\ DirectoriesKnown /\ NeedsAreLocked

\* What is locked is a library with a release.
LEMMA LockedMembers ==
  ASSUME LibrariesTypeOK
  PROVE  /\ \A l \in Libraries : <<l, lockfile[l]>> \in LockedPairs <=> Locked(l)
         /\ \A p \in LockedPairs :
              /\ p \in Libraries \X Releases /\ p = <<p[1], p[2]>>
              /\ p[2] = lockfile[p[1]] /\ Locked(p[1])
<1>1. \A l \in Libraries : lockfile[l] \in Releases \cup {NotLocked}
  BY DEF LibrariesTypeOK, Lockfiles
<1>2. \A l \in Libraries : <<l, lockfile[l]>> \in LockedPairs <=> Locked(l)
  BY DEF LockedPairs
<1>3. ASSUME NEW p \in LockedPairs
      PROVE  /\ p \in Libraries \X Releases /\ p = <<p[1], p[2]>>
             /\ p[2] = lockfile[p[1]] /\ Locked(p[1])
  <2>1. PICK l \in Libraries : Locked(l) /\ p = <<l, lockfile[l]>>
    BY <1>3 DEF LockedPairs
  <2> QED
    BY <1>1, <2>1 DEF Locked
<1> QED
  BY <1>2, <1>3

\* Writing one library into the lockfile replaces its pair.
LEMMA PairReplaced ==
  ASSUME LibrariesTypeOK, NEW l \in Libraries, NEW v \in Releases \cup {NotLocked},
         lockfile' = [lockfile EXCEPT ![l] = v]
  PROVE  /\ lockfile' \in Lockfiles
         /\ LockedPairs' = (LockedPairs \ {<<l, lockfile[l]>>})
                             \cup (IF v = NotLocked THEN {} ELSE {<<l, v>>})
         /\ \A m \in Libraries : Locked(m)' <=> IF m = l THEN v # NotLocked ELSE Locked(m)
<1>1. lockfile \in Lockfiles
  BY DEF LibrariesTypeOK
<1>2. lockfile' \in Lockfiles
  BY <1>1 DEF Lockfiles
<1>3. \A m \in Libraries : lockfile'[m] = IF m = l THEN v ELSE lockfile[m]
  BY <1>1 DEF Lockfiles
<1>4. \A m \in Libraries : Locked(m)' <=> IF m = l THEN v # NotLocked ELSE Locked(m)
  BY <1>3 DEF Locked
<1>5. ASSUME NEW p \in LockedPairs'
      PROVE  p \in (LockedPairs \ {<<l, lockfile[l]>>}) \cup (IF v = NotLocked THEN {} ELSE {<<l, v>>})
  <2>1. PICK m \in Libraries : Locked(m)' /\ p = <<m, lockfile'[m]>>
    BY <1>5 DEF LockedPairs
  <2>2. CASE m = l
    BY <1>3, <1>4, <2>1, <2>2
  <2>3. CASE m # l
    <3>1. Locked(m) /\ p = <<m, lockfile[m]>>
      BY <1>3, <1>4, <2>1, <2>3
    <3>2. p \in LockedPairs
      BY <3>1 DEF LockedPairs
    <3> QED
      BY <2>3, <3>1, <3>2
  <2> QED
    BY <2>2, <2>3
<1>6. ASSUME NEW p \in LockedPairs, p # <<l, lockfile[l]>>
      PROVE  p \in LockedPairs'
  <2>1. PICK m \in Libraries : Locked(m) /\ p = <<m, lockfile[m]>>
    BY <1>6 DEF LockedPairs
  <2>2. Locked(m)' /\ p = <<m, lockfile'[m]>>
    BY <1>3, <1>4, <1>6, <2>1
  <2> QED
    BY <2>2 DEF LockedPairs
<1>7. v # NotLocked => <<l, v>> \in LockedPairs'
  <2>1. v # NotLocked => Locked(l)' /\ <<l, v>> = <<l, lockfile'[l]>>
    BY <1>3, <1>4
  <2> QED
    BY <2>1 DEF LockedPairs
<1> QED
  BY <1>2, <1>4, <1>5, <1>6, <1>7

\* Nothing is locked.
LEMMA LibrariesStart == LibrariesInit => LibrariesInv
<1> SUFFICES ASSUME LibrariesInit PROVE LibrariesInv
  OBVIOUS
<1>1. LockedPairs = {} /\ lockfile \in Lockfiles
  BY DEF LibrariesInit, LockedPairs, Locked, Lockfiles
<1>2. LibrariesTypeOK
  BY <1>1, LibrariesAssumption DEF LibrariesInit, LibrariesTypeOK
<1>3. CommandKnown
  BY DEF LibrariesInit, CommandKnown, Adding, Leaving
<1>4. DirectoriesKnown
  BY <1>1 DEF LibrariesInit, DirectoriesKnown
<1>5. NeedsAreLocked
  BY <1>1 DEF NeedsAreLocked
<1> QED
  BY <1>2, <1>3, <1>4, <1>5 DEF LibrariesInv

\* A step that leaves the lockfile and the command alone goes on within the command.
Continues == UNCHANGED <<lockfile, job, read>>

\* The package of a command and the one it replaces, while the command goes on.
LEMMA SamePairs ==
  ASSUME Continues
  PROVE  LockedPairs' = LockedPairs /\ Package' = Package /\ Previous' = Previous
         /\ \A l \in Libraries : Locked(l)' = Locked(l)
  BY DEF Continues, LockedPairs, Locked, Package, Previous

\* Every step begins a command, writes the lockfile for it, or goes on within it.
LEMMA LibrarySteps ==
  ASSUME LibrariesInv, LibrariesNext
  PROVE  \/ \E j \in Jobs : AddOrUpdate(j) \/ Remove(j)
         \/ LockPackage
         \/ Unlist
         \/ /\ Continues /\ commands' = commands
            /\ step' \in {step, "idle"}
                 \/ <<step, step'>> \in {<<"checked", "staged">>, <<"staged", "placed">>,
                                         <<"leaving", "quarantined">>, <<"quarantined", "restoring">>}
<1>1. CASE Stage \/ PlacePackage \/ LockRefused \/ DropPrevious \/ GiveUp
  BY <1>1 DEF Stage, PlacePackage, LockRefused, DropPrevious, GiveUp, Advances, Continues
<1>2. CASE Quarantine \/ UnlistRefused \/ PutBack \/ Empty \/ Scarred
  BY <1>2 DEF Quarantine, UnlistRefused, PutBack, Empty, Scarred, Advances, Continues
<1> QED
  BY <1>1, <1>2 DEF LibrariesNext

\* What the two writes of the lockfile do to the pairs it names.
LEMMA LockWrites ==
  ASSUME LibrariesInv
  PROVE  /\ LockPackage => /\ job \in Jobs /\ lockfile' \in Lockfiles
                           /\ LockedPairs' = (LockedPairs \ {Previous}) \cup {Package}
                           /\ Package \notin LockedPairs
                           /\ Previous \in LockedPairs <=> job.op = "update"
                           /\ \A m \in Libraries : Locked(m) => Locked(m)'
                           /\ UNCHANGED <<Package, Previous>>
         /\ Unlist => /\ job \in Jobs /\ lockfile' \in Lockfiles
                      /\ LockedPairs' = LockedPairs \ {Package} /\ Package \in LockedPairs
                      /\ \A m \in Libraries : m # job.library => Locked(m)' = Locked(m)
                      /\ UNCHANGED <<Package, Previous>>
<1>1. /\ LibrariesTypeOK
      /\ \A l \in Libraries : <<l, lockfile[l]>> \in LockedPairs <=> Locked(l)
  BY LockedMembers DEF LibrariesInv
<1>2. ASSUME LockPackage
      PROVE  /\ job \in Jobs /\ lockfile' \in Lockfiles
             /\ LockedPairs' = (LockedPairs \ {Previous}) \cup {Package}
             /\ Package \notin LockedPairs
             /\ Previous \in LockedPairs <=> job.op = "update"
             /\ \A m \in Libraries : Locked(m) => Locked(m)'
             /\ UNCHANGED <<Package, Previous>>
  <2>1. /\ job \in Jobs /\ read = lockfile /\ Package \notin LockedPairs
        /\ job.op = "update" <=> Locked(job.library)
    BY <1>2 DEF LibrariesInv, CommandKnown, LockPackage, Advances, Adding
  <2>2. job.library \in Libraries /\ job.version \in Releases /\ job.version # NotLocked
    BY <2>1, LibrariesAssumption DEF Jobs, NotLocked
  <2>3. lockfile' = [lockfile EXCEPT ![job.library] = job.version] /\ UNCHANGED <<job, read>>
    BY <1>2, <2>1 DEF LockPackage, Advances
  <2>4. /\ lockfile' \in Lockfiles
        /\ LockedPairs' = (LockedPairs \ {<<job.library, lockfile[job.library]>>})
                             \cup {<<job.library, job.version>>}
        /\ \A m \in Libraries : Locked(m)' <=> IF m = job.library THEN TRUE ELSE Locked(m)
    BY <1>1, <2>2, <2>3, PairReplaced
  <2>5. Previous = <<job.library, lockfile[job.library]>> /\ Package = <<job.library, job.version>>
    BY <2>1 DEF Previous, Package
  <2>6. UNCHANGED <<Package, Previous>>
    BY <2>3 DEF Previous, Package
  <2> QED
    BY <1>1, <2>1, <2>2, <2>4, <2>5, <2>6
<1>3. ASSUME Unlist
      PROVE  /\ job \in Jobs /\ lockfile' \in Lockfiles
             /\ LockedPairs' = LockedPairs \ {Package} /\ Package \in LockedPairs
             /\ \A m \in Libraries : m # job.library => Locked(m)' = Locked(m)
             /\ UNCHANGED <<Package, Previous>>
  <2>1. /\ job \in Jobs /\ read = lockfile /\ Locked(job.library)
        /\ job.version = lockfile[job.library]
    BY <1>3 DEF LibrariesInv, CommandKnown, Unlist, Advances, Leaving
  <2>2. job.library \in Libraries
    BY <2>1 DEF Jobs
  <2>3. lockfile' = [lockfile EXCEPT ![job.library] = NotLocked] /\ UNCHANGED <<job, read>>
    BY <1>3, <2>1 DEF Unlist, Advances
  <2>4. /\ lockfile' \in Lockfiles
        /\ LockedPairs' = (LockedPairs \ {<<job.library, lockfile[job.library]>>}) \cup {}
        /\ \A m \in Libraries : Locked(m)' <=> IF m = job.library THEN FALSE ELSE Locked(m)
    BY <1>1, <2>2, <2>3, PairReplaced
  <2>5. Package = <<job.library, lockfile[job.library]>> /\ UNCHANGED <<Package, Previous>>
    BY <2>1, <2>3 DEF Package, Previous
  <2>6. \A m \in Libraries : Locked(m)' \in BOOLEAN /\ Locked(m) \in BOOLEAN
    BY DEF Locked
  <2> QED
    BY <1>1, <2>1, <2>2, <2>4, <2>5, <2>6
<1> QED
  BY <1>2, <1>3

\* A command begins on a project that loads.
LEMMA CommandBegins ==
  ASSUME LibrariesInv, NEW j \in Jobs, AddOrUpdate(j) \/ Remove(j)
  PROVE  /\ step = "idle" /\ step' \in {"checked", "leaving"}
         /\ job' = j /\ read' = lockfile /\ commands' = commands + 1 /\ commands < MaxCommands
         /\ UNCHANGED <<lockfile, installed, aside, scars>>
         /\ LockedPairs' = LockedPairs /\ LockedPairs \subseteq installed
         /\ Package' = <<j.library, j.version>> /\ Previous' = <<j.library, lockfile[j.library]>>
         /\ \A l \in Libraries : Locked(l)' = Locked(l)
  BY DEF AddOrUpdate, Remove, Begins, ProjectLoads, LockedPairs, Locked, Package, Previous

\* Every step keeps the types.
LEMMA LibraryTypes ==
  ASSUME LibrariesInv, [LibrariesNext]_libraryVars
  PROVE  LibrariesTypeOK'
<1> USE DEF LibrariesTypeOK
<1>1. LibrariesTypeOK /\ MaxCommands \in Nat
  BY LibrariesAssumption DEF LibrariesInv
<1>2. CASE UNCHANGED libraryVars
  BY <1>1, <1>2 DEF libraryVars
<1>3. ASSUME LibrariesNext
      PROVE  /\ lockfile' \in Lockfiles /\ read' \in Lockfiles
             /\ step' \in InstallSteps \cup RemoveSteps \cup {"idle"}
             /\ job' \in Jobs \cup {NoJob} /\ commands' \in 0..MaxCommands
  <2>1. ASSUME NEW j \in Jobs, AddOrUpdate(j) \/ Remove(j)
        PROVE  /\ lockfile' \in Lockfiles /\ read' \in Lockfiles
               /\ step' \in InstallSteps \cup RemoveSteps \cup {"idle"}
               /\ job' \in Jobs \cup {NoJob} /\ commands' \in 0..MaxCommands
    BY <1>1, <2>1, CommandBegins DEF InstallSteps, RemoveSteps
  <2>2. CASE LockPackage \/ Unlist
    BY <1>1, <2>2, LockWrites DEF LockPackage, Unlist, Advances, InstallSteps, RemoveSteps
  <2>3. CASE Continues /\ commands' = commands /\ step' \in InstallSteps \cup RemoveSteps \cup {"idle"}
    BY <1>1, <2>3 DEF Continues
  <2> QED
    BY <1>1, <1>3, <2>1, <2>2, <2>3, LibrarySteps DEF InstallSteps, RemoveSteps
<1>4. ASSUME LibrariesNext
      PROVE  /\ installed' \subseteq Libraries \X Releases /\ aside' \subseteq Libraries \X Releases
             /\ scars' \subseteq InstallSteps \cup RemoveSteps
  <2>1. step # "idle" => Package \in Libraries \X Releases
    BY DEF LibrariesInv, CommandKnown, Package, Jobs
  <2>2. /\ installed' \subseteq installed \cup {Package}
        /\ aside' \subseteq aside \cup {Package}
        /\ step = "idle" => UNCHANGED <<installed, aside>>
    BY <1>4 DEF LibrariesNext, AddOrUpdate, Remove, Begins, Stage, PlacePackage, LockPackage, LockRefused,
       DropPrevious, GiveUp, Quarantine, Unlist, UnlistRefused, PutBack, Empty, Scarred, Advances
  <2>3. scars' \subseteq scars \cup ({step} \ {"idle"})
    BY <1>4 DEF LibrariesNext, AddOrUpdate, Remove, Begins, Stage, PlacePackage, LockPackage, LockRefused,
       DropPrevious, GiveUp, Quarantine, Unlist, UnlistRefused, PutBack, Empty, Scarred, Advances
  <2> QED
    BY <1>1, <2>1, <2>2, <2>3
<1> QED
  BY <1>2, <1>3, <1>4

\* What a command looked at before it began holds until it writes the lockfile.
LEMMA CommandsStep ==
  ASSUME LibrariesInv, [LibrariesNext]_libraryVars
  PROVE  CommandKnown'
<1> USE DEF CommandKnown
<1>1. CommandKnown /\ LibrariesTypeOK /\ NotLocked \notin Releases
  BY LibrariesAssumption DEF LibrariesInv, NotLocked
<1>2. CASE UNCHANGED libraryVars
  <2>1. Continues /\ step' = step
    BY <1>2 DEF libraryVars, Continues
  <2> QED
    BY <1>1, <2>1, SamePairs DEF Continues, Locked
<1>3. ASSUME NEW j \in Jobs, AddOrUpdate(j)
      PROVE  CommandKnown'
  <2>1. /\ step' \in {"checked", "leaving"} /\ job' = j /\ read' = lockfile /\ UNCHANGED lockfile
        /\ LockedPairs' = LockedPairs /\ LockedPairs \subseteq installed
        /\ Package' = <<j.library, j.version>>
        /\ \A l \in Libraries : Locked(l)' = Locked(l)
    BY <1>1, <1>3, CommandBegins
  <2>2. step' = "checked" /\ <<j.library, j.version>> \notin installed
        /\ Needs[<<j.library, j.version>>] \subseteq LockedPairs
        /\ (j.op = "update" <=> Locked(j.library))
    BY <1>3 DEF AddOrUpdate, Begins
  <2>3. j.library \in Libraries
    BY DEF Jobs
  <2>4. Locked(job.library)' <=> Locked(j.library)
    BY <2>1, <2>3 DEF Locked
  <2> QED
    BY <2>1, <2>2, <2>4 DEF Adding, Leaving
<1>4. ASSUME NEW j \in Jobs, Remove(j)
      PROVE  CommandKnown'
  <2>1. /\ job' = j /\ read' = lockfile /\ UNCHANGED lockfile
        /\ LockedPairs' = LockedPairs
        /\ \A l \in Libraries : Locked(l)' = Locked(l)
    BY <1>1, <1>4, CommandBegins
  <2>2. step' = "leaving" /\ Locked(j.library) /\ j.version = lockfile[j.library]
    BY <1>4 DEF Remove, Begins
  <2>3. ASSUME NEW p \in LockedPairs, p[1] # j.library
        PROVE  \A n \in Needs[p] : n[1] # j.library
    <3>1. p[1] \in Libraries /\ p = <<p[1], lockfile[p[1]]>> /\ Locked(p[1])
      BY <1>1, LockedMembers
    <3> QED
      BY <1>4, <2>3, <3>1 DEF Remove
  <2>4. Locked(job.library)' <=> Locked(j.library)
    BY <2>1 DEF Locked
  <2> QED
    BY <2>1, <2>2, <2>3, <2>4 DEF Adding, Leaving
<1>5. CASE LockPackage
  <2>1. /\ step' \in {"replacing", "idle"} /\ job' = job
    BY <1>5 DEF LockPackage, Advances
  <2>2. /\ job \in Jobs /\ Package \notin LockedPairs /\ UNCHANGED Previous
        /\ LockedPairs' = (LockedPairs \ {Previous}) \cup {Package}
        /\ Previous \in LockedPairs <=> job.op = "update"
    BY <1>5, LockWrites
  <2>3. step' = "replacing" => job.op = "update"
    BY <1>5 DEF LockPackage, Advances
  <2> QED
    BY <2>1, <2>2, <2>3 DEF Adding, Leaving
<1>6. CASE Unlist
  BY <1>6, LockWrites DEF Unlist, Advances, Adding, Leaving
<1>7. CASE Continues
           /\ (step' \in {step, "idle"}
                 \/ <<step, step'>> \in {<<"checked", "staged">>, <<"staged", "placed">>,
                                         <<"leaving", "quarantined">>, <<"quarantined", "restoring">>})
  <2>1. /\ step' # "idle" => step # "idle"
        /\ step' \in Adding => step \in Adding
        /\ step' \in Leaving => step \in Leaving
        /\ step' = "replacing" => step = "replacing"
    BY <1>7 DEF Adding, Leaving
  <2>2. Locked(job.library)' = Locked(job.library)
    BY <1>7 DEF Continues, Locked
  <2>3. UNCHANGED <<lockfile, job, read, LockedPairs, Package, Previous>>
    BY <1>7, SamePairs DEF Continues
  <2> QED
    BY <1>1, <2>1, <2>2, <2>3
<1> QED
  BY <1>2, <1>3, <1>4, <1>5, <1>6, <1>7, LibrarySteps

\* Directories and lockfile change one after the other, and a failure undoes what
\* came first.
LEMMA DirectoriesStep ==
  ASSUME LibrariesInv, [LibrariesNext]_libraryVars
  PROVE  DirectoriesKnown'
<1> USE DEF DirectoriesKnown
<1>1. DirectoriesKnown /\ CommandKnown
  BY DEF LibrariesInv
<1>2. CASE UNCHANGED libraryVars
  <2>1. Continues /\ UNCHANGED <<step, installed, scars>>
    BY <1>2 DEF libraryVars, Continues
  <2> QED
    BY <1>1, <2>1, SamePairs DEF Missing, Surplus
<1>3. ASSUME NEW j \in Jobs, AddOrUpdate(j) \/ Remove(j)
      PROVE  DirectoriesKnown'
  <2>1. /\ step = "idle" /\ step' \in {"checked", "leaving"} /\ UNCHANGED <<installed, scars>>
        /\ LockedPairs' = LockedPairs /\ LockedPairs \subseteq installed
    BY <1>3, CommandBegins
  <2>2. Missing' = {} /\ Surplus' = {} /\ Missing = {} /\ Surplus = {}
    BY <2>1 DEF Missing, Surplus
  <2> QED
    BY <1>1, <2>1, <2>2
<1>4. CASE LockPackage
  <2>1. /\ step = "placed" /\ step' \in {"replacing", "idle"} /\ UNCHANGED <<installed, scars>>
        /\ step' = "idle" => job.op # "update"
    BY <1>4 DEF LockPackage, Advances
  <2>2. /\ LockedPairs' = (LockedPairs \ {Previous}) \cup {Package}
        /\ Previous \in LockedPairs <=> job.op = "update"
        /\ UNCHANGED <<Package, Previous>>
    BY <1>4, LockWrites
  <2>3. Missing = {} /\ Missing' = {} /\ Surplus = {Package}
        /\ (step' = "replacing" => Surplus' = {Previous})
        /\ (step' = "idle" => Surplus' = {})
    BY <2>1, <2>2 DEF Missing, Surplus
  <2> QED
    BY <1>1, <2>1, <2>2, <2>3
<1>5. CASE Unlist
  <2>1. step = "quarantined" /\ step' = "emptying" /\ UNCHANGED <<installed, scars>>
    BY <1>5 DEF Unlist, Advances
  <2>2. LockedPairs' = LockedPairs \ {Package} /\ Package \notin installed
    BY <1>1, <1>5, <2>1, LockWrites
  <2>3. Missing = {Package} /\ Missing' = {} /\ Surplus = {} /\ Surplus' = {}
    BY <2>1 DEF Missing, Surplus
  <2> QED
    BY <1>1, <2>1, <2>2, <2>3
<1>6. CASE Stage \/ GiveUp \/ Empty \/ UnlistRefused
  <2>1. Continues /\ UNCHANGED <<installed, scars>>
    BY <1>6 DEF Stage, GiveUp, Empty, UnlistRefused, Advances, Continues
  <2>2. /\ step' = "quarantined" => step = "quarantined"
        /\ step \notin {"placed", "replacing"} /\ step' \notin {"placed", "replacing"}
        /\ step \in {"quarantined", "restoring"} <=> step' \in {"quarantined", "restoring"}
    BY <1>6 DEF Stage, GiveUp, Empty, UnlistRefused, Advances
  <2> QED
    BY <1>1, <2>1, <2>2, SamePairs DEF Missing, Surplus
<1>7. CASE PlacePackage
  <2>1. Continues /\ step = "staged" /\ step' = "placed" /\ UNCHANGED scars
        /\ installed' = installed \cup {Package}
    BY <1>7 DEF PlacePackage, Advances, Continues
  <2> QED
    BY <1>1, <2>1, SamePairs DEF Missing, Surplus
<1>8. CASE LockRefused
  <2>1. Continues /\ step = "placed" /\ step' = "idle" /\ UNCHANGED scars
        /\ installed' = installed \ {Package}
    BY <1>8 DEF LockRefused, Advances, Continues
  <2>2. Package \notin LockedPairs
    BY <1>1, <2>1 DEF CommandKnown, Adding
  <2> QED
    BY <1>1, <2>1, <2>2, SamePairs DEF Missing, Surplus
<1>9. CASE DropPrevious
  <2>1. Continues /\ step = "replacing" /\ step' = "idle" /\ UNCHANGED scars
        /\ installed' = installed \ {Previous}
    BY <1>9 DEF DropPrevious, Advances, Continues
  <2>2. Previous \notin LockedPairs
    BY <1>1, <2>1 DEF CommandKnown
  <2> QED
    BY <1>1, <2>1, <2>2, SamePairs DEF Missing, Surplus
<1>10. CASE Quarantine
  <2>1. Continues /\ step = "leaving" /\ step' = "quarantined" /\ UNCHANGED scars
        /\ installed' = installed \ {Package}
    BY <1>10 DEF Quarantine, Advances, Continues
  <2> QED
    BY <1>1, <2>1, SamePairs DEF Missing, Surplus
<1>11. CASE PutBack
  <2>1. Continues /\ step = "restoring" /\ step' = "idle" /\ UNCHANGED scars
        /\ installed' = installed \cup {Package}
    BY <1>11 DEF PutBack, Advances, Continues
  <2>2. Package \in LockedPairs
    <3>1. /\ job \in Jobs /\ Locked(job.library) /\ job.version = lockfile[job.library]
      BY <1>1, <2>1 DEF CommandKnown, Leaving
    <3> QED
      BY <3>1, LockedMembers DEF LibrariesInv, Jobs, Package
  <2> QED
    BY <1>1, <2>1, <2>2, SamePairs DEF Missing, Surplus
<1>12. CASE Scarred
  <2>1. Continues /\ step' = "idle" /\ scars' = scars \cup {step} /\ UNCHANGED installed
    BY <1>12 DEF Scarred, Advances, Continues
  <2>2. LockedPairs' = LockedPairs /\ Missing' = {} /\ Surplus' = {}
    BY <2>1, SamePairs DEF Missing, Surplus
  <2>3. scars' \cap {"quarantined", "restoring"} = {} => Missing = {}
    BY <2>1 DEF Missing
  <2>4. scars' \cap {"placed", "replacing"} = {} => Surplus = {}
    BY <2>1 DEF Surplus
  <2>5. scars \subseteq scars'
    BY <2>1
  <2>6. scars' \cap {"quarantined", "restoring"} = {} => LockedPairs' \subseteq installed'
    BY <1>1, <2>1, <2>2, <2>3, <2>5
  <2>7. scars' \cap {"placed", "replacing"} = {} => installed' \subseteq LockedPairs'
    BY <1>1, <2>1, <2>2, <2>4, <2>5
  <2> QED
    BY <2>1, <2>2, <2>6, <2>7
<1> QED
  BY <1>2, <1>3, <1>4, <1>5, <1>6, <1>7, <1>8, <1>9, <1>10, <1>11, <1>12 DEF LibrariesNext

\* What is written into the lockfile has what it needs, and what is taken out is not
\* needed.
LEMMA NeedsStep ==
  ASSUME LibrariesInv, [LibrariesNext]_libraryVars
  PROVE  NeedsAreLocked'
<1> USE DEF NeedsAreLocked
<1>1. NeedsAreLocked /\ CommandKnown /\ LibrariesTypeOK
  BY DEF LibrariesInv
<1>2. \A p \in LockedPairs : p \in Libraries \X Releases /\ Locked(p[1])
  BY <1>1, LockedMembers
<1>3. \A p \in Libraries \X Releases : \A n \in Needs[p] : n \in Libraries \X Releases
  BY LibrariesAssumption
<1>4. CASE UNCHANGED lockfile
  BY <1>1, <1>4 DEF LockedPairs, Locked
<1>5. CASE LockPackage
  <2>1. /\ LockedPairs' = (LockedPairs \ {Previous}) \cup {Package}
        /\ \A m \in Libraries : Locked(m) => Locked(m)'
    BY <1>5, LockWrites
  <2>2. Needs[Package] \subseteq LockedPairs
    BY <1>1, <1>5 DEF CommandKnown, LockPackage, Advances, Adding
  <2>3. ASSUME NEW p \in LockedPairs', NEW n \in Needs[p] PROVE Locked(n[1])'
    <3>1. CASE p = Package
      <4>1. n[1] \in Libraries /\ Locked(n[1])
        BY <1>2, <2>2, <3>1
      <4> QED
        BY <2>1, <4>1
    <3>2. CASE p \in LockedPairs
      <4>1. n[1] \in Libraries /\ Locked(n[1])
        BY <1>1, <1>2, <1>3, <3>2
      <4> QED
        BY <2>1, <4>1
    <3> QED
      BY <2>1, <3>1, <3>2
  <2> QED
    BY <2>3
<1>6. CASE Unlist
  <2>1. /\ LockedPairs' = LockedPairs \ {Package} /\ job \in Jobs
        /\ \A m \in Libraries : m # job.library => Locked(m)' = Locked(m)
    BY <1>6, LockWrites
  <2>2. /\ job.version = lockfile[job.library]
        /\ \A p \in LockedPairs : p[1] # job.library => \A n \in Needs[p] : n[1] # job.library
    BY <1>1, <1>6 DEF CommandKnown, Unlist, Advances, Leaving
  <2>3. ASSUME NEW p \in LockedPairs', NEW n \in Needs[p] PROVE Locked(n[1])'
    <3>1. p \in LockedPairs /\ p # Package
      BY <2>1
    <3>2. p = <<p[1], lockfile[p[1]]>>
      BY <1>1, <3>1, LockedMembers
    <3>3. p[1] # job.library
      BY <2>2, <3>1, <3>2 DEF Package
    <3>4. n[1] \in Libraries /\ Locked(n[1]) /\ n[1] # job.library
      BY <1>1, <1>2, <1>3, <2>2, <3>1, <3>3
    <3> QED
      BY <2>1, <3>4
  <2> QED
    BY <2>3
<1>7. LibrariesNext /\ ~LockPackage /\ ~Unlist => UNCHANGED lockfile
  BY LibrarySteps, CommandBegins DEF Continues
<1> QED
  BY <1>4, <1>5, <1>6, <1>7 DEF libraryVars

\* The strengthening, in every state.
LEMMA LibrariesInductive == LibrariesSpec => []LibrariesInv
<1>1. LibrariesInv /\ [LibrariesNext]_libraryVars => LibrariesInv'
  <2> SUFFICES ASSUME LibrariesInv, [LibrariesNext]_libraryVars PROVE LibrariesInv'
    OBVIOUS
  <2> QED
    BY LibraryTypes, CommandsStep, DirectoriesStep, NeedsStep DEF LibrariesInv
<1> QED
  BY <1>1, LibrariesStart, PTL DEF LibrariesSpec
-----------------------------------------------------------------------------
(* Versions of the SDK. *)

\* Who is under way was told what to do.
TasksGiven == \A p \in Processes : stands[p] # "idle" => task[p] \in Tasks

\* Who is removing the active version did not find it active when it asked.
RemovalsContested ==
  \A p \in Processes :
    stands[p] \in {"checking", "removing"} /\ active # NoVersion /\ Version(p) = active
      => active \in contested

\* Torn commands have somebody who writes them or died over it, and a version is
\* only made active when they were written.
ShimsWritten ==
  /\ shims = "torn" => \E p \in Processes : stands[p] \in {"rewriting", "dead rewriting"}
  /\ shims = "none" => active = NoVersion /\ \A p \in Processes : stands[p] # "activating"

ActiveInPlace == active # NoVersion => active \in contested \/ sdk[active] = "whole"

SdkInv ==
  /\ SdkTypeOK /\ TasksGiven /\ RemovalsContested /\ ShimsWritten /\ ActiveInPlace
  /\ PartialsAccounted

\* No process runs a command.
LEMMA SdkStarts == SdkInit => SdkInv
  BY SdkAssumption
     DEF SdkInit, SdkInv, SdkTypeOK, TasksGiven, RemovalsContested, ShimsWritten, ActiveInPlace,
         PartialsAccounted, Stands, NoTask

\* One process moves at a time, from one stand to another, and keeps its task.
LEMMA SdkMoves ==
  ASSUME SdkInv, NEW p \in Processes, NEW from, NEW to, Step(p, from, to)
  PROVE  /\ stands[p] = from /\ stands'[p] = to /\ task' = task /\ started' = started
         /\ \A q \in Processes : q # p => stands'[q] = stands[q]
         /\ \A q \in Processes : Version(q)' = Version(q)
  BY DEF SdkInv, SdkTypeOK, Step, Version

\* Where processes are, and what they do.
LEMMA StandsStep ==
  ASSUME SdkInv, NEW p \in Processes, CommandStep(p)
  PROVE  /\ stands' \in [Processes -> Stands] /\ task' \in [Processes -> Tasks \cup {NoTask}]
         /\ started' \in 0..MaxSdkCommands
         /\ TasksGiven'
<1>1. /\ stands \in [Processes -> Stands] /\ task \in [Processes -> Tasks \cup {NoTask}]
      /\ started \in 0..MaxSdkCommands /\ MaxSdkCommands \in Nat /\ TasksGiven
  BY SdkAssumption DEF SdkInv, SdkTypeOK
<1>2. CASE Start(p)
  <2>1. PICK t \in Tasks : /\ task' = [task EXCEPT ![p] = t]
                           /\ stands' = [stands EXCEPT ![p] = FirstStand[t.op]]
    BY <1>2 DEF Start
  <2>2. FirstStand[t.op] \in Stands
    <3>1. FirstStand["install"] = "looking" /\ FirstStand["use"] = "using"
          /\ FirstStand["remove"] = "asking"
      BY DEF FirstStand
    <3> QED
      BY <3>1 DEF Tasks, Stands
  <2>3. TasksGiven'
    BY <1>1, <2>1 DEF TasksGiven
  <2>4. started' \in 0..MaxSdkCommands
    BY <1>1, <1>2 DEF Start
  <2> QED
    BY <1>1, <2>1, <2>2, <2>3, <2>4
<1>3. ASSUME NEW to \in Stands, Step(p, stands[p], to), stands[p] # "idle"
      PROVE  /\ stands' \in [Processes -> Stands] /\ task' \in [Processes -> Tasks \cup {NoTask}]
             /\ started' \in 0..MaxSdkCommands
             /\ TasksGiven'
  BY <1>1, <1>3 DEF Step, TasksGiven
<1>4. CommandStep(p) /\ ~Start(p) =>
        stands[p] # "idle" /\ \E to \in Stands : Step(p, stands[p], to)
  <2>1. LooksForVersion(p) => stands[p] # "idle" /\ \E to \in Stands : Step(p, stands[p], to)
    BY DEF LooksForVersion, Step, Stands
  <2>2. Extract(p) \/ AbandonPartial(p) \/ MoveIntoPlace(p)
          => stands[p] # "idle" /\ \E to \in Stands : Step(p, stands[p], to)
    BY DEF Extract, AbandonPartial, MoveIntoPlace, Step, Stands
  <2>3. VerifyToUse(p) \/ TruncateShims(p) \/ WriteShims(p)
          => stands[p] # "idle" /\ \E to \in Stands : Step(p, stands[p], to)
    BY DEF VerifyToUse, TruncateShims, WriteShims, Step, Stands
  <2>4. Activate(p) \/ AskToRemove(p)
          => stands[p] # "idle" /\ \E to \in Stands : Step(p, stands[p], to)
    BY DEF Activate, AskToRemove, Step, Stands
  <2>5. BeginRemoval(p) \/ EndRemoval(p)
          => stands[p] # "idle" /\ \E to \in Stands : Step(p, stands[p], to)
    BY DEF BeginRemoval, EndRemoval, Step, Stands
  <2>6. Dies(p) => stands[p] # "idle" /\ \E to \in Stands : Step(p, stands[p], to)
    BY DEF Dies, Step, Stands
  <2> QED
    BY <2>1, <2>2, <2>3, <2>4, <2>5, <2>6 DEF CommandStep
<1> QED
  BY <1>2, <1>3, <1>4

\* The versions on disk, the active one, the commands and partial directories.
LEMMA DiskTypes ==
  ASSUME SdkInv, NEW p \in Processes, CommandStep(p)
  PROVE  /\ sdk' \in [SdkReleases -> {"absent", "whole", "broken"}]
         /\ active' \in SdkReleases \cup {NoVersion} /\ shims' \in {"none", "torn", "whole"}
         /\ partial' \subseteq Processes /\ contested' \subseteq SdkReleases
<1>1. /\ sdk \in [SdkReleases -> {"absent", "whole", "broken"}]
      /\ active \in SdkReleases \cup {NoVersion} /\ shims \in {"none", "torn", "whole"}
      /\ partial \subseteq Processes /\ contested \subseteq SdkReleases
  BY DEF SdkInv, SdkTypeOK
<1>2. CASE Activate(p)
  <2>1. Version(p) \in SdkReleases
    BY <1>2 DEF Activate, Step, SdkInv, TasksGiven, Tasks, Version
  <2> QED
    BY <1>1, <1>2, <2>1 DEF Activate
<1>3. CASE MoveIntoPlace(p) \/ BeginRemoval(p) \/ EndRemoval(p)
  BY <1>1, <1>3 DEF MoveIntoPlace, BeginRemoval, EndRemoval
<1>4. CASE TruncateShims(p) \/ WriteShims(p)
  BY <1>1, <1>4 DEF TruncateShims, WriteShims
<1>5. CASE Start(p) \/ LooksForVersion(p) \/ Extract(p) \/ AbandonPartial(p)
  BY <1>1, <1>5 DEF Start, LooksForVersion, Extract, AbandonPartial
<1>6. CASE VerifyToUse(p) \/ AskToRemove(p) \/ Dies(p)
  BY <1>1, <1>6 DEF VerifyToUse, AskToRemove, Dies
<1> QED
  BY <1>2, <1>3, <1>4, <1>5, <1>6 DEF CommandStep

\* Processes other than p stay where they are, with what they do.
OthersStay(p) ==
  \A q \in Processes : q # p => stands'[q] = stands[q] /\ task'[q] = task[q]

\* A step of one process leaves the others where they stand.
LEMMA OneMoves ==
  ASSUME SdkInv, NEW p \in Processes, CommandStep(p)
  PROVE  OthersStay(p)
<1>1. stands \in [Processes -> Stands] /\ task \in [Processes -> Tasks \cup {NoTask}]
  BY DEF SdkInv, SdkTypeOK
<1>2. \A from, to : Step(p, from, to) => OthersStay(p)
  BY <1>1 DEF Step, OthersStay
<1>3. Start(p) => OthersStay(p)
  BY <1>1 DEF Start, OthersStay
<1> QED
  BY <1>2, <1>3 DEF CommandStep, LooksForVersion, Extract, AbandonPartial, MoveIntoPlace, VerifyToUse, TruncateShims,
     WriteShims, Activate, AskToRemove, BeginRemoval, EndRemoval, Dies

\* What a process does to the active version, the versions and who is removing one.
LEMMA ActiveStep ==
  ASSUME SdkInv, NEW p \in Processes, CommandStep(p)
  PROVE  RemovalsContested' /\ ActiveInPlace'
<1> USE DEF RemovalsContested, ActiveInPlace
<1>1. /\ sdk \in [SdkReleases -> {"absent", "whole", "broken"}]
      /\ active \in SdkReleases \cup {NoVersion} /\ NoVersion \notin SdkReleases
      /\ stands \in [Processes -> Stands] /\ task \in [Processes -> Tasks \cup {NoTask}]
      /\ TasksGiven /\ RemovalsContested /\ ActiveInPlace
  BY SdkAssumption DEF SdkInv, SdkTypeOK
<1>2. OthersStay(p)
  BY OneMoves
<1>3. \A q \in Processes : q # p => stands'[q] = stands[q] /\ Version(q)' = Version(q)
  BY <1>2 DEF OthersStay, Version
<1>4. ASSUME UNCHANGED <<active, contested>>,
             stands'[p] \notin {"checking", "removing"}
      PROVE  RemovalsContested'
  BY <1>1, <1>3, <1>4
<1>5. CASE Start(p) \/ LooksForVersion(p) \/ Extract(p) \/ AbandonPartial(p)
  <2>1. /\ UNCHANGED <<sdk, active, contested>>
        /\ stands'[p] \notin {"checking", "removing"}
    <3>1. CASE Start(p)
      <4>1. FirstStand["install"] = "looking" /\ FirstStand["use"] = "using"
            /\ FirstStand["remove"] = "asking"
        BY DEF FirstStand
      <4> QED
        BY <1>1, <3>1, <4>1 DEF Start, Tasks
    <3>2. CASE LooksForVersion(p)
      BY <1>1, <3>2 DEF LooksForVersion, Step
    <3>3. CASE Extract(p) \/ AbandonPartial(p)
      BY <1>1, <3>3 DEF Extract, AbandonPartial, Step
    <3> QED
      BY <1>5, <3>1, <3>2, <3>3
  <2> QED
    BY <1>1, <1>4, <2>1
<1>6. CASE MoveIntoPlace(p)
  <2>1. /\ UNCHANGED <<active, contested>> /\ stands'[p] = "shimming"
        /\ sdk' = [sdk EXCEPT ![Version(p)] = "whole"]
    BY <1>1, <1>6 DEF MoveIntoPlace, Step
  <2>2. \A v \in SdkReleases : sdk[v] = "whole" => sdk'[v] = "whole"
    BY <1>1, <2>1
  <2> QED
    BY <1>1, <1>4, <2>1, <2>2
<1>7. CASE VerifyToUse(p) \/ TruncateShims(p) \/ WriteShims(p) \/ Dies(p)
  <2>1. /\ UNCHANGED <<sdk, active, contested>>
        /\ stands'[p] \notin {"checking", "removing"}
    BY <1>1, <1>7 DEF VerifyToUse, TruncateShims, WriteShims, Dies, Step
  <2> QED
    BY <1>1, <1>4, <2>1
<1>8. CASE Activate(p)
  <2>1. /\ stands[p] = "activating" /\ stands'[p] = "idle" /\ active' = Version(p) /\ task' = task
        /\ sdk' = sdk
        /\ contested' = IF UnderRemoval(Version(p)) THEN contested \cup {Version(p)} ELSE contested
    BY <1>1, <1>8 DEF Activate, Step
  <2>2. task[p] \in Tasks /\ Version(p) \in SdkReleases
    BY <1>1, <2>1 DEF TasksGiven, Tasks, Version
  <2>3. ASSUME NEW q \in Processes, stands'[q] \in {"checking", "removing"}, Version(q)' = active'
        PROVE  active' \in contested'
    <3>1. q # p /\ stands[q] \in {"checking", "removing"} /\ Version(q) = Version(p)
      BY <1>3, <2>1, <2>3
    <3>2. task[q] # NoTask
      BY <1>1, <2>2, <3>1 DEF Version, NoTask
    <3>3. UnderRemoval(Version(p))
      BY <3>1, <3>2 DEF UnderRemoval
    <3> QED
      BY <2>1, <3>3
  <2>4. active' \in contested' \/ sdk'[active'] = "whole"
    BY <2>1 DEF UnderRemoval
  <2> QED
    BY <2>3, <2>4
<1>9. CASE AskToRemove(p)
  <2>1. /\ UNCHANGED <<sdk, active, contested>> /\ Version(p)' = Version(p)
        /\ stands'[p] = IF active = Version(p) THEN "idle" ELSE "checking"
    BY <1>1, <1>9 DEF AskToRemove, Step, Version
  <2> QED
    BY <1>1, <1>3, <2>1
<1>10. CASE BeginRemoval(p)
  <2>1. /\ UNCHANGED <<active, contested>> /\ Version(p)' = Version(p)
        /\ stands[p] = "checking"
        /\ sdk' \in {sdk, [sdk EXCEPT ![Version(p)] = "broken"]}
    BY <1>1, <1>10 DEF BeginRemoval, Step, Version
  <2>2. \A v \in SdkReleases : v # Version(p) => sdk'[v] = sdk[v]
    BY <1>1, <2>1
  <2> QED
    BY <1>1, <1>3, <2>1, <2>2
<1>11. CASE EndRemoval(p)
  <2>1. /\ UNCHANGED <<active, contested>> /\ stands[p] = "removing" /\ stands'[p] = "idle"
        /\ sdk' = [sdk EXCEPT ![Version(p)] = "absent"]
    BY <1>1, <1>11 DEF EndRemoval, Step
  <2>2. \A v \in SdkReleases : v # Version(p) => sdk'[v] = sdk[v]
    BY <1>1, <2>1
  <2> QED
    BY <1>1, <1>4, <2>1, <2>2
<1> QED
  BY <1>5, <1>6, <1>7, <1>8, <1>9, <1>10, <1>11 DEF CommandStep

\* Who leaves torn commands behind died over them.
LEMMA ShimsStep ==
  ASSUME SdkInv, NEW p \in Processes, CommandStep(p)
  PROVE  ShimsWritten'
<1> USE DEF ShimsWritten
<1>1. /\ shims \in {"none", "torn", "whole"} /\ stands \in [Processes -> Stands] /\ ShimsWritten
      /\ task \in [Processes -> Tasks \cup {NoTask}]
  BY DEF SdkInv, SdkTypeOK
<1>2. \A q \in Processes : q # p => stands'[q] = stands[q]
  BY OneMoves DEF OthersStay
<1>3. ASSUME UNCHANGED <<shims, active>>, stands'[p] # "activating",
             stands[p] \in {"rewriting", "dead rewriting"} => stands'[p] = "dead rewriting"
      PROVE  ShimsWritten'
  <2>1. ASSUME shims = "torn"
        PROVE  \E q \in Processes : stands'[q] \in {"rewriting", "dead rewriting"}
    <3>1. PICK q \in Processes : stands[q] \in {"rewriting", "dead rewriting"}
      BY <1>1, <2>1
    <3>2. stands'[q] \in {"rewriting", "dead rewriting"}
      BY <1>2, <1>3, <3>1
    <3> QED
      BY <3>2
  <2>2. ASSUME shims = "none"
        PROVE  active = NoVersion /\ \A q \in Processes : stands'[q] # "activating"
    BY <1>1, <1>2, <1>3, <2>2
  <2> QED
    BY <1>3, <2>1, <2>2
<1>4. CASE Start(p)
  <2>1. /\ UNCHANGED <<shims, active>> /\ stands[p] = "idle"
        /\ stands'[p] \in {"looking", "using", "asking"}
    <3>1. FirstStand["install"] = "looking" /\ FirstStand["use"] = "using"
          /\ FirstStand["remove"] = "asking"
      BY DEF FirstStand
    <3> QED
      BY <1>1, <1>4, <3>1 DEF Start, Tasks
  <2> QED
    BY <1>3, <2>1
<1>5. CASE LooksForVersion(p) \/ Extract(p) \/ AbandonPartial(p) \/ MoveIntoPlace(p)
  <2>1. /\ UNCHANGED <<shims, active>> /\ stands'[p] # "activating"
        /\ stands[p] \notin {"rewriting", "dead rewriting"}
    BY <1>1, <1>5 DEF LooksForVersion, Extract, AbandonPartial, MoveIntoPlace, Step
  <2> QED
    BY <1>3, <2>1
<1>6. CASE VerifyToUse(p) \/ AskToRemove(p) \/ BeginRemoval(p) \/ EndRemoval(p)
  <2>1. /\ UNCHANGED <<shims, active>> /\ stands'[p] # "activating"
        /\ stands[p] \notin {"rewriting", "dead rewriting"}
    BY <1>1, <1>6 DEF VerifyToUse, AskToRemove, BeginRemoval, EndRemoval, Step
  <2> QED
    BY <1>3, <2>1
<1>7. CASE Dies(p)
  <2>1. /\ UNCHANGED <<shims, active>> /\ stands[p] # "dead rewriting"
        /\ stands'[p] = IF stands[p] = "rewriting" THEN "dead rewriting" ELSE "dead"
    BY <1>1, <1>7 DEF Dies, Step
  <2> QED
    BY <1>3, <2>1
<1>8. CASE TruncateShims(p)
  <2>1. shims' = "torn" /\ stands'[p] = "rewriting"
    BY <1>1, <1>8 DEF TruncateShims, Step
  <2> QED
    BY <2>1
<1>9. CASE WriteShims(p)
  BY <1>9 DEF WriteShims
<1>10. CASE Activate(p)
  <2>1. /\ stands[p] = "activating" /\ shims' = shims /\ stands'[p] = "idle"
    BY <1>1, <1>10 DEF Activate, Step
  <2>2. shims # "none"
    BY <1>1, <2>1
  <2>3. ASSUME shims = "torn"
        PROVE  \E q \in Processes : stands'[q] \in {"rewriting", "dead rewriting"}
    <3>1. PICK q \in Processes : stands[q] \in {"rewriting", "dead rewriting"}
      BY <1>1, <2>3
    <3>2. q # p
      BY <2>1, <3>1
    <3> QED
      BY <1>2, <3>1, <3>2
  <2> QED
    BY <2>1, <2>2, <2>3
<1> QED
  BY <1>4, <1>5, <1>6, <1>7, <1>8, <1>9, <1>10 DEF CommandStep

\* A partial directory goes with whoever made it.
LEMMA PartialsStep ==
  ASSUME SdkInv, NEW p \in Processes, CommandStep(p)
  PROVE  PartialsAccounted'
<1> USE DEF PartialsAccounted
<1>1. /\ partial \subseteq Processes /\ stands \in [Processes -> Stands] /\ PartialsAccounted
  BY DEF SdkInv, SdkTypeOK
<1>2. \A q \in Processes : q # p => stands'[q] = stands[q]
  BY OneMoves DEF OthersStay
<1>3. /\ \A q \in Processes : q # p => (q \in partial' => q \in partial)
      /\ p \in partial' => stands'[p] \in {"staging", "moving", "dead"}
      /\ partial' \subseteq Processes
  <2>1. CASE Start(p)
    BY <1>1, <2>1 DEF Start
  <2>2. CASE LooksForVersion(p)
    BY <1>1, <2>2 DEF LooksForVersion, Step
  <2>3. CASE Extract(p)
    BY <1>1, <2>3 DEF Extract, Step
  <2>4. CASE AbandonPartial(p) \/ MoveIntoPlace(p)
    BY <1>1, <2>4 DEF AbandonPartial, MoveIntoPlace
  <2>5. CASE VerifyToUse(p) \/ TruncateShims(p) \/ WriteShims(p)
    BY <1>1, <2>5 DEF VerifyToUse, TruncateShims, WriteShims, Step
  <2>6. CASE Activate(p) \/ AskToRemove(p) \/ BeginRemoval(p) \/ EndRemoval(p)
    BY <1>1, <2>6 DEF Activate, AskToRemove, BeginRemoval, EndRemoval, Step
  <2>7. CASE Dies(p)
    BY <1>1, <2>7 DEF Dies, Step
  <2> QED
    BY <2>1, <2>2, <2>3, <2>4, <2>5, <2>6, <2>7 DEF CommandStep
<1> QED
  BY <1>1, <1>2, <1>3

\* The strengthening, in every state.
LEMMA SdkInductive == SdkVersionsSpec => []SdkInv
<1>1. SdkInv /\ [SdkVersionsNext]_sdkVars => SdkInv'
  <2> SUFFICES ASSUME SdkInv, [SdkVersionsNext]_sdkVars PROVE SdkInv'
    OBVIOUS
  <2>1. ASSUME NEW p \in Processes, CommandStep(p) PROVE SdkInv'
    BY <2>1, StandsStep, DiskTypes, ActiveStep, ShimsStep, PartialsStep DEF SdkInv, SdkTypeOK
  <2>2. CASE UNCHANGED sdkVars
    BY <2>2 DEF sdkVars, SdkInv, SdkTypeOK, TasksGiven, RemovalsContested, ShimsWritten,
       ActiveInPlace, PartialsAccounted, Version
  <2> QED
    BY <2>1, <2>2 DEF SdkVersionsNext
<1> QED
  BY <1>1, SdkStarts, PTL DEF SdkVersionsSpec
-----------------------------------------------------------------------------
\* The lockfile, the directories and the command keep their types.
THEOREM LibrariesTypeCorrect == LibrariesSpec => []LibrariesTypeOK
<1>1. LibrariesInv => LibrariesTypeOK
  BY DEF LibrariesInv
<1> QED
  BY <1>1, LibrariesInductive, PTL

\* What is installed of the SDK, and the commands that install it, keep their types.
THEOREM VersionsTypeCorrect == SdkVersionsSpec => []SdkTypeOK
<1>1. SdkInv => SdkTypeOK
  BY DEF SdkInv
<1> QED
  BY <1>1, SdkInductive, PTL

\* project/library-packages.mjs and release/luastra-install.mjs: wherever commands
\* fail or die, what is locked is installed and has what it needs, and what is active
\* is there as a whole, up to the deaths and overlaps InstallsHold names.
THEOREM InstalledIsWhole == LibrariesSpec /\ SdkVersionsSpec => []InstallsHold
<1>1. LibrariesInv => LibrariesHold
  <2> SUFFICES ASSUME LibrariesInv PROVE LibrariesHold
    OBVIOUS
  <2>1. LockedIsInstalled
    BY DEF LibrariesInv, DirectoriesKnown, LockedIsInstalled, Missing, InstallSteps
  <2>2. FailuresLeaveNothing
    BY DEF LibrariesInv, DirectoriesKnown, FailuresLeaveNothing, Surplus
  <2> QED
    BY <2>1, <2>2 DEF LibrariesHold, LibrariesInv
<1>2. SdkInv => VersionsHold
  <2> SUFFICES ASSUME SdkInv PROVE VersionsHold
    OBVIOUS
  <2>1. ActiveIsWhole
    BY DEF SdkInv, SdkTypeOK, ActiveIsWhole, ActiveInPlace, ShimsWritten
  <2> QED
    BY <2>1 DEF VersionsHold, SdkInv
<1>3. LibrariesHold /\ VersionsHold => InstallsHold
  BY DEF InstallsHold
<1> QED
  BY <1>1, <1>2, <1>3, LibrariesInductive, SdkInductive, PTL
-----------------------------------------------------------------------------
(* The replacement of a build output. *)

USE OutputAssumption DEF NoOutput, Nobody, Foreign, Outputs

Working == {"locked", "building", "checking", "moving", "placing", "restoring"}
AtWork(b) == place[b] \in Working
Living(b) == AtWork(b) \/ place[b] \in {"cleaning", "unlocking"}

\* Who lives has the lock, and its build is the last one that got it.
LockOfTheLiving == \A b \in Builders : Living(b) => lock = b /\ build[b] = builds

\* Builds have their numbers to themselves.
BuildsDiffer ==
  /\ \A b \in Builders : build[b] <= builds
  /\ \A b, c \in Builders : b # c /\ build[b] # 0 => build[b] # build[c]
  /\ \A b \in Builders : Living(b) => build[b] # 0

\* What a workspace keeps is older than its build, and its backup path is set.
KeptIsOlder ==
  \A b \in Builders : kept[b] # NoOutput =>
    /\ b \in backup /\ build[b] # 0
    /\ kept[b] # Foreign => kept[b] < build[b]

\* The backup path is set only in a workspace that stays, and to replace or to
\* restore is to hold the previous output.
BackupIsKept ==
  \A b \in Builders :
    /\ b \in backup => b \in workspace
    /\ AtWork(b) /\ place[b] # "locked" => b \in workspace
    /\ place[b] \in {"locked", "building", "checking"} => b \notin backup
    /\ place[b] \in {"moving", "restoring"} => b \in backup
    /\ place[b] \in {"placing", "restoring"} /\ b \in backup => kept[b] # NoOutput
    /\ place[b] = "unlocking" /\ b \in workspace => b \in backup
    /\ place[b] = "idle" => b \notin backup /\ b \notin workspace

\* The output comes from a build before those at work, which wrote a candidate
\* before they replace it.
OutputIsOlder ==
  /\ output # Foreign => output <= builds
  /\ output # Foreign => \A b \in Builders : AtWork(b) => output < build[b]
  /\ \A b \in Builders :
       place[b] \in {"checking", "moving", "placing"} => build[b] \in candidates

OutputInv ==
  /\ OutputTypeOK /\ LockOfTheLiving /\ BuildsDiffer
  /\ KeptIsOlder /\ BackupIsKept /\ OutputIsOlder
-----------------------------------------------------------------------------
\* The directories, the lock and the builders keep their types.
LEMMA OutputTypes == OutputInv /\ [OutputNext]_outputVars => OutputTypeOK'
<1> SUFFICES ASSUME OutputInv, [OutputNext]_outputVars PROVE OutputTypeOK'
  OBVIOUS
<1> USE DEF OutputInv, OutputTypeOK, Places, Spent, Goes
<1>1. ASSUME NEW b \in Builders, TakeLock(b)
      PROVE  OutputTypeOK'
  BY <1>1 DEF TakeLock
<1>2. ASSUME NEW b \in Builders, Build(b)
      PROVE  OutputTypeOK'
  <2>1. build[b] \in 1..MaxBuilds
    BY <1>2 DEF Build, BuildsDiffer, Living, AtWork, Working
  <2> QED
    BY <1>2, <2>1 DEF Build
<1>3. ASSUME NEW b \in Builders, Inspect(b)
      PROVE  OutputTypeOK'
  BY <1>3 DEF Inspect
<1>4. ASSUME NEW b \in Builders, Check(b)
      PROVE  OutputTypeOK'
  <2>1. /\ place' \in [Builders -> Places] /\ backup' \subseteq Builders
    BY <1>4 DEF Check
  <2> QED
    BY <1>4, <2>1 DEF Check
<1>5. ASSUME NEW b \in Builders, MoveAway(b) \/ Place(b) \/ Restore(b)
      PROVE  OutputTypeOK'
  <2>1. place' \in [Builders -> Places] /\ output' \in Outputs
    BY <1>5 DEF MoveAway, Place, Restore
  <2>2. kept' \in [Builders -> Outputs] /\ backup' \subseteq Builders
    BY <1>5 DEF MoveAway, Place, Restore
  <2> QED
    BY <1>5, <2>1, <2>2 DEF MoveAway, Place, Restore
<1>6. ASSUME NEW b \in Builders, CannotPlace(b) \/ Raise(b)
      PROVE  OutputTypeOK'
  <2>1. place' \in [Builders -> Places]
    BY <1>6 DEF CannotPlace, Raise
  <2> QED
    BY <1>6, <2>1 DEF CannotPlace, Raise
<1>7. ASSUME NEW b \in Builders, Clean(b)
      PROVE  OutputTypeOK'
  BY <1>7 DEF Clean
<1>8. ASSUME NEW b \in Builders, CannotClean(b) \/ Unlock(b) \/ CannotUnlock(b) \/ Die(b)
      PROVE  OutputTypeOK'
  <2>1. place' \in [Builders -> Places]
    BY <1>8 DEF CannotClean, Unlock, CannotUnlock, Die
  <2> QED
    BY <1>8, <2>1 DEF CannotClean, Unlock, CannotUnlock, Die
<1>9. ASSUME NEW b \in Builders, RecoverByHand(b)
      PROVE  OutputTypeOK'
  BY <1>9 DEF RecoverByHand
<1>10. CASE RemoveStaleLock
  BY <1>10 DEF RemoveStaleLock
<1>11. CASE MeddleWithOutput
  BY <1>11 DEF MeddleWithOutput
<1>12. CASE UNCHANGED outputVars
  BY <1>12 DEF outputVars
<1> QED
  BY <1>1, <1>2, <1>3, <1>4, <1>5, <1>6, <1>7, <1>8, <1>9, <1>10, <1>11, <1>12
     DEF OutputNext, BuilderStep

\* Two builders are never alive at once, and numbers of builds are not shared.
LEMMA LocksStep ==
  OutputInv /\ [OutputNext]_outputVars => (LockOfTheLiving /\ BuildsDiffer)'
<1> SUFFICES ASSUME OutputInv, [OutputNext]_outputVars
             PROVE  (LockOfTheLiving /\ BuildsDiffer)'
  OBVIOUS
<1> USE DEF OutputInv, OutputTypeOK, Goes, LockOfTheLiving, BuildsDiffer, Living, AtWork,
            Working, Spent
<1>1. ASSUME NEW b \in Builders, TakeLock(b)
      PROVE  (LockOfTheLiving /\ BuildsDiffer)'
  BY <1>1 DEF TakeLock
<1>2. ASSUME NEW b \in Builders,
             \/ Inspect(b) \/ Build(b) \/ Check(b) \/ MoveAway(b) \/ Place(b)
             \/ CannotPlace(b) \/ Restore(b) \/ Raise(b) \/ Clean(b)
      PROVE  (LockOfTheLiving /\ BuildsDiffer)'
  <2>1. /\ Living(b) /\ \A c \in Builders : Living(c)' => Living(c)
        /\ UNCHANGED <<lock, build, builds>>
    BY <1>2 DEF Inspect, Build, Check, MoveAway, Place, CannotPlace, Restore, Raise, Clean
  <2> QED
    BY <2>1
<1>3. ASSUME NEW b \in Builders, CannotClean(b) \/ Unlock(b) \/ CannotUnlock(b) \/ Die(b)
      PROVE  (LockOfTheLiving /\ BuildsDiffer)'
  BY <1>3 DEF CannotClean, Unlock, CannotUnlock, Die
<1>4. ASSUME UNCHANGED <<place, build, builds>>,
             lock' = lock \/ (lock # Nobody /\ place[lock] \in Spent)
      PROVE  (LockOfTheLiving /\ BuildsDiffer)'
  BY <1>4
<1> QED
  BY <1>1, <1>2, <1>3, <1>4
     DEF OutputNext, BuilderStep, RecoverByHand, RemoveStaleLock, MeddleWithOutput,
         outputVars

\* What a workspace keeps stays older than its build.
LEMMA KeptStep ==
  OutputInv /\ [OutputNext]_outputVars => (KeptIsOlder /\ BackupIsKept)'
<1> SUFFICES ASSUME OutputInv, [OutputNext]_outputVars
             PROVE  (KeptIsOlder /\ BackupIsKept)'
  OBVIOUS
<1> USE DEF OutputInv, OutputTypeOK, Goes, KeptIsOlder, BackupIsKept, AtWork, Working
<1>1. ASSUME NEW b \in Builders, TakeLock(b)
      PROVE  (KeptIsOlder /\ BackupIsKept)'
  BY <1>1 DEF TakeLock
<1>2. ASSUME NEW b \in Builders, Inspect(b)
      PROVE  (KeptIsOlder /\ BackupIsKept)'
  BY <1>2 DEF Inspect
<1>3. ASSUME NEW b \in Builders, Build(b) \/ Raise(b) \/ CannotPlace(b) \/ Die(b)
      PROVE  (KeptIsOlder /\ BackupIsKept)'
  BY <1>3 DEF Build, Raise, CannotPlace, Die, Spent
<1>4. ASSUME NEW b \in Builders, Check(b)
      PROVE  (KeptIsOlder /\ BackupIsKept)'
  <2>1. /\ place[b] = "checking" /\ place' \in [Builders -> Places]
        /\ \A c \in Builders \ {b} : place'[c] = place[c]
        /\ UNCHANGED <<build, workspace, kept>>
    BY <1>4 DEF Check, Places
  <2>2. \/ place'[b] = "placing" /\ backup' = backup
        \/ place'[b] = "moving" /\ backup' = backup \cup {b}
    BY <1>4 DEF Check
  <2>3. b \notin backup
    BY <2>1 DEF Places
  <2> QED
    BY <2>1, <2>2, <2>3
<1>5. ASSUME NEW b \in Builders, MoveAway(b)
      PROVE  (KeptIsOlder /\ BackupIsKept)'
  <2>1. /\ place[b] = "moving" /\ place'[b] = "placing" /\ kept'[b] = output
        /\ output # NoOutput
        /\ \A c \in Builders \ {b} : place'[c] = place[c] /\ kept'[c] = kept[c]
        /\ UNCHANGED <<build, workspace, backup>>
    BY <1>5 DEF MoveAway
  <2>2. build[b] # 0 /\ (output # Foreign => output < build[b])
    BY <2>1 DEF OutputIsOlder, BuildsDiffer, Living
  <2>3. b \in backup
    BY <2>1
  <2> QED
    BY <2>1, <2>2, <2>3
<1>6. ASSUME NEW b \in Builders, Place(b) \/ Restore(b)
      PROVE  (KeptIsOlder /\ BackupIsKept)'
  BY <1>6 DEF Place, Restore
<1>7. ASSUME NEW b \in Builders, Clean(b)
      PROVE  (KeptIsOlder /\ BackupIsKept)'
  BY <1>7 DEF Clean, CleansUp
<1>8. ASSUME NEW b \in Builders, CannotClean(b) \/ Unlock(b) \/ CannotUnlock(b)
      PROVE  (KeptIsOlder /\ BackupIsKept)'
  BY <1>8 DEF CannotClean, Unlock, CannotUnlock
<1>9. ASSUME NEW b \in Builders, RecoverByHand(b)
      PROVE  (KeptIsOlder /\ BackupIsKept)'
  BY <1>9 DEF RecoverByHand, Spent
<1>10. ASSUME UNCHANGED <<place, build, backup, workspace, kept>>
       PROVE  (KeptIsOlder /\ BackupIsKept)'
  BY <1>10
<1> QED
  BY <1>1, <1>2, <1>3, <1>4, <1>5, <1>6, <1>7, <1>8, <1>9, <1>10
     DEF OutputNext, BuilderStep, RemoveStaleLock, MeddleWithOutput, outputVars

\* The output stays older than what is at work.
LEMMA OutputStep == OutputInv /\ [OutputNext]_outputVars => OutputIsOlder'
<1> SUFFICES ASSUME OutputInv, [OutputNext]_outputVars PROVE OutputIsOlder'
  OBVIOUS
<1> USE DEF OutputInv, OutputTypeOK, Goes, OutputIsOlder, AtWork, Working
<1>1. ASSUME NEW b \in Builders, TakeLock(b)
      PROVE  OutputIsOlder'
  BY <1>1 DEF TakeLock, LockOfTheLiving, Living
<1>2. ASSUME NEW b \in Builders,
             \/ Inspect(b) \/ Build(b) \/ Check(b) \/ CannotPlace(b) \/ Raise(b)
             \/ Clean(b) \/ CannotClean(b) \/ Unlock(b) \/ CannotUnlock(b) \/ Die(b)
      PROVE  OutputIsOlder'
  BY <1>2 DEF Inspect, Build, Check, CannotPlace, Raise, Clean, CannotClean, Unlock,
              CannotUnlock, Die
<1>3. ASSUME NEW b \in Builders, MoveAway(b)
      PROVE  OutputIsOlder'
  BY <1>3 DEF MoveAway, BuildsDiffer, Living
<1>4. ASSUME NEW b \in Builders, Place(b) \/ Restore(b)
      PROVE  OutputIsOlder'
  <2>1. \A c \in Builders : ~AtWork(c)'
    BY <1>4 DEF Place, Restore, LockOfTheLiving, Living
  <2>2. output' # Foreign => output' <= build[b] /\ build[b] <= builds
    BY <1>4 DEF Place, Restore, KeptIsOlder, BuildsDiffer
  <2> QED
    BY <1>4, <2>1, <2>2 DEF Place, Restore
<1>5. ASSUME NEW b \in Builders, RecoverByHand(b)
      PROVE  OutputIsOlder'
  <2>1. \A c \in Builders : ~AtWork(c)
    BY <1>5 DEF RecoverByHand, LockOfTheLiving, Living
  <2>2. output' # Foreign => output' <= build[b] /\ build[b] <= builds
    BY <1>5 DEF RecoverByHand, NewestKept, KeptIsOlder, BuildsDiffer
  <2> QED
    BY <1>5, <2>1, <2>2 DEF RecoverByHand
<1>6. CASE MeddleWithOutput
  BY <1>6 DEF MeddleWithOutput, BuildsDiffer, Living
<1>7. ASSUME UNCHANGED <<output, place, build, builds, candidates>>
      PROVE  OutputIsOlder'
  BY <1>7
<1> QED
  BY <1>1, <1>2, <1>3, <1>4, <1>5, <1>6, <1>7
     DEF OutputNext, BuilderStep, RemoveStaleLock, outputVars

\* The inductive invariant of the replacement holds in every reachable state.
LEMMA OutputInductive == OutputSpec => []OutputInv
<1>1. OutputInit => OutputInv
  BY DEF OutputInit, OutputInv, OutputTypeOK, LockOfTheLiving, BuildsDiffer, KeptIsOlder,
         BackupIsKept, OutputIsOlder, Places, Living, AtWork, Working
<1>2. OutputInv /\ [OutputNext]_outputVars => OutputInv'
  BY OutputTypes, LocksStep, KeptStep, OutputStep DEF OutputInv
<1> QED
  BY <1>1, <1>2, PTL DEF OutputSpec
-----------------------------------------------------------------------------
\* The newest workspace that keeps an output is one.
LEMMA NewestIsOne ==
  ASSUME OutputInv, NEW b \in NewestKept
  PROVE  NewestKept = {b}
<1> SUFFICES ASSUME NEW c \in NewestKept, c # b PROVE FALSE
  OBVIOUS
<1>1. /\ b \in Builders /\ c \in Builders
      /\ build[b] <= build[c] /\ build[c] <= build[b]
      /\ build[b] \in Nat /\ build[c] \in Nat /\ build[b] # 0
  BY DEF NewestKept, OutputInv, OutputTypeOK, KeptIsOlder
<1> QED
  BY <1>1 DEF OutputInv, BuildsDiffer

\* When there is no output, what is recoverable is what the newest workspace keeps.
LEMMA RecoverableIsNewest ==
  ASSUME OutputInv, output = NoOutput, NEW b \in NewestKept
  PROVE  Recoverable = kept[b]
BY NewestIsOne DEF Recoverable

\* A step that leaves the output and what is kept of it leaves what is recoverable.
LEMMA RecoverableUndisturbed ==
  ASSUME OutputInv, output' = output, kept' = kept,
         \A b \in Builders : kept[b] # NoOutput => build'[b] = build[b]
  PROVE  Recoverable' = Recoverable
<1>1. NewestKept' = NewestKept
  BY DEF NewestKept
<1>2. CASE NewestKept = {}
  BY <1>1, <1>2 DEF Recoverable
<1>3. ASSUME NEW b \in NewestKept
      PROVE  Recoverable' = Recoverable
  <2>1. NewestKept = {b}
    BY <1>3, NewestIsOne
  <2> QED
    BY <1>1, <2>1 DEF Recoverable
<1> QED
  BY <1>2, <1>3

\* The one who replaces an output has the newest workspace, if it keeps one.
LEMMA LastIsNewest ==
  ASSUME OutputInv, NEW b \in Builders, Living(b), kept[b] # NoOutput
  PROVE  b \in NewestKept
BY DEF OutputInv, OutputTypeOK, LockOfTheLiving, BuildsDiffer, NewestKept

\* Whatever is kept of earlier builds is older than a build that is placed.
LEMMA RecoverableIsOlder ==
  ASSUME OutputInv, NEW b \in Builders, Living(b), output = NoOutput,
         Recoverable \in 1..MaxBuilds
  PROVE  Recoverable < build[b]
<1>1. NewestKept # {}
  BY DEF Recoverable
<1>2. PICK c \in NewestKept : TRUE
  BY <1>1
<1>3. Recoverable = kept[c] /\ kept[c] # NoOutput /\ c \in Builders
  BY <1>2, RecoverableIsNewest DEF NewestKept
<1>4. kept[c] < build[c] /\ build[c] <= builds /\ build[b] = builds
  BY <1>3 DEF OutputInv, KeptIsOlder, BuildsDiffer, LockOfTheLiving
<1>5. build[c] \in Nat /\ build[b] \in Nat /\ kept[c] \in Nat
  BY <1>3 DEF OutputInv, OutputTypeOK
<1> QED
  BY <1>3, <1>4, <1>5

\* Every step of the file operations is a step of the promise, or none.
LEMMA StepKeepsPromise ==
  OutputInv /\ OutputInv' /\ [OutputNext]_outputVars
    => [Promise!PromiseNext]_(Promise!promiseVars)
<1> SUFFICES ASSUME OutputInv, OutputInv', [OutputNext]_outputVars
             PROVE  \/ Promise!PromiseNext
                    \/ UNCHANGED <<Recoverable, candidates, meddles>>
  BY DEF Promise!promiseVars
<1> USE DEF Goes
<1>1. ASSUME NEW b \in Builders, TakeLock(b)
      PROVE  UNCHANGED <<Recoverable, candidates, meddles>>
  <2>1. kept[b] = NoOutput
    BY <1>1 DEF TakeLock, OutputInv, KeptIsOlder, BackupIsKept
  <2>2. \A c \in Builders \ {b} : build'[c] = build[c]
    BY <1>1 DEF TakeLock, OutputInv, OutputTypeOK
  <2> QED
    BY <1>1, <2>1, <2>2, RecoverableUndisturbed DEF TakeLock
<1>2. ASSUME UNCHANGED <<output, kept, build, candidates, meddles>>
      PROVE  UNCHANGED <<Recoverable, candidates, meddles>>
  BY <1>2, RecoverableUndisturbed
<1>3. ASSUME NEW b \in Builders, Build(b)
      PROVE  Promise!PromiseNext
  <2>1. build[b] \in 1..MaxBuilds
    BY <1>3 DEF Build, OutputInv, OutputTypeOK, BuildsDiffer, Living, AtWork, Working
  <2>2. Recoverable' = Recoverable
    BY <1>3, RecoverableUndisturbed DEF Build
  <2>3. Promise!Complete(build[b])
    BY <1>3, <2>2 DEF Build, Promise!Complete
  <2> QED
    BY <2>1, <2>3 DEF Promise!PromiseNext
<1>4. ASSUME NEW b \in Builders, MoveAway(b)
      PROVE  UNCHANGED <<Recoverable, candidates, meddles>>
  <2>1. /\ output # NoOutput /\ output' = NoOutput /\ kept'[b] = output
        /\ Living(b)' /\ UNCHANGED <<candidates, meddles>>
    BY <1>4 DEF MoveAway, OutputInv, OutputTypeOK, Living, AtWork, Working
  <2>2. \A c \in Builders \ {b} : kept'[c] # NoOutput =>
          build'[c] \in Nat /\ build'[b] \in Nat /\ build'[c] < build'[b]
    BY <2>1 DEF OutputInv, OutputTypeOK, LockOfTheLiving, BuildsDiffer, KeptIsOlder
  <2>3. NewestKept' = {b}
    BY <2>1, <2>2 DEF OutputInv, OutputTypeOK, NewestKept
  <2>4. Recoverable' = kept'[b]
    BY <2>1, <2>3 DEF Recoverable
  <2>5. Recoverable = output
    BY <2>1 DEF Recoverable
  <2> QED
    BY <2>1, <2>4, <2>5
<1>5. ASSUME NEW b \in Builders, Place(b)
      PROVE  Promise!PromiseNext
  <2>1. output = NoOutput /\ output' = build[b] /\ UNCHANGED <<candidates, meddles>>
    BY <1>5 DEF Place
  <2>2. /\ build[b] \in 1..MaxBuilds /\ build[b] \in candidates /\ Living(b)
    BY <1>5 DEF Place, OutputInv, OutputTypeOK, OutputIsOlder, BuildsDiffer, Living,
                AtWork, Working
  <2>3. Recoverable' = build[b]
    BY <2>1, <2>2 DEF Recoverable
  <2>4. Recoverable \in 1..MaxBuilds => build[b] > Recoverable
    BY <2>1, <2>2, RecoverableIsOlder
  <2>5. Promise!Publish(build[b])
    BY <2>1, <2>2, <2>3, <2>4 DEF Promise!Publish
  <2> QED
    BY <2>2, <2>5 DEF Promise!PromiseNext
<1>6. ASSUME NEW b \in Builders, Restore(b)
      PROVE  UNCHANGED <<Recoverable, candidates, meddles>>
  <2>1. /\ output = NoOutput /\ output' = kept[b] /\ Living(b) /\ kept[b] # NoOutput
        /\ UNCHANGED <<candidates, meddles>>
    BY <1>6 DEF Restore, OutputInv, BackupIsKept, Living, AtWork, Working
  <2>2. Recoverable = kept[b]
    BY <2>1, LastIsNewest, RecoverableIsNewest
  <2>3. Recoverable' = output'
    BY <2>1 DEF Recoverable
  <2> QED
    BY <2>1, <2>2, <2>3
<1>7. ASSUME NEW b \in Builders, Clean(b)
      PROVE  UNCHANGED <<Recoverable, candidates, meddles>>
  <2>1. kept' = kept
    BY <1>7 DEF Clean, CleansUp, OutputInv, OutputTypeOK, KeptIsOlder
  <2> QED
    BY <1>7, <2>1, RecoverableUndisturbed DEF Clean
<1>8. ASSUME NEW b \in Builders, RecoverByHand(b)
      PROVE  UNCHANGED <<Recoverable, candidates, meddles>>
  <2>1. /\ output = NoOutput /\ output' = kept[b] /\ kept[b] # NoOutput
        /\ b \in NewestKept /\ UNCHANGED <<candidates, meddles>>
    BY <1>8 DEF RecoverByHand, NewestKept
  <2>2. Recoverable = kept[b]
    BY <2>1, RecoverableIsNewest
  <2>3. Recoverable' = output'
    BY <2>1 DEF Recoverable
  <2> QED
    BY <2>1, <2>2, <2>3
<1>9. CASE MeddleWithOutput
  BY <1>9 DEF MeddleWithOutput, Promise!PromiseNext, Promise!Meddle
<1> QED
  BY <1>1, <1>2, <1>3, <1>4, <1>5, <1>6, <1>7, <1>8, <1>9
     DEF OutputNext, BuilderStep, Inspect, Check, CannotPlace, Raise, CannotClean, Unlock,
         CannotUnlock, Die, RemoveStaleLock, outputVars
-----------------------------------------------------------------------------
\* The directories, the lock and the builders keep their types.
THEOREM OutputTypeCorrect == OutputSpec => []OutputTypeOK
<1>1. OutputInv => OutputTypeOK
  BY DEF OutputInv
<1> QED
  BY <1>1, OutputInductive, PTL

\* Whatever file operation fails and whichever builder dies, the last successful
\* output is in place or recoverable until a later complete build takes its place:
\* withGeneratedOutput implements what its comment promises.
THEOREM OutputKept == OutputSpec => KeepsOutput
<1>1. OutputInit => Promise!PromiseInit
  BY DEF OutputInit, Promise!PromiseInit, Recoverable, NewestKept
<1> QED
  BY <1>1, StepKeepsPromise, OutputInductive, PTL
     DEF OutputSpec, KeepsOutput, Promise!PromiseSpec
-----------------------------------------------------------------------------
(* All stores together. *)

\* In a run of all stores each does what it does by itself, or nothing.
THEOREM StoresAreRun ==
  StoresSpec => Spec /\ ServerSpec /\ OutputSpec /\ LibrariesSpec /\ SdkVersionsSpec
PROOF
<1>1. StoresInit => Init /\ ServerInit /\ OutputInit /\ LibrariesInit /\ SdkInit
  BY DEF StoresInit
<1>2. ASSUME [StoresNext]_<<vars, toolVars, store>>
      PROVE  /\ [Next]_vars /\ [ServerNext]_serverVars /\ [OutputNext]_outputVars
             /\ [LibrariesNext]_libraryVars /\ [SdkVersionsNext]_sdkVars
  BY <1>2 DEF StoresNext, ToolsNext, toolVars
<1> QED
  BY <1>1, <1>2, PTL DEF StoresSpec, Spec, ServerSpec, OutputSpec, LibrariesSpec, SdkVersionsSpec

\* All stores keep to their types: the rows of sessions, the server, the output and its
\* locks, libraries and SDK versions, for any number of callers, edits, builders and commands.
THEOREM StoresTypeCorrect == StoresSpec => []StoresTypeOK
PROOF
<1>1. TypeOK /\ ServerTypeOK /\ OutputTypeOK /\ LibrariesTypeOK /\ SdkTypeOK => StoresTypeOK
  BY DEF StoresTypeOK
<1> QED
  BY <1>1, StoresAreRun, StoreTypeCorrect, ServerTypeCorrect, OutputTypeCorrect,
     LibrariesTypeCorrect, VersionsTypeCorrect, PTL
=============================================================================
