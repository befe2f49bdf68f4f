---------------------------- MODULE ServerSessions ----------------------------
(***************************************************************************)
(* The SQL store of opaque sessions (supabase/migrations): one session and *)
(* the outbox row that asks for its revocation at the identity provider.   *)
(*                                                                         *)
(* Every function of the migrations is one transaction and one step here.  *)
(* PostgreSQL's now() is the time the transaction began, so a transaction  *)
(* that waited for the row acts on a time up to Lag behind the clock.      *)
(* Callers run resolve / acquire / complete or release, or revoke; workers *)
(* drain the outbox.  Both live outside the migrations.                    *)
(***************************************************************************)
EXTENDS Integers

CONSTANTS
  Callers,       \* server processes handling requests of this session
  Workers,       \* processes draining the revocation outbox
  NoOwner,       \* SQL NULL of a lease
  MaxAttempts,   \* check (attempts between 0 and 12)
  LeaseTime,     \* the refresh lease a caller asks for
  ClaimTime,     \* p_lease_seconds
  RetryDelay,    \* p_delay_seconds
  TokenTtl,      \* life of the access token, hence of its revocation
  SessionTtl,
  Lag,           \* bound: how far now() of a transaction may lie back
  MaxTime        \* bound on the clock

ASSUME NoOwnerAssumption == NoOwner \notin Callers /\ NoOwner \notin Workers
ASSUME TimesAssumption ==
  /\ MaxAttempts \in Nat \ {0} /\ Lag \in Nat /\ MaxTime \in Nat
  /\ LeaseTime \in Nat \ {0} /\ ClaimTime \in Nat \ {0}
  /\ RetryDelay \in Nat \ {0}
  /\ TokenTtl \in Nat \ {0} /\ SessionTtl \in Nat \ {0}

VARIABLES
  now,       \* clock of the database
  session,   \* the row of luastra_provider_sessions
  outbox,    \* the row of luastra_provider_revocations
  provider,  \* generation of the token the provider honours
  caller,    \* where each caller is, and the material it read
  worker     \* where each worker is, and when the lease it was given ends

vars == <<now, session, outbox, provider, caller, worker>>

CallerPlaces == {"idle", "resolved", "leased", "redeemed", "refused", "rotated",
                 "stale", "busy", "failed", "unauthorized", "revoked"}

SessionRow == [state: {"none", "live", "gone"}, gen: Nat, revision: Nat,
               until: Nat, lease: Callers \cup {NoOwner}, leaseUntil: Nat,
               sessionUntil: Nat]
OutboxRow == [queued: BOOLEAN, gen: Nat, until: Nat, attempts: 0..MaxAttempts,
              next: Nat, owner: Workers \cup {NoOwner}, leaseUntil: Nat]
CallerRow == [at: CallerPlaces, gen: Nat, revision: Nat]
WorkerRow == [at: {"idle", "attempting", "loggedOut", "failed"}, leaseUntil: Nat]

TypeOK ==
  /\ now \in Nat
  /\ session \in SessionRow
  /\ outbox \in OutboxRow
  /\ provider \in Nat
  /\ caller \in [Callers -> CallerRow]
  /\ worker \in [Workers -> WorkerRow]

NoOutbox == [queued |-> FALSE, gen |-> 0, until |-> 0, attempts |-> 0,
             next |-> 0, owner |-> NoOwner, leaseUntil |-> 0]

Init ==
  /\ now = 0
  /\ session = [state |-> "none", gen |-> 0, revision |-> 0, until |-> 0,
                lease |-> NoOwner, leaseUntil |-> 0, sessionUntil |-> 0]
  /\ outbox = NoOutbox
  /\ provider = 0
  /\ caller = [c \in Callers |-> [at |-> "idle", gen |-> 0, revision |-> 0]]
  /\ worker = [w \in Workers |-> [at |-> "idle", leaseUntil |-> 0]]

\* the times a transaction that acts now may have begun at
Begun == {t \in 0..now : now - t <= Lag}

Goto(c, place) == caller' = [caller EXCEPT ![c].at = place]
-----------------------------------------------------------------------------
(* Sessions. *)

Issue ==
  /\ session.state = "none"
  /\ session' = [session EXCEPT !.state = "live", !.gen = 1, !.revision = 1,
                   !.until = now + TokenTtl, !.sessionUntil = now + SessionTtl]
  /\ provider' = 1
  /\ UNCHANGED <<now, outbox, caller, worker>>

\* luastra_server_resolve_session drops an expired row and returns the others
Resolve(c, t) ==
  /\ caller[c].at = "idle" /\ session.state # "none"
  /\ IF session.state = "live" /\ session.sessionUntil > t
     THEN /\ caller' = [caller EXCEPT ![c] = [at |-> "resolved",
                          gen |-> session.gen, revision |-> session.revision]]
          /\ UNCHANGED session
     ELSE /\ session' = [session EXCEPT !.state = "gone"]
          /\ Goto(c, "unauthorized")
  /\ UNCHANGED <<now, outbox, provider, worker>>

Acquirable(c, t) ==
  /\ session.state = "live" /\ session.sessionUntil > t
  /\ session.revision = caller[c].revision
  /\ session.lease = NoOwner \/ session.leaseUntil <= t

\* the caller set the lease's end when it sent the request, at t
Acquire(c, t) ==
  /\ caller[c].at = "resolved"
  /\ IF Acquirable(c, t)
     THEN /\ session' = [session EXCEPT !.lease = c, !.leaseUntil = t + LeaseTime]
          /\ Goto(c, "leased")
     ELSE /\ Goto(c, "busy")
          /\ UNCHANGED session
  /\ UNCHANGED <<now, outbox, provider, worker>>

\* the identity provider rotates its current token and refuses any other
Redeem(c) ==
  /\ caller[c].at = "leased"
  /\ IF caller[c].gen = provider
     THEN provider' = provider + 1 /\ Goto(c, "redeemed")
     ELSE UNCHANGED provider /\ Goto(c, "refused")
  /\ UNCHANGED <<now, session, outbox, worker>>

\* Faulty: a refresh is stored although the session was revoked meanwhile.
CompletableAfterRevoke(c, t) ==
  /\ session.sessionUntil > t
  /\ session.lease = c /\ session.leaseUntil > t

Completable(c, t) ==
  /\ session.state = "live" /\ session.sessionUntil > t
  /\ session.lease = c /\ session.leaseUntil > t

\* luastra_server_complete_refresh returns the new revision, or 0
Complete(c, t) ==
  /\ caller[c].at = "redeemed"
  /\ IF Completable(c, t)
     THEN /\ session' = [session EXCEPT !.gen = caller[c].gen + 1,
                           !.revision = @ + 1, !.until = now + TokenTtl,
                           !.lease = NoOwner, !.leaseUntil = 0]
          /\ Goto(c, "rotated")
     ELSE /\ Goto(c, "stale")
          /\ UNCHANGED session
  /\ UNCHANGED <<now, outbox, provider, worker>>

Release(c) ==
  /\ caller[c].at \in {"leased", "redeemed", "refused"}
  /\ IF session.state = "live" /\ session.lease = c
     THEN session' = [session EXCEPT !.lease = NoOwner, !.leaseUntil = 0]
     ELSE UNCHANGED session
  /\ Goto(c, "failed")
  /\ UNCHANGED <<now, outbox, provider, worker>>

\* the session's material moves to the outbox, unless it expired
Enqueued(t) == [NoOutbox EXCEPT !.queued = TRUE, !.gen = session.gen,
                                !.until = session.until, !.next = t]

\* luastra_server_revoke_session: delete and insert in one transaction
Revoke(c, t) ==
  /\ caller[c].at = "idle" /\ session.state # "none"
  /\ session' = [session EXCEPT !.state = "gone"]
  /\ outbox' \in IF session.state = "live" /\ session.until > t
                 THEN {outbox, Enqueued(t)} ELSE {outbox}
  /\ Goto(c, "revoked")
  /\ UNCHANGED <<now, provider, worker>>
-----------------------------------------------------------------------------
(* The revocation outbox. *)

\* Faulty: nothing stops another attempt after the last one.
DueForEver(t) ==
  /\ outbox.queued /\ outbox.until > t
  /\ outbox.next <= t
  /\ outbox.owner = NoOwner \/ outbox.leaseUntil <= t

\* Faulty: a row another worker holds is due as well.
DueThoughLeased(t) ==
  /\ outbox.queued /\ outbox.until > t
  /\ outbox.attempts < MaxAttempts
  /\ outbox.next <= t

Due(t) ==
  /\ outbox.queued /\ outbox.until > t
  /\ outbox.attempts < MaxAttempts
  /\ outbox.next <= t
  /\ outbox.owner = NoOwner \/ outbox.leaseUntil <= t

\* luastra_server_claim_revocations
Claim(w, t) ==
  /\ worker[w].at = "idle"
  /\ Due(t)
  /\ outbox' = [outbox EXCEPT !.owner = w, !.leaseUntil = t + ClaimTime,
                              !.attempts = @ + 1]
  /\ worker' = [worker EXCEPT ![w] = [at |-> "attempting",
                                      leaseUntil |-> t + ClaimTime]]
  /\ UNCHANGED <<now, session, provider, caller>>

\* the worker asks the provider to log the session out
Attempt(w) ==
  /\ worker[w].at = "attempting"
  /\ \E answer \in {"loggedOut", "failed"} :
       worker' = [worker EXCEPT ![w].at = answer]
  /\ UNCHANGED <<now, session, outbox, provider, caller>>

Owned(w) == outbox.queued /\ outbox.owner = w

\* luastra_server_complete_revocation erases the material with the row
CompleteRevocation(w) ==
  /\ worker[w].at = "loggedOut"
  /\ outbox' = IF Owned(w) THEN NoOutbox ELSE outbox
  /\ worker' = [worker EXCEPT ![w] = [at |-> "idle", leaseUntil |-> 0]]
  /\ UNCHANGED <<now, session, provider, caller>>

Sooner(a, b) == IF a < b THEN a ELSE b

\* luastra_server_retry_revocation
Retry(w, t) ==
  /\ worker[w].at = "failed"
  /\ outbox' = IF Owned(w)
               THEN [outbox EXCEPT !.next = Sooner(t + RetryDelay, outbox.until),
                                   !.owner = NoOwner, !.leaseUntil = 0]
               ELSE outbox
  /\ worker' = [worker EXCEPT ![w] = [at |-> "idle", leaseUntil |-> 0]]
  /\ UNCHANGED <<now, session, provider, caller>>

\* a worker dies and is started again under its name
WorkerCrash(w) ==
  /\ worker[w].at # "idle"
  /\ worker' = [worker EXCEPT ![w] = [at |-> "idle", leaseUntil |-> 0]]
  /\ UNCHANGED <<now, session, outbox, provider, caller>>

\* Faulty: rows that ran out of attempts are pruned as well.
PrunableExhausted(t) ==
  outbox.queued /\ (outbox.until <= t \/ outbox.attempts = MaxAttempts)

\* Faulty: a row that some worker once claimed is left to that worker.
PrunableUnclaimed(t) ==
  outbox.queued /\ outbox.until <= t /\ outbox.owner = NoOwner

Prunable(t) == outbox.queued /\ outbox.until <= t

\* luastra_server_prune_security_state, which its scheduler runs at t
PruneAt(t) ==
  /\ session' = IF session.state = "live" /\ session.sessionUntil <= t
                THEN [session EXCEPT !.state = "gone"] ELSE session
  /\ outbox' = IF Prunable(t) THEN NoOutbox ELSE outbox
  /\ UNCHANGED <<now, provider, caller, worker>>

Prune == \E t \in Begun : PruneAt(t)

Tick ==
  /\ now < MaxTime
  /\ now' = now + 1
  /\ UNCHANGED <<session, outbox, provider, caller, worker>>

Next ==
  \/ Issue \/ Prune \/ Tick
  \/ \E c \in Callers :
       \/ Redeem(c) \/ Release(c)
       \/ \E t \in Begun : Resolve(c, t) \/ Acquire(c, t) \/ Complete(c, t)
                           \/ Revoke(c, t)
  \/ \E w \in Workers :
       \/ Attempt(w) \/ CompleteRevocation(w) \/ WorkerCrash(w)
       \/ \E t \in Begun : Claim(w, t) \/ Retry(w, t)

Spec == Init /\ [][Next]_vars

\* time passes and the pruning job keeps being run
FairSpec == Spec /\ WF_vars(Tick) /\ WF_vars(PruneAt(now))
-----------------------------------------------------------------------------
(* Properties. *)

\* luastra_server_acquire_refresh_lease compares the revision: whoever holds the
\* lease redeems the token that is stored, not one it read earlier.
HolderReadCurrent ==
  \A c \in Callers :
    session.state = "live" /\ session.lease = c
      => caller[c].gen = session.gen /\ caller[c].revision = session.revision

\* Revocation and rotation do not cross: the outbox holds the newest token that
\* was ever stored for the session, so no refresh that was told its rotation was
\* stored leaves behind a token nobody revokes.
RevokesNewestMaterial == outbox.queued => outbox.gen = session.gen

\* Two workers never hold running claims of one revocation at once, although
\* each claim acts on a clock of its own transaction.
Claiming == {w \in Workers : worker[w].at # "idle" /\ worker[w].leaseUntil > now}
OneClaimAtATime ==
  outbox.queued => \A v, w \in Claiming : v = w

\* A lease or a claim that still runs is held by one, on what is stored now.
LeasesHoldTrue == HolderReadCurrent /\ OneClaimAtATime

\* A revocation leaves the outbox only because the provider logged the session
\* out or because the token it would revoke expired.
RevocationNotDropped ==
  [][outbox.queued /\ ~outbox'.queued =>
       outbox.until <= now \/ \E w \in Workers : worker[w].at = "loggedOut"
                                                 /\ worker'[w].at = "idle"]_vars

\* Encrypted material does not stay in the outbox for ever: confirmed, given up
\* after the last attempt, or its worker dead, the row goes in the end.  (The
\* clock of the model stops at MaxTime.)
MaterialErased == outbox.queued /\ outbox.until <= MaxTime ~> ~outbox.queued
=============================================================================
