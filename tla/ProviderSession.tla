--------------------------- MODULE ProviderSession ---------------------------
(***************************************************************************)
(* One row of the provider session store (backend/provider-session.mjs)    *)
(* and the calls of the identity service that use it                       *)
(* (backend/provider-identity.mjs).                                        *)
(*                                                                         *)
(* Several calls, possibly of several backend processes that opened the    *)
(* same SQLite file, run useProvider or signOut on the row at once.  Each  *)
(* store call is one SQL transaction or one compare-and-set UPDATE, hence  *)
(* one step; between two store calls of a call every other call may run.   *)
(* The identity provider is external: it keeps one refresh token and       *)
(* rotates it each time the token is redeemed.  A request may be answered  *)
(* long after its caller stopped waiting.                                  *)
(***************************************************************************)
EXTENDS Integers

CONSTANTS
  Calls,          \* invocations of useProvider and signOut; each runs once
  NoCall,         \* refresh_lease_hash IS NULL
  RefreshWithin,  \* refreshWithinMs: material this close to expiry is refreshed
  LeaseMs,        \* refreshLeaseMs
  TokenTtls,      \* lifetimes the provider gives the tokens it hands out
  SessionTtl,     \* sessionTtlMs
  MaxTime         \* bound on the clock

ASSUME NoCallAssumption == NoCall \notin Calls
ASSUME TimingAssumption ==
  /\ RefreshWithin \in Nat
  /\ LeaseMs \in Nat \ {0}
  /\ TokenTtls \subseteq Nat \ {0}
  /\ SessionTtl \in Nat \ {0}
  /\ MaxTime \in Nat

VARIABLES
  now,       \* Date.now() of the host the processes share
  row,       \* the row of luastra_provider_sessions
  provider,  \* the refresh token the provider honours, and its session
  pc,        \* where each call is
  material,  \* the row's material as the call last read it
  wire,      \* the provider request the call sent
  reply      \* what the provider answered to it

vars == <<now, row, provider, pc, material, wire, reply>>
-----------------------------------------------------------------------------
(* A token is named by its generation: the provider's rotations count it.  *)
(* A deleted row keeps its last values, under state "gone".                *)

Ended == {"operated", "busy", "unauthorized", "unavailable", "signedOut"}
InFlight == {"refreshing", "refused", "aborting", "committing", "reading",
             "operating", "signingOut"}
NoReply == [kind |-> "none", gen |-> 0, until |-> 0]
Refused == [kind |-> "refused", gen |-> 0, until |-> 0]

Row == [state: {"none", "live", "gone"}, gen: Nat, until: Nat, revision: Nat,
        lease: Calls \cup {NoCall}, leaseUntil: Nat, sessionUntil: Nat]

TypeOK ==
  /\ now \in Nat
  /\ row \in Row
  /\ provider \in [gen: Nat, alive: BOOLEAN]
  /\ pc \in [Calls -> Ended \cup InFlight \cup {"idle", "crashed"}]
  /\ material \in [Calls -> [gen: Nat, revision: Nat]]
  /\ wire \in [Calls -> {"none", "refresh", "logout", "served"}]
  /\ reply \in [Calls -> [kind: {"none", "rotated", "malformed", "refused"},
                          gen: Nat, until: Nat]]

Init ==
  /\ now = 0
  /\ row = [state |-> "none", gen |-> 0, until |-> 0, revision |-> 0,
            lease |-> NoCall, leaseUntil |-> 0, sessionUntil |-> 0]
  /\ provider = [gen |-> 0, alive |-> FALSE]
  /\ pc = [c \in Calls |-> "idle"]
  /\ material = [c \in Calls |-> [gen |-> 0, revision |-> 0]]
  /\ wire = [c \in Calls |-> "none"]
  /\ reply = [c \in Calls |-> NoReply]
-----------------------------------------------------------------------------
(* The store's reads and writes. *)

Lapsed == row.sessionUntil <= now
Active == row.state = "live" /\ ~Lapsed
NearExpiry == row.until <= now + RefreshWithin
Leased == row.lease # NoCall /\ row.leaseUntil > now
Holds(c) == row.state = "live" /\ row.lease = c

Deleted == [row EXCEPT !.state = "gone"]

\* activeRow and activeSession delete an expired row they come across
Swept == IF row.state = "live" /\ Lapsed THEN Deleted ELSE row

\* revoke: DELETE by session id, whatever the row holds
Revoked == IF row.state = "live" THEN Deleted ELSE row

\* Faulty clearLease: the lease is left to run out, or is backdated.
ReleasedNever(c) == row
ReleasedBackdated(c) ==
  IF Holds(c) THEN [row EXCEPT !.leaseUntil = now - LeaseMs] ELSE row

\* clearLease: only the lease this call was given
Released(c) ==
  IF Holds(c) THEN [row EXCEPT !.lease = NoCall, !.leaseUntil = 0] ELSE row

ReadMaterial == [gen |-> row.gen, revision |-> row.revision]

Goto(c, place) == pc' = [pc EXCEPT ![c] = place]
-----------------------------------------------------------------------------
(* signInWithPassword: the provider opens a session and issue stores it. *)

Issued(ttl) ==
  [row EXCEPT !.state = "live", !.gen = 1, !.until = now + ttl,
              !.revision = 1, !.sessionUntil = now + SessionTtl]

SignIn ==
  /\ row.state = "none"
  /\ \E ttl \in TokenTtls :
       /\ provider' = [gen |-> 1, alive |-> TRUE]
       /\ row' = Issued(ttl)
  /\ UNCHANGED <<now, pc, material, wire, reply>>

(* useProvider, up to its first await: one beginRefresh transaction. *)

UseInvalid(c) ==
  /\ pc[c] = "idle" /\ row.state # "none"
  /\ ~Active
  /\ row' = Swept
  /\ Goto(c, "unauthorized")
  /\ UNCHANGED <<now, provider, material, wire, reply>>

\* the stored material does not decrypt under this process's key
UseUnreadable(c) ==
  /\ pc[c] = "idle"
  /\ Active
  /\ row' = Revoked
  /\ Goto(c, "unavailable")
  /\ UNCHANGED <<now, provider, material, wire, reply>>

UseBusy(c) ==
  /\ pc[c] = "idle"
  /\ Active /\ NearExpiry /\ Leased
  /\ Goto(c, "busy")
  /\ UNCHANGED <<now, row, provider, material, wire, reply>>

\* the caller's principal is not the one the material belongs to
UseMismatch(c) ==
  /\ pc[c] = "idle"
  /\ Active /\ ~(NearExpiry /\ Leased)
  /\ row' = Revoked
  /\ Goto(c, "unauthorized")
  /\ UNCHANGED <<now, provider, material, wire, reply>>

UseFresh(c) ==
  /\ pc[c] = "idle"
  /\ Active /\ ~NearExpiry
  /\ material' = [material EXCEPT ![c] = ReadMaterial]
  /\ Goto(c, "operating")
  /\ UNCHANGED <<now, row, provider, wire, reply>>

\* acquireLease; the transaction makes its revision test redundant
LeasedTo(c) == [row EXCEPT !.lease = c, !.leaseUntil = now + LeaseMs]

UseAcquire(c) ==
  /\ pc[c] = "idle"
  /\ Active /\ NearExpiry /\ ~Leased
  /\ row' = LeasedTo(c)
  /\ material' = [material EXCEPT ![c] = ReadMaterial]
  /\ wire' = [wire EXCEPT ![c] = "refresh"]
  /\ Goto(c, "refreshing")
  /\ UNCHANGED <<now, provider, reply>>
-----------------------------------------------------------------------------
(* The identity provider. *)

\* refreshSession reaches the provider: the current token is rotated, any
\* other token is refused
ProviderRefresh(c) ==
  /\ wire[c] = "refresh"
  /\ wire' = [wire EXCEPT ![c] = "served"]
  /\ \/ /\ provider.alive /\ material[c].gen = provider.gen
        /\ provider' = [provider EXCEPT !.gen = @ + 1]
        /\ \E ttl \in TokenTtls, kind \in {"rotated", "malformed"} :
             reply' = [reply EXCEPT ![c] = [kind |-> kind,
                         gen |-> provider.gen + 1, until |-> now + ttl]]
     \/ /\ ~(provider.alive /\ material[c].gen = provider.gen)
        /\ reply' = [reply EXCEPT ![c] = Refused]
        /\ UNCHANGED provider
  /\ UNCHANGED <<now, row, pc, material>>

\* signOut reaches the provider, which may refuse the access token
ProviderLogout(c) ==
  /\ wire[c] = "logout"
  /\ wire' = [wire EXCEPT ![c] = "served"]
  /\ provider' \in {provider, [provider EXCEPT !.alive = FALSE]}
  /\ UNCHANGED <<now, row, pc, material, reply>>
-----------------------------------------------------------------------------
(* useProvider, after refreshSession settled. *)

\* refreshSession rejected without an answer: timeout, network, rate limit
RefreshFailed(c) ==
  /\ pc[c] = "refreshing"
  /\ row' = Released(c)
  /\ Goto(c, "unavailable")
  /\ UNCHANGED <<now, provider, material, wire, reply>>

\* refreshSession rejected as UNAUTHORIZED: first the lease is aborted ...
RefreshRefused(c) ==
  /\ pc[c] = "refreshing" /\ reply[c].kind = "refused"
  /\ row' = Released(c)
  /\ Goto(c, "refused")
  /\ UNCHANGED <<now, provider, material, wire, reply>>

\* ... then the session is revoked
RevokeRefused(c) ==
  /\ pc[c] = "refused"
  /\ row' = Revoked
  /\ Goto(c, "unauthorized")
  /\ UNCHANGED <<now, provider, material, wire, reply>>

\* completeRefresh reads the row: the lease is not this call's any more
LeaseLost(c) ==
  /\ pc[c] = "refreshing" /\ reply[c].kind \in {"rotated", "malformed"}
  /\ ~Holds(c)
  /\ Goto(c, "busy")
  /\ UNCHANGED <<now, row, provider, material, wire, reply>>

\* providerMaterial or completeRefresh throws on what the provider sent
MaterialRejected(c) ==
  /\ pc[c] = "refreshing"
  /\ \/ reply[c].kind = "malformed"
     \/ reply[c].kind = "rotated" /\ Holds(c) /\ reply[c].until <= now
  /\ Goto(c, "aborting")
  /\ UNCHANGED <<now, row, provider, material, wire, reply>>

AbortRejected(c) ==
  /\ pc[c] = "aborting"
  /\ row' = Released(c)
  /\ Goto(c, "unavailable")
  /\ UNCHANGED <<now, provider, material, wire, reply>>

MaterialAccepted(c) ==
  /\ pc[c] = "refreshing" /\ reply[c].kind = "rotated"
  /\ Holds(c) /\ reply[c].until > now
  /\ Goto(c, "committing")
  /\ UNCHANGED <<now, row, provider, material, wire, reply>>

\* Faulty finishLease: any unexpired lease will do.
CanFinishAnyLease(c) == row.state = "live" /\ row.leaseUntil > now /\ ~Lapsed

\* finishLease: one UPDATE guarded by the lease, its expiry and the session's
CanFinish(c) == Holds(c) /\ row.leaseUntil > now /\ ~Lapsed

\* Faulty rotation: the access token is stored, the refresh token is not.
RotatedAccessOnly(c) ==
  [row EXCEPT !.until = reply[c].until, !.revision = @ + 1,
              !.lease = NoCall, !.leaseUntil = 0]

Rotated(c) ==
  [row EXCEPT !.gen = reply[c].gen, !.until = reply[c].until,
              !.revision = @ + 1, !.lease = NoCall, !.leaseUntil = 0]

CommitRefresh(c) ==
  /\ pc[c] = "committing"
  /\ \/ /\ CanFinish(c)
        /\ row' = Rotated(c)
        /\ Goto(c, "reading")
     \/ /\ ~CanFinish(c)
        /\ Goto(c, "busy")
        /\ UNCHANGED row
  /\ UNCHANGED <<now, provider, material, wire, reply>>

\* Faulty: the operation runs on the material read before the refresh.
ReadBackSkipped(c) ==
  /\ pc[c] = "reading"
  /\ Goto(c, "operating")
  /\ UNCHANGED <<now, row, provider, material, wire, reply>>

\* the row is read again before the operation runs
ReadBack(c) ==
  /\ pc[c] = "reading"
  /\ \/ /\ Active
        /\ material' = [material EXCEPT ![c] = ReadMaterial]
        /\ Goto(c, "operating")
        /\ UNCHANGED row
     \/ /\ ~Active
        /\ row' = Swept
        /\ Goto(c, "unauthorized")
        /\ UNCHANGED material
  /\ UNCHANGED <<now, provider, wire, reply>>

OperationDone(c) ==
  /\ pc[c] = "operating"
  /\ Goto(c, "operated")
  /\ UNCHANGED <<now, row, provider, material, wire, reply>>
-----------------------------------------------------------------------------
(* signOut and signOutCurrent. *)

SignOutNothing(c) ==
  /\ pc[c] = "idle" /\ row.state # "none"
  /\ ~Active
  /\ row' = Swept
  /\ Goto(c, "signedOut")
  /\ UNCHANGED <<now, provider, material, wire, reply>>

SignOutStart(c) ==
  /\ pc[c] = "idle"
  /\ Active
  /\ material' = [material EXCEPT ![c] = ReadMaterial]
  /\ wire' = [wire EXCEPT ![c] = "logout"]
  /\ Goto(c, "signingOut")
  /\ UNCHANGED <<now, row, provider, reply>>

\* Faulty: the row is kept when the provider did not confirm.
SignOutFinishIfConfirmed(c) ==
  /\ pc[c] = "signingOut"
  /\ row' = IF provider.alive THEN row ELSE Revoked
  /\ Goto(c, "signedOut")
  /\ UNCHANGED <<now, provider, material, wire, reply>>

\* the provider answered, refused or failed: the row goes in every case
SignOutFinish(c) ==
  /\ pc[c] = "signingOut"
  /\ row' = Revoked
  /\ Goto(c, "signedOut")
  /\ UNCHANGED <<now, provider, material, wire, reply>>
-----------------------------------------------------------------------------
(* The surroundings: a process dies, prune runs, time passes. *)

Crash(c) ==
  /\ pc[c] \in InFlight
  /\ Goto(c, "crashed")
  /\ UNCHANGED <<now, row, provider, material, wire, reply>>

Prune ==
  /\ row.state = "live" /\ Lapsed
  /\ row' = Deleted
  /\ UNCHANGED <<now, provider, pc, material, wire, reply>>

Tick ==
  /\ now < MaxTime
  /\ now' = now + 1
  /\ UNCHANGED <<row, provider, pc, material, wire, reply>>

Call(c) ==
  \/ UseInvalid(c) \/ UseUnreadable(c) \/ UseBusy(c) \/ UseMismatch(c)
  \/ UseFresh(c) \/ UseAcquire(c)
  \/ RefreshFailed(c) \/ RefreshRefused(c) \/ RevokeRefused(c)
  \/ LeaseLost(c) \/ MaterialRejected(c) \/ AbortRejected(c)
  \/ MaterialAccepted(c) \/ CommitRefresh(c) \/ ReadBack(c)
  \/ OperationDone(c)
  \/ SignOutNothing(c) \/ SignOutStart(c) \/ SignOutFinish(c)

Next ==
  \/ SignIn \/ Prune \/ Tick
  \/ \E c \in Calls : Call(c) \/ Crash(c)
                      \/ ProviderRefresh(c) \/ ProviderLogout(c)

Spec == Init /\ [][Next]_vars
-----------------------------------------------------------------------------
(* Properties. *)

\* No lost update (completeRefresh): material is only ever replaced while no
\* other call has been given the lease, by the call that read exactly that
\* material with its lease, so two refreshes never both build on one revision
\* and none overwrites a newer one.
CommitFromCurrent ==
  [][row.state = "live" /\ row'.gen # row.gen =>
       \E c \in Calls :
         /\ pc[c] = "committing" /\ pc'[c] # "committing"
         /\ \A d \in Calls \ {c} : ~Holds(d)
         /\ material[c] = ReadMaterial
         /\ row'.gen = reply[c].gen /\ row'.gen > row.gen]_vars

\* Rotation is accounted for: the refresh token in the row is the one the
\* provider honours, unless some call redeemed it and its newer token is still
\* under way, or was dropped when that call failed, lost its lease or crashed.
StoredTokenAccounted ==
  row.state = "live" /\ row.gen # provider.gen =>
    \E c \in Calls :
      /\ reply[c].gen = provider.gen
      /\ pc[c] \notin {"idle", "reading", "operating", "operated"}

\* No stuck lease: once a call that did not crash is over, the lease it took
\* no longer keeps the other calls out (REFRESH_BUSY) of a live session.
EndedCallsHoldNoLease ==
  \A c \in Calls : pc[c] \in Ended /\ Holds(c) /\ ~Lapsed => row.leaseUntil <= now

\* Sign-out is final: after a sign-out reported its result no refresh that was
\* under way brings the session back.
SignedOutStaysOut ==
  \A c \in Calls : pc[c] = "signedOut" => row.state = "gone"

\* A call that rotated the token runs its operation with that token or a later
\* one, never with the one it started from.
OperatesOnRotatedMaterial ==
  \A c \in Calls : pc[c] \in {"operating", "operated"} =>
                     material[c].gen >= reply[c].gen

\* "revokes a refresh token rejected by the provider": what a refused refresh
\* revokes still holds the token that was refused.
RevokesOnlyRejectedToken ==
  [][\A c \in Calls :
       pc[c] = "refused" /\ pc'[c] = "unauthorized" /\ row.state = "live"
         => row.gen = material[c].gen]_vars
-----------------------------------------------------------------------------
(* The inductive invariant behind these properties. *)

\* A lease in the row binds its holder to the material it was given with it.
LeaseBinds ==
  \A c \in Calls : Holds(c) =>
    /\ pc[c] \in {"refreshing", "aborting", "committing", "busy", "crashed"}
    /\ material[c] = ReadMaterial
    /\ pc[c] = "busy" => row.leaseUntil <= now \/ Lapsed

\* A redemption still on the wire has no answer yet, whatever its caller does.
WireAgrees ==
  \A c \in Calls :
    /\ wire[c] # "served" => reply[c] = NoReply
    /\ wire[c] = "refresh" => pc[c] \in {"refreshing", "unavailable", "crashed"}
    /\ pc[c] = "idle" => wire[c] = "none"

\* What a call was handed is one rotation past what it redeemed.
ReplyAgrees ==
  \A c \in Calls :
    /\ reply[c].gen <= provider.gen
    /\ reply[c].kind = "rotated" /\ pc[c] \in {"refreshing", "committing"}
         => reply[c].gen = material[c].gen + 1
    /\ pc[c] = "committing" => reply[c].kind = "rotated"
    /\ pc[c] = "reading" => row.gen >= reply[c].gen

\* Nothing runs before the session is issued.
IssuedFirst ==
  /\ row.state = "none" => row.lease = NoCall /\ \A c \in Calls : pc[c] = "idle"
  /\ row.state # "none" => provider.gen >= 1

SessionInv ==
  /\ TypeOK
  /\ LeaseBinds /\ WireAgrees /\ ReplyAgrees /\ IssuedFirst
  /\ SignedOutStaysOut /\ OperatesOnRotatedMaterial /\ StoredTokenAccounted
=============================================================================
