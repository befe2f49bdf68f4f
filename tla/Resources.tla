------------------------------ MODULE Resources ------------------------------
(***************************************************************************)
(* Read and mutation states (sdk/luastra/resource.luau), one of each per   *)
(* feature of an application.  A ticket is the request and the generation  *)
(* begin gave it; results that come with an older ticket are ignored.      *)
(*                                                                         *)
(* Values are told apart by the request that brought them, and an          *)
(* optimistic change by the request of the mutation that applied it.       *)
(***************************************************************************)
EXTENDS Naturals

CONSTANTS
  Features,   \* owners of a read state and a mutation state each
  Requests    \* request ids, in the order they are issued

ASSUME ResourcesAssumption == Requests \subseteq Nat \ {0}

VARIABLES
  read,       \* the read state of each feature
  mutation,   \* the mutation state of each feature
  changed     \* optimistic changes that are in force, by feature

resourceVars == <<read, mutation, changed>>

None == 0
Ids == Requests \cup {None}

\* the tickets a begin may return; a generation counts begins, cancels, resets
Ticket(id, generation) == [request |-> id, generation |-> generation]
NoTicket == Ticket(None, 0)

ReadStatuses == {"idle", "loading", "success", "empty", "refreshing", "retrying",
                 "stale-error", "error", "cancelled"}
MutationStatuses == {"idle", "submitting", "succeeded", "failed", "cancelled"}

Tickets == [request: Ids, generation: Nat]
ReadStates == [status: ReadStatuses, value: Ids, invalidated: BOOLEAN, generation: Nat,
               active: Tickets]
MutationStates == [status: MutationStatuses, value: Ids, rollback: Ids,
                   generation: Nat, active: Tickets]

ResourcesTypeOK ==
  /\ read \in [Features -> ReadStates]
  /\ mutation \in [Features -> MutationStates]
  /\ changed \in [Features -> SUBSET Requests]

ResourcesInit ==
  /\ read = [f \in Features |-> [status |-> "idle", value |-> None,
               invalidated |-> FALSE, generation |-> 0, active |-> NoTicket]]
  /\ mutation = [f \in Features |-> [status |-> "idle", value |-> None,
                   rollback |-> None, generation |-> 0, active |-> NoTicket]]
  /\ changed = [f \in Features |-> {}]

\* Faulty: whatever is active is meant.
SameTicketAny(state, ticket) == state.active # NoTicket

SameTicket(state, ticket) == state.active = ticket

Waiting(state) == state.active # NoTicket
-----------------------------------------------------------------------------
(* Resource.new.  Each operator is the state the call leaves; a call whose  *)
(* assertion fails leaves it as it was, unless it says otherwise.           *)

Mode(r, mode) ==
  CASE mode = "refresh" /\ r.value # None -> "refreshing"
    [] mode = "retry" -> "retrying"
    [] OTHER -> "loading"

Begun(r, id, mode) ==
  [status |-> Mode(r, mode), value |-> r.value, invalidated |-> FALSE,
   generation |-> r.generation + 1, active |-> Ticket(id, r.generation + 1)]

Resolved(r, ticket, isEmpty) ==
  IF SameTicket(r, ticket)
  THEN [status |-> IF isEmpty THEN "empty" ELSE "success", value |-> ticket.request,
        invalidated |-> FALSE, generation |-> r.generation, active |-> NoTicket]
  ELSE r

\* Faulty: what is kept of an earlier load is forgotten by the status.
RejectedBare(r, ticket) ==
  IF SameTicket(r, ticket)
  THEN [status |-> "error", value |-> r.value, invalidated |-> r.invalidated,
        generation |-> r.generation, active |-> NoTicket]
  ELSE r

Rejected(r, ticket) ==
  IF SameTicket(r, ticket)
  THEN [status |-> IF r.value = None THEN "error" ELSE "stale-error", value |-> r.value,
        invalidated |-> r.invalidated, generation |-> r.generation, active |-> NoTicket]
  ELSE r

Cancelled(r) ==
  IF Waiting(r)
  THEN [status |-> "cancelled", value |-> r.value, invalidated |-> r.invalidated,
        generation |-> r.generation + 1, active |-> NoTicket]
  ELSE r

Invalidated(r) ==
  [status |-> r.status, value |-> r.value, invalidated |-> TRUE,
   generation |-> r.generation, active |-> r.active]

Reset(r) ==
  [status |-> "idle", value |-> None, invalidated |-> FALSE,
   generation |-> r.generation + 1, active |-> NoTicket]

Stale(r) ==
  r.value # None /\ (r.status \in {"refreshing", "retrying", "stale-error"} \/ r.invalidated)
-----------------------------------------------------------------------------
(* Resource.newMutation.  The callbacks apply and rollback change changed.  *)

\* begin refuses a second execution
Submittable(m) == ~Waiting(m)

Submitted(m, id, optimistic) ==
  [status |-> "submitting", value |-> None, rollback |-> IF optimistic THEN id ELSE None,
   generation |-> m.generation + 1, active |-> Ticket(id, m.generation + 1)]

Submit(f, id, optimistic) ==
  /\ mutation' = [mutation EXCEPT ![f] = Submitted(@, id, optimistic)]
  /\ changed' = [changed EXCEPT ![f] = IF optimistic THEN @ \cup {id} ELSE @]

\* optimistic.apply raised after the generation was counted
Counted(m) ==
  [status |-> m.status, value |-> m.value, rollback |-> m.rollback,
   generation |-> m.generation + 1, active |-> m.active]

SubmitRaises(f) ==
  /\ mutation' = [mutation EXCEPT ![f] = Counted(@)]
  /\ UNCHANGED changed

\* the mutation ended as status says
Ended(m, status, value, generation) ==
  [status |-> status, value |-> value, rollback |-> None, generation |-> generation,
   active |-> NoTicket]

Accept(f, ticket) ==
  /\ SameTicket(mutation[f], ticket)
  /\ mutation' = [mutation EXCEPT ![f] =
                    Ended(@, "succeeded", ticket.request, @.generation)]
  /\ UNCHANGED changed

\* runRollback; without a mutation under way there is nothing to roll back
RolledBack(f) == changed[f] \ {mutation[f].rollback}

Refuse(f, ticket) ==
  /\ SameTicket(mutation[f], ticket)
  /\ mutation' = [mutation EXCEPT ![f] = Ended(@, "failed", None, @.generation)]
  /\ changed' = [changed EXCEPT ![f] = RolledBack(f)]

\* an error that is not admitted: the status was set before it was looked at
Spoiled(m) ==
  [status |-> "failed", value |-> None, rollback |-> m.rollback,
   generation |-> m.generation, active |-> m.active]

RefuseRaises(f, ticket) ==
  /\ SameTicket(mutation[f], ticket)
  /\ mutation' = [mutation EXCEPT ![f] = Spoiled(@)]
  /\ UNCHANGED changed

\* resolve and reject return false for any other ticket
Ignore(f, ticket) ==
  /\ ~SameTicket(mutation[f], ticket)
  /\ UNCHANGED <<mutation, changed>>

Abandoned(m) ==
  IF Waiting(m) THEN Ended(m, "cancelled", None, m.generation + 1) ELSE m

\* Faulty: cancelling leaves what was applied.
AbandonKeeping(f) ==
  /\ mutation' = [mutation EXCEPT ![f] = Abandoned(@)]
  /\ UNCHANGED changed

Abandon(f) ==
  /\ mutation' = [mutation EXCEPT ![f] = Abandoned(@)]
  /\ changed' = [changed EXCEPT ![f] = RolledBack(f)]

ResetMutation(f) ==
  /\ Submittable(mutation[f])
  /\ mutation' = [mutation EXCEPT ![f] = Ended(@, "idle", None, @.generation + 1)]
  /\ UNCHANGED changed
-----------------------------------------------------------------------------
(* Properties. *)

\* What a read shows agrees with itself: it says it is under way exactly while a
\* ticket is active, it never calls a kept value an error or a missing one a
\* success, and what it shows during a refresh is marked stale.
Coherent(r) ==
  /\ Waiting(r) <=> r.status \in {"loading", "refreshing", "retrying"}
  /\ r.status \in {"success", "empty", "refreshing", "stale-error"} => r.value # None
  /\ r.status \in {"idle", "error"} => r.value = None
  /\ r.status \in {"refreshing", "stale-error"} => Stale(r)

ReadsAreCoherent == \A f \in Features : Coherent(read[f])

\* "Successful resolution commits ... Rejection or cancellation invokes the
\* rollback once": an optimistic change is in force while its mutation is under
\* way, afterwards if and only if it succeeded, and is touched by nothing else.
Settles(f) ==
  LET before == mutation[f].rollback
      after == mutation'[f].rollback IN
  /\ changed'[f] \ {before, after} = changed[f] \ {before, after}
  /\ after # None => after \in changed'[f] /\ after = mutation'[f].active.request
  /\ before \notin {None, after} =>
       (before \in changed'[f] <=> mutation'[f].status = "succeeded")

OptimisticSettles == [][\A f \in Features : Settles(f)]_resourceVars
=============================================================================
