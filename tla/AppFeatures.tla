----------------------------- MODULE AppFeatures -----------------------------
(***************************************************************************)
(* An application composed of features (sdk/luastra/app.luau), each with   *)
(* a read and a mutation state.  A feature asks the host for something,    *)
(* begins its read or mutation with the request's id, keeps the ticket and *)
(* claims the id (examples/state-foundations/src/main.luau).  The host     *)
(* answers requests in any order, and an answer may come again or after    *)
(* its claim was cancelled or the application was disposed.                *)
(***************************************************************************)
EXTENDS Resources, FiniteSets

CONSTANTS
  MaxAnswers,   \* bound on the calls of Instance.resolve
  MaxCalls      \* bound on the generations of a state

ASSUME AppAssumption == MaxAnswers \in Nat /\ MaxCalls \in Nat

VARIABLES
  issued,      \* ids the host gave out
  ownership,   \* feature, purpose and generation of each claimed id
  tickets,     \* the tickets a feature keeps, by id
  enabled,     \* features whose record is active
  disposed,
  era,         \* generation of the feature records
  suppressed,  \* suppressedResults
  answers,     \* calls of Instance.resolve
  delivered,   \* how often each answer was handed to a feature
  outdated,    \* ids whose claim or ticket their feature gave up
  raised       \* an assertion or a callback raised

appVars == <<issued, ownership, tickets, enabled, disposed, era, suppressed, answers,
             delivered, outdated, raised>>
vars == <<resourceVars, appVars>>

Purposes == {"read", "mutation"}
Owner(f, purpose) == [feature |-> f, purpose |-> purpose, era |-> era]
Owned == DOMAIN ownership

TypeOK ==
  /\ ResourcesTypeOK
  /\ issued \subseteq Requests /\ Owned \subseteq issued
  /\ ownership \in [Owned -> [feature: Features, purpose: Purposes, era: Nat]]
  /\ tickets \in [Features -> SUBSET [request: issued, generation: Nat]]
  /\ enabled \subseteq Features /\ disposed \in BOOLEAN /\ era \in Nat
  /\ suppressed \in Nat /\ raised \in BOOLEAN
  /\ answers \in 0..MaxAnswers /\ delivered \in [Requests -> Nat]
  /\ outdated \subseteq issued
  /\ disposed => Owned = {} /\ enabled = {}

Init ==
  /\ ResourcesInit
  /\ issued = {} /\ ownership = <<>> /\ outdated = {}
  /\ tickets = [f \in Features |-> {}]
  /\ enabled = Features /\ disposed = FALSE /\ era = 1
  /\ suppressed = 0 /\ raised = FALSE
  /\ answers = 0 /\ delivered = [id \in Requests |-> 0]

NextId == Cardinality(issued) + 1
Without(ids) == [id \in Owned \ ids |-> ownership[id]]

\* Host.storageGet and the like give out the next id
Issue == NextId \in Requests /\ issued' = issued \cup {NextId}

\* context.claim: asserts that the record is active
Claim(f, purpose) ==
  IF f \in enabled
  THEN /\ ownership' = [id \in Owned \cup {NextId} |->
             IF id = NextId THEN Owner(f, purpose) ELSE ownership[id]]
       /\ UNCHANGED raised
  ELSE raised' = TRUE /\ UNCHANGED ownership

Keep(f, ticket) == tickets' = [tickets EXCEPT ![f] = @ \cup {ticket}]

Active(state) == {state.active.request} \ {None}
-----------------------------------------------------------------------------
(* Instance.handle of an action that is routed to feature f. *)

StartRead(f, mode) ==
  /\ ~disposed /\ read[f].generation < MaxCalls
  /\ Issue
  /\ read' = [read EXCEPT ![f] = Begun(@, NextId, mode)]
  /\ Keep(f, read'[f].active)
  /\ Claim(f, "read")
  /\ outdated' = outdated \cup Active(read[f])
  /\ UNCHANGED <<mutation, changed, enabled, disposed, era, suppressed, answers, delivered>>

StartMutation(f, optimistic) ==
  /\ ~disposed /\ mutation[f].generation < MaxCalls
  /\ Issue
  /\ Submittable(mutation[f])
  /\ Submit(f, NextId, optimistic)
  /\ Keep(f, mutation'[f].active)
  /\ Claim(f, "mutation")
  /\ UNCHANGED <<read, enabled, disposed, era, suppressed, answers, delivered, outdated>>

\* begin raised, after the host was asked: nobody claims the answer
StartMutationRaises(f) ==
  /\ ~disposed /\ mutation[f].generation < MaxCalls
  /\ Issue
  /\ IF Submittable(mutation[f]) THEN SubmitRaises(f) ELSE UNCHANGED <<mutation, changed>>
  /\ raised' = TRUE
  /\ UNCHANGED <<read, ownership, tickets, enabled, disposed, era, suppressed, answers,
                 delivered, outdated>>

\* context.cancel, where the feature owns the ids
Released(f, ids) ==
  ownership' = Without({id \in ids \cap Owned :
                  ownership[id].feature = f /\ ownership[id].era = era})

\* the feature cancels what is under way, and may or may not give up the claim
CancelRead(f) ==
  /\ ~disposed /\ Waiting(read[f])
  /\ read' = [read EXCEPT ![f] = Cancelled(@)]
  /\ Released(f, Active(read[f])) \/ UNCHANGED ownership
  /\ outdated' = outdated \cup Active(read[f])
  /\ UNCHANGED <<mutation, changed, issued, tickets, enabled, disposed, era, suppressed,
                 answers, delivered, raised>>

CancelMutation(f) ==
  /\ ~disposed /\ Waiting(mutation[f])
  /\ Abandon(f)
  /\ Released(f, Active(mutation[f])) \/ UNCHANGED ownership
  /\ outdated' = outdated \cup Active(mutation[f])
  /\ UNCHANGED <<read, issued, tickets, enabled, disposed, era, suppressed, answers,
                 delivered, raised>>

InvalidateRead(f) ==
  /\ ~disposed
  /\ read' = [read EXCEPT ![f] = Invalidated(@)]
  /\ UNCHANGED <<mutation, changed, appVars>>

ResetRead(f) ==
  /\ ~disposed /\ read[f].generation < MaxCalls
  /\ read' = [read EXCEPT ![f] = Reset(@)]
  /\ outdated' = outdated \cup Active(read[f])
  /\ UNCHANGED <<mutation, changed, issued, ownership, tickets, enabled, disposed, era,
                 suppressed, answers, delivered, raised>>

Handle(f) ==
  \/ \E mode \in {"load", "refresh", "retry"} : StartRead(f, mode)
  \/ \E optimistic \in BOOLEAN : StartMutation(f, optimistic)
  \/ StartMutationRaises(f) \/ CancelRead(f) \/ CancelMutation(f)
  \/ InvalidateRead(f) \/ ResetRead(f)
  \/ /\ ~disposed /\ mutation[f].generation < MaxCalls
     /\ ResetMutation(f)
     /\ UNCHANGED <<read, appVars>>
-----------------------------------------------------------------------------
(* Instance.resolve *)

Answered(id) ==
  /\ id \in issued /\ answers < MaxAnswers
  /\ answers' = answers + 1

Suppress == suppressed' = suppressed + 1

Receiver(id) == ownership[id].era = era /\ ownership[id].feature \in enabled /\ ~disposed

ResolveSuppressed(id) ==
  /\ Answered(id)
  /\ id \in Owned => ~Receiver(id)
  /\ ownership' = Without({id})
  /\ Suppress
  /\ UNCHANGED <<resourceVars, issued, tickets, enabled, disposed, era, delivered,
                 outdated, raised>>

\* Faulty: the claim is kept when the result is handed over.
DisownedNot(id) == UNCHANGED ownership

Disowned(id) == ownership' = Without({id})

\* what the feature's resolve does with an answer of its request
SettleRead(f, ticket) ==
  /\ \/ \E isEmpty \in BOOLEAN : read' = [read EXCEPT ![f] = Resolved(@, ticket, isEmpty)]
     \/ read' = [read EXCEPT ![f] = Rejected(@, ticket)]
  /\ UNCHANGED <<mutation, changed, raised>>

SettleMutation(f, ticket) ==
  /\ Accept(f, ticket) \/ Refuse(f, ticket) \/ Ignore(f, ticket)
  /\ UNCHANGED <<read, raised>>

\* isEmpty, accept or the check of an error raised: the ticket stays active
SettleRaises(f, purpose, ticket) ==
  /\ SameTicket(IF purpose = "read" THEN read[f] ELSE mutation[f], ticket)
  /\ \/ UNCHANGED resourceVars
     \/ purpose = "mutation" /\ RefuseRaises(f, ticket) /\ UNCHANGED read
  /\ raised' = TRUE

ResolveDelivered(id) ==
  /\ Answered(id)
  /\ id \in Owned /\ Receiver(id)
  /\ Disowned(id)
  /\ delivered' = [delivered EXCEPT ![id] = @ + 1]
  /\ LET f == ownership[id].feature
         purpose == ownership[id].purpose
         mine == {t \in tickets[f] : t.request = id} IN
     /\ tickets' = [tickets EXCEPT ![f] = @ \ mine]
     /\ \/ mine = {} /\ UNCHANGED <<resourceVars, raised>>
        \/ \E ticket \in mine :
             \/ purpose = "read" /\ SettleRead(f, ticket)
             \/ purpose = "mutation" /\ SettleMutation(f, ticket)
             \/ SettleRaises(f, purpose, ticket)
  /\ UNCHANGED <<issued, enabled, disposed, era, suppressed, outdated>>
-----------------------------------------------------------------------------
(* Instance.handle of the lifecycle event "dispose": the records are       *)
(* deactivated, the handlers run, and then disposeAll.                     *)

DisposeInterrupted ==
  /\ ~disposed
  /\ enabled' = {} /\ raised' = TRUE
  /\ UNCHANGED <<resourceVars, issued, ownership, tickets, disposed, era, suppressed,
                 answers, delivered, outdated>>

\* the dispose hooks of these features: cancel everything and forget the tickets
HooksRun(completed) ==
  /\ read' = [f \in Features |-> IF f \in completed THEN Cancelled(read[f]) ELSE read[f]]
  /\ mutation' = [f \in Features |->
                   IF f \in completed THEN Abandoned(mutation[f]) ELSE mutation[f]]
  /\ changed' = [f \in Features |->
                  IF f \in completed THEN RolledBack(f) ELSE changed[f]]
  /\ tickets' = [f \in Features |-> IF f \in completed THEN {} ELSE tickets[f]]

\* Faulty: the claims outlive the application.
ClearedNot == UNCHANGED ownership

Cleared == ownership' = <<>>

\* a hook that raises keeps the ones after it from being called
Dispose ==
  /\ ~disposed
  /\ disposed' = TRUE /\ enabled' = {} /\ era' = era + 1
  /\ Cleared
  /\ \E completed \in SUBSET Features :
       /\ HooksRun(completed)
       /\ raised' = (raised \/ completed # Features)
  /\ outdated' = issued
  /\ UNCHANGED <<issued, suppressed, answers, delivered>>

Next ==
  \/ \E f \in Features : Handle(f)
  \/ \E id \in Requests : ResolveSuppressed(id) \/ ResolveDelivered(id)
  \/ DisposeInterrupted \/ Dispose

Spec == Init /\ [][Next]_vars
-----------------------------------------------------------------------------
(* Properties. *)

\* "delivers the completion exactly once to the owning feature": no request is
\* handed over twice, whatever the host repeats, and every other answer is
\* counted as suppressed.
DeliveredOnce ==
  /\ \A id \in Requests : delivered[id] <= 1
  /\ answers = Cardinality({id \in Requests : delivered[id] # 0}) + suppressed

\* "a result carrying an older ticket returns false without changing current
\* state": the answer of a request that was superseded, cancelled, reset or
\* disposed of changes neither a read nor a mutation of its feature, and from the
\* moment disposal began no feature is handed anything.
LateAnswersChangeNothing ==
  [][/\ \A id \in outdated : delivered'[id] # delivered[id] => UNCHANGED resourceVars
     /\ enabled = {} => UNCHANGED delivered]_vars

\* While nothing raised, a read or mutation that is under way has its request
\* claimed by its feature and its ticket kept, so the answer will reach it.
WaitersAreServed ==
  ~raised => \A f \in Features :
    /\ Waiting(read[f]) =>
         /\ Active(read[f]) \subseteq Owned /\ read[f].active \in tickets[f]
    /\ Waiting(mutation[f]) =>
         /\ Active(mutation[f]) \subseteq Owned /\ mutation[f].active \in tickets[f]

\* No answer is lost and none comes twice.
AnswersArrive == DeliveredOnce /\ WaitersAreServed
=============================================================================
