----------------------------- MODULE SdkProofs -----------------------------
(***************************************************************************)
(* Theorems about the SDK's states.  Composed applications, for any number *)
(* of features and of requests, however answers, cancellations, failures   *)
(* and disposal interleave: reads stay coherent, optimistic changes are    *)
(* settled exactly once, every answer is handed over once or counted as    *)
(* suppressed, whoever waits is reached, and a late answer changes         *)
(* nothing.  Navigation, for any places, depth of the stack and moves: the *)
(* application and the browser agree on where they are.  Paged collections,*)
(* for any number of records, pages and edits: no item is held twice, the  *)
(* budget is kept, and the records stay in order without gaps.             *)
(***************************************************************************)
EXTENDS MCSdk, FiniteSetTheorems, SequenceTheorems, WellFoundedInduction, TLAPS

\* The read states alone are inductive.
ReadsInv == read \in [Features -> ReadStates] /\ ReadsAreCoherent

\* What a mutation would roll back is in force and belongs to the execution
\* under way; without one there is nothing to roll back.
Sound(m, changes) ==
  /\ m.rollback # None => m.rollback \in changes /\ m.active.request = m.rollback
  /\ ~Waiting(m) => m.rollback = None

MutationsInv ==
  /\ mutation \in [Features -> MutationStates]
  /\ changed \in [Features -> SUBSET Requests]
  /\ \A f \in Features : Sound(mutation[f], changed[f])

\* Tickets that were given out.
GivenOut == [request: Requests, generation: Nat]

TicketsInv == tickets \in [Features -> SUBSET GivenOut]

AppInv == ReadsInv /\ MutationsInv /\ TicketsInv /\ enabled \subseteq Features
-----------------------------------------------------------------------------
(* Tickets. *)

\* Tickets that were given out are tickets, and none of them is the absent one.
LEMMA TicketFacts ==
  /\ NoTicket \in Tickets
  /\ \A id \in Requests, g \in Nat :
       /\ Ticket(id, g) \in GivenOut /\ Ticket(id, g) \in Tickets
       /\ Ticket(id, g) # NoTicket
       /\ Ticket(id, g).request = id
  /\ \A t \in GivenOut : t # NoTicket /\ t.request \in Requests
  /\ None \in Ids /\ None \notin Requests /\ Requests \subseteq Ids
<1>1. None \in Ids /\ None \notin Requests /\ Requests \subseteq Ids /\ None \in Nat
  BY ResourcesAssumption DEF Ids, None
<1>2. NoTicket = [request |-> None, generation |-> 0]
  BY DEF NoTicket, Ticket
<1>3. NoTicket \in Tickets /\ NoTicket.request = None
  BY <1>1, <1>2 DEF Tickets
<1>4. ASSUME NEW id \in Requests, NEW g \in Nat
      PROVE  /\ Ticket(id, g) \in GivenOut /\ Ticket(id, g) \in Tickets
             /\ Ticket(id, g).request = id
  BY <1>1 DEF Ticket, Tickets, GivenOut
<1>5. \A t \in GivenOut : t # NoTicket /\ t.request \in Requests
  BY <1>1, <1>3 DEF GivenOut
<1> QED
  BY <1>1, <1>3, <1>4, <1>5
-----------------------------------------------------------------------------
(* The operations of a read. *)

\* begin: a read that was given a ticket is under way, whatever it was before.
LEMMA BegunCoherent ==
  ASSUME NEW r \in ReadStates, NEW id \in Requests, NEW mode
  PROVE  Begun(r, id, mode) \in ReadStates /\ Coherent(Begun(r, id, mode))
<1>1. /\ Mode(r, mode) \in {"loading", "refreshing", "retrying"}
      /\ Mode(r, mode) = "refreshing" => r.value # None
  BY DEF Mode
<1>2. r.generation + 1 \in Nat /\ r.value \in Ids
  BY DEF ReadStates
<1> DEFINE t == Ticket(id, r.generation + 1)
<1>3. t \in Tickets /\ t # NoTicket
  BY <1>2, TicketFacts
<1>4. Begun(r, id, mode) = [status |-> Mode(r, mode), value |-> r.value,
         invalidated |-> FALSE, generation |-> r.generation + 1, active |-> t]
  BY DEF Begun
<1> HIDE DEF t
<1> QED
  BY <1>1, <1>2, <1>3, <1>4 DEF ReadStates, ReadStatuses, Coherent, Waiting, Stale

\* resolve and reject: the answer to a ticket that was given out ends the read of
\* that ticket and no other.
LEMMA SettledCoherent ==
  ASSUME NEW r \in ReadStates, Coherent(r), NEW t \in GivenOut, NEW e \in BOOLEAN
  PROVE  /\ Resolved(r, t, e) \in ReadStates /\ Coherent(Resolved(r, t, e))
         /\ Rejected(r, t) \in ReadStates /\ Coherent(Rejected(r, t))
<1>1. CASE ~SameTicket(r, t)
  BY <1>1 DEF Resolved, Rejected
<1>2. CASE SameTicket(r, t)
  <2>1. /\ r.active # NoTicket /\ t.request \in Ids /\ t.request # None
        /\ r.value \in Ids /\ r.generation \in Nat /\ r.invalidated \in BOOLEAN
        /\ NoTicket \in Tickets
    BY <1>2, TicketFacts DEF SameTicket, ReadStates
  <2>2. Resolved(r, t, e) \in ReadStates /\ Coherent(Resolved(r, t, e))
    BY <1>2, <2>1 DEF Resolved, ReadStates, ReadStatuses, Coherent, Waiting, Stale
  <2>3. Rejected(r, t) \in ReadStates /\ Coherent(Rejected(r, t))
    BY <1>2, <2>1 DEF Rejected, ReadStates, ReadStatuses, Coherent, Waiting, Stale
  <2> QED
    BY <2>2, <2>3
<1> QED
  BY <1>1, <1>2

\* cancel, invalidate, reset.
LEMMA InterruptedCoherent ==
  ASSUME NEW r \in ReadStates, Coherent(r)
  PROVE  /\ Cancelled(r) \in ReadStates /\ Coherent(Cancelled(r))
         /\ Invalidated(r) \in ReadStates /\ Coherent(Invalidated(r))
         /\ Reset(r) \in ReadStates /\ Coherent(Reset(r))
<1>1. /\ r.status \in ReadStatuses /\ r.value \in Ids /\ r.invalidated \in BOOLEAN
      /\ r.generation \in Nat /\ r.generation + 1 \in Nat /\ r.active \in Tickets
      /\ NoTicket \in Tickets /\ None \in Ids
  BY TicketFacts DEF ReadStates
<1>2. Cancelled(r) \in ReadStates /\ Coherent(Cancelled(r))
  <2>1. CASE ~Waiting(r)
    BY <2>1 DEF Cancelled
  <2>2. CASE Waiting(r)
    BY <1>1, <2>2 DEF Cancelled, ReadStates, ReadStatuses, Coherent, Waiting, Stale
  <2> QED
    BY <2>1, <2>2
<1>3. Invalidated(r) \in ReadStates /\ Coherent(Invalidated(r))
  BY <1>1 DEF Invalidated, ReadStates, Coherent, Waiting, Stale
<1>4. Reset(r) \in ReadStates /\ Coherent(Reset(r))
  BY <1>1 DEF Reset, ReadStates, ReadStatuses, Coherent, Waiting, Stale
<1> QED
  BY <1>2, <1>3, <1>4

\* A step that gives one feature a coherent read keeps all reads coherent.
LEMMA ReadUpdate ==
  ASSUME ReadsInv, NEW f \in Features, NEW r \in ReadStates, Coherent(r),
         read' = [read EXCEPT ![f] = r]
  PROVE  ReadsInv'
BY DEF ReadsInv, ReadsAreCoherent
-----------------------------------------------------------------------------
(* The operations of a mutation. *)

\* The states an operation leaves are states of a mutation.
LEMMA MutationRows ==
  ASSUME NEW m \in MutationStates
  PROVE  /\ \A id \in Requests, optimistic \in BOOLEAN :
              Submitted(m, id, optimistic) \in MutationStates
         /\ Counted(m) \in MutationStates /\ Spoiled(m) \in MutationStates
         /\ \A s \in MutationStatuses, v \in Ids, g \in Nat :
              Ended(m, s, v, g) \in MutationStates
         /\ Abandoned(m) \in MutationStates
<1>1. /\ m.status \in MutationStatuses /\ m.value \in Ids /\ m.rollback \in Ids
      /\ m.generation \in Nat /\ m.generation + 1 \in Nat /\ m.active \in Tickets
      /\ NoTicket \in Tickets /\ None \in Ids
  BY TicketFacts DEF MutationStates
<1>2. ASSUME NEW id \in Requests, NEW optimistic \in BOOLEAN
      PROVE  Submitted(m, id, optimistic) \in MutationStates
  <2>1. /\ (IF optimistic THEN id ELSE None) \in Ids
        /\ Ticket(id, m.generation + 1) \in Tickets
    BY <1>1, TicketFacts
  <2> QED
    BY <1>1, <2>1 DEF Submitted, MutationStates, MutationStatuses
<1>3. Counted(m) \in MutationStates
  BY <1>1 DEF Counted, MutationStates
<1>4. Spoiled(m) \in MutationStates
  BY <1>1 DEF Spoiled, MutationStates, MutationStatuses
<1>5. \A s \in MutationStatuses, v \in Ids, g \in Nat : Ended(m, s, v, g) \in MutationStates
  BY <1>1 DEF Ended, MutationStates
<1>6. Abandoned(m) \in MutationStates
  BY <1>1, <1>5 DEF Abandoned, MutationStatuses
<1> QED
  BY <1>2, <1>3, <1>4, <1>5, <1>6

\* A step that gives one feature a sound mutation, settled against the one before,
\* settles every feature.
LEMMA MutationUpdate ==
  ASSUME MutationsInv, NEW f \in Features, NEW m \in MutationStates,
         NEW changes \in SUBSET Requests, Sound(m, changes),
         mutation' = [mutation EXCEPT ![f] = m], changed' = [changed EXCEPT ![f] = changes],
         Settles(f)
  PROVE  MutationsInv' /\ \A g \in Features : Settles(g)
<1>1. /\ mutation' \in [Features -> MutationStates]
      /\ changed' \in [Features -> SUBSET Requests]
  BY DEF MutationsInv
<1>2. ASSUME NEW g \in Features
      PROVE  Sound(mutation'[g], changed'[g])
  BY DEF MutationsInv
<1>3. ASSUME NEW g \in Features, g # f
      PROVE  Settles(g)
  <2>1. mutation'[g] = mutation[g] /\ changed'[g] = changed[g]
    BY <1>3 DEF MutationsInv
  <2> QED
    BY <2>1 DEF MutationsInv, Settles, Sound
<1> QED
  BY <1>1, <1>2, <1>3 DEF MutationsInv

\* begin, resolve, reject, cancel and reset, also where they raise: what is in
\* force stays what the mutation would roll back, and every end of a mutation
\* keeps its change if and only if it succeeded.
LEMMA MutationOperations ==
  ASSUME MutationsInv, NEW f \in Features,
         \/ \E id \in Requests, optimistic \in BOOLEAN :
              Submittable(mutation[f]) /\ Submit(f, id, optimistic)
         \/ Submittable(mutation[f]) /\ SubmitRaises(f)
         \/ \E t \in GivenOut : Accept(f, t) \/ Refuse(f, t) \/ RefuseRaises(f, t)
         \/ Abandon(f) \/ ResetMutation(f)
  PROVE  MutationsInv' /\ \A g \in Features : Settles(g)
<1> DEFINE m == mutation[f]
           c == changed[f]
           Goal == MutationsInv' /\ \A g \in Features : Settles(g)
<1>1. /\ m \in MutationStates /\ c \in SUBSET Requests /\ Sound(m, c)
      /\ m.rollback \in Ids /\ m.generation \in Nat /\ m.generation + 1 \in Nat
      /\ changed = [changed EXCEPT ![f] = c]
      /\ mutation = [mutation EXCEPT ![f] = m]
  BY DEF MutationsInv, MutationStates
<1>2. ASSUME NEW id \in Requests, NEW optimistic \in BOOLEAN,
             Submittable(m) /\ Submit(f, id, optimistic)
      PROVE  Goal
  <2> DEFINE n == Submitted(m, id, optimistic)
             d == IF optimistic THEN c \cup {id} ELSE c
  <2>1. n \in MutationStates /\ d \in SUBSET Requests
    BY <1>1, MutationRows
  <2>2. mutation' = [mutation EXCEPT ![f] = n] /\ changed' = [changed EXCEPT ![f] = d]
    BY <1>2 DEF Submit
  <2>3. /\ n.rollback = IF optimistic THEN id ELSE None
        /\ n.active.request = id /\ n.active # NoTicket
        /\ m.rollback = None
    BY <1>1, <1>2, TicketFacts DEF Submitted, Submittable, Sound
  <2>4. Sound(n, d)
    BY <2>3 DEF Sound, Waiting
  <2>5. mutation'[f] = n /\ changed'[f] = d
    BY <2>2 DEF MutationsInv
  <2> HIDE DEF n, d
  <2>6. Settles(f)
    BY <2>3, <2>5 DEF Settles, d
  <2> QED
    BY <2>1, <2>2, <2>4, <2>6, MutationUpdate
<1>3. CASE Submittable(m) /\ SubmitRaises(f)
  <2> DEFINE n == Counted(m)
  <2>1. n \in MutationStates
    BY <1>1, MutationRows
  <2>2. mutation' = [mutation EXCEPT ![f] = n] /\ changed' = [changed EXCEPT ![f] = c]
    BY <1>1, <1>3 DEF SubmitRaises
  <2>3. n.rollback = None /\ n.active = m.active /\ m.rollback = None
    BY <1>1, <1>3 DEF Counted, Submittable, Sound
  <2>4. mutation'[f] = n /\ changed'[f] = c
    BY <2>2 DEF MutationsInv
  <2> HIDE DEF n
  <2>5. Sound(n, c) /\ Settles(f)
    BY <2>3, <2>4 DEF Sound, Settles
  <2> QED
    BY <1>1, <2>1, <2>2, <2>5, MutationUpdate
<1>4. ASSUME NEW t \in GivenOut, Accept(f, t)
      PROVE  Goal
  <2> DEFINE n == Ended(m, "succeeded", t.request, m.generation)
  <2>1. n \in MutationStates
    BY <1>1, MutationRows, TicketFacts DEF MutationStatuses
  <2>2. mutation' = [mutation EXCEPT ![f] = n] /\ changed' = [changed EXCEPT ![f] = c]
    BY <1>1, <1>4 DEF Accept
  <2>3. n.rollback = None /\ n.active = NoTicket /\ n.status = "succeeded"
    BY DEF Ended
  <2>4. mutation'[f] = n /\ changed'[f] = c
    BY <2>2 DEF MutationsInv
  <2> HIDE DEF n
  <2>5. Sound(n, c) /\ Settles(f)
    BY <1>1, <2>3, <2>4 DEF Sound, Settles
  <2> QED
    BY <1>1, <2>1, <2>2, <2>5, MutationUpdate
<1>5. ASSUME NEW t, Refuse(f, t) \/ (Abandon(f) /\ Waiting(m))
      PROVE  Goal
  <2> DEFINE d == c \ {m.rollback}
  <2>1. PICK n \in MutationStates :
          /\ mutation' = [mutation EXCEPT ![f] = n] /\ changed' = [changed EXCEPT ![f] = d]
          /\ n.rollback = None /\ n.status # "succeeded"
    <3>1. \A s \in {"failed", "cancelled"}, g \in Nat :
            /\ Ended(m, s, None, g) \in MutationStates
            /\ Ended(m, s, None, g).rollback = None
            /\ Ended(m, s, None, g).status # "succeeded"
      BY <1>1, MutationRows, TicketFacts DEF MutationStatuses, Ended
    <3>2. CASE Refuse(f, t)
      BY <1>1, <3>1, <3>2 DEF Refuse, RolledBack
    <3>3. CASE Abandon(f) /\ Waiting(m)
      BY <1>1, <3>1, <3>3 DEF Abandon, Abandoned, RolledBack
    <3> QED
      BY <1>5, <3>2, <3>3
  <2>2. mutation'[f] = n /\ changed'[f] = d
    BY <2>1 DEF MutationsInv
  <2>3. Sound(n, d) /\ Settles(f)
    BY <2>1, <2>2 DEF Sound, Settles
  <2>4. d \in SUBSET Requests
    BY <1>1
  <2> QED
    BY <2>1, <2>3, <2>4, MutationUpdate
<1>6. CASE Abandon(f) /\ ~Waiting(m)
  <2>1. mutation' = [mutation EXCEPT ![f] = m] /\ changed' = [changed EXCEPT ![f] = c]
    <3>1. c \ {m.rollback} = c
      BY <1>1, <1>6, TicketFacts DEF Sound
    <3> QED
      BY <1>6, <3>1 DEF Abandon, Abandoned, RolledBack
  <2>2. mutation'[f] = m /\ changed'[f] = c
    BY <2>1 DEF MutationsInv
  <2>3. Settles(f)
    BY <1>1, <2>2 DEF Sound, Settles
  <2> QED
    BY <1>1, <2>1, <2>3, MutationUpdate
<1>7. ASSUME NEW t \in GivenOut, RefuseRaises(f, t)
      PROVE  Goal
  <2> DEFINE n == Spoiled(m)
  <2>1. n \in MutationStates
    BY <1>1, MutationRows
  <2>2. mutation' = [mutation EXCEPT ![f] = n] /\ changed' = [changed EXCEPT ![f] = c]
    BY <1>1, <1>7 DEF RefuseRaises
  <2>3. n.rollback = m.rollback /\ n.active = m.active
    BY DEF Spoiled
  <2>4. mutation'[f] = n /\ changed'[f] = c
    BY <2>2 DEF MutationsInv
  <2> HIDE DEF n
  <2>5. Sound(n, c) /\ Settles(f)
    BY <1>1, <2>3, <2>4 DEF Sound, Settles, Waiting
  <2> QED
    BY <1>1, <2>1, <2>2, <2>5, MutationUpdate
<1>8. CASE ResetMutation(f)
  <2> DEFINE n == Ended(m, "idle", None, m.generation + 1)
  <2>1. n \in MutationStates
    BY <1>1, MutationRows, TicketFacts DEF MutationStatuses
  <2>2. mutation' = [mutation EXCEPT ![f] = n] /\ changed' = [changed EXCEPT ![f] = c]
    BY <1>1, <1>8 DEF ResetMutation
  <2>3. n.rollback = None /\ m.rollback = None
    BY <1>1, <1>8 DEF Ended, ResetMutation, Submittable, Sound
  <2>4. mutation'[f] = n /\ changed'[f] = c
    BY <2>2 DEF MutationsInv
  <2> HIDE DEF n
  <2>5. Sound(n, c) /\ Settles(f)
    BY <2>3, <2>4 DEF Sound, Settles
  <2> QED
    BY <1>1, <2>1, <2>2, <2>5, MutationUpdate
<1> QED
  BY <1>2, <1>3, <1>4, <1>5, <1>6, <1>7, <1>8
-----------------------------------------------------------------------------
(* The actions of an application. *)

\* What a delivered answer may do: settle a read or a mutation of its feature, or
\* raise, with a ticket the feature kept.
LEMMA Delivery ==
  ASSUME AppInv, NEW id \in Requests, ResolveDelivered(id)
  PROVE  /\ \/ UNCHANGED resourceVars
            \/ \E f \in Features, t \in GivenOut :
                 \/ SettleRead(f, t) \/ SettleMutation(f, t)
                 \/ RefuseRaises(f, t) /\ UNCHANGED read
         /\ TicketsInv'
<1> DEFINE f == ownership[id].feature
           mine == {t \in tickets[f] : t.request = id}
<1>1. f \in Features
  BY DEF AppInv, ResolveDelivered, Receiver
<1>2. mine \subseteq GivenOut
  BY <1>1 DEF AppInv, TicketsInv
<1>3. tickets' = [tickets EXCEPT ![f] = @ \ mine]
  BY DEF ResolveDelivered
<1>4. TicketsInv'
  BY <1>1, <1>3 DEF AppInv, TicketsInv
<1>5. \/ UNCHANGED resourceVars
      \/ \E t \in mine :
           SettleRead(f, t) \/ SettleMutation(f, t) \/ SettleRaises(f, ownership[id].purpose, t)
  BY DEF ResolveDelivered, resourceVars
<1> HIDE DEF f, mine
<1> QED
  BY <1>1, <1>2, <1>4, <1>5 DEF SettleRaises

\* Every step keeps the reads coherent.
LEMMA ReadsStep ==
  ASSUME AppInv, Next
  PROVE  ReadsInv'
<1>1. ASSUME NEW f \in Features
      PROVE  read[f] \in ReadStates /\ Coherent(read[f])
  BY DEF AppInv, ReadsInv, ReadsAreCoherent
<1>2. ASSUME UNCHANGED read
      PROVE  ReadsInv'
  BY <1>2 DEF AppInv, ReadsInv, ReadsAreCoherent
<1>3. ASSUME NEW f \in Features, NEW r \in ReadStates, Coherent(r),
             read' = [read EXCEPT ![f] = r]
      PROVE  ReadsInv'
  BY <1>3, ReadUpdate DEF AppInv
<1>4. ASSUME NEW f \in Features, Handle(f)
      PROVE  ReadsInv'
  <2>1. CASE \E mode \in {"load", "refresh", "retry"} : StartRead(f, mode)
    <3>1. PICK mode \in {"load", "refresh", "retry"} : StartRead(f, mode)
      BY <2>1
    <3>2. NextId \in Requests /\ read' = [read EXCEPT ![f] = Begun(read[f], NextId, mode)]
      BY <3>1 DEF StartRead, Issue
    <3> QED
      BY <1>1, <1>3, <3>2, BegunCoherent
  <2>2. CASE CancelRead(f)
    BY <1>1, <1>3, <2>2, InterruptedCoherent DEF CancelRead
  <2>3. CASE InvalidateRead(f)
    BY <1>1, <1>3, <2>3, InterruptedCoherent DEF InvalidateRead
  <2>4. CASE ResetRead(f)
    BY <1>1, <1>3, <2>4, InterruptedCoherent DEF ResetRead
  <2>5. CASE \/ \E optimistic \in BOOLEAN : StartMutation(f, optimistic)
             \/ StartMutationRaises(f) \/ CancelMutation(f)
             \/ ResetMutation(f) /\ UNCHANGED <<read, appVars>>
    BY <1>2, <2>5 DEF StartMutation, StartMutationRaises, CancelMutation
  <2> QED
    BY <1>4, <2>1, <2>2, <2>3, <2>4, <2>5 DEF Handle
<1>5. ASSUME NEW id \in Requests, ResolveDelivered(id)
      PROVE  ReadsInv'
  <2>1. CASE UNCHANGED read
    BY <1>2, <2>1
  <2>2. ASSUME NEW f \in Features, NEW t \in GivenOut, SettleRead(f, t)
        PROVE  ReadsInv'
    BY <1>1, <1>3, <2>2, SettledCoherent DEF SettleRead
  <2> QED
    BY <1>5, <2>1, <2>2, Delivery DEF SettleMutation, resourceVars
<1>6. CASE Dispose
  <2>1. PICK completed \in SUBSET Features : HooksRun(completed)
    BY <1>6 DEF Dispose
  <2>2. read' = [f \in Features |->
                  IF f \in completed THEN Cancelled(read[f]) ELSE read[f]]
    BY <2>1 DEF HooksRun
  <2>3. ASSUME NEW f \in Features
        PROVE  /\ Cancelled(read[f]) \in ReadStates /\ Coherent(Cancelled(read[f]))
               /\ read[f] \in ReadStates /\ Coherent(read[f])
    BY <1>1, InterruptedCoherent
  <2> QED
    BY <2>2, <2>3 DEF ReadsInv, ReadsAreCoherent
<1>7. CASE DisposeInterrupted \/ \E id \in Requests : ResolveSuppressed(id)
  BY <1>2, <1>7 DEF DisposeInterrupted, ResolveSuppressed, resourceVars
<1> QED
  BY <1>4, <1>5, <1>6, <1>7 DEF Next

\* Every step settles the optimistic change of each feature, or leaves it alone.
LEMMA MutationsStep ==
  ASSUME AppInv, Next
  PROVE  /\ MutationsInv'
         /\ UNCHANGED resourceVars \/ \A f \in Features : Settles(f)
<1> DEFINE Step == MutationsInv' /\ \A f \in Features : Settles(f)
<1>1. ASSUME UNCHANGED <<mutation, changed>>
      PROVE  Step
  <2>1. MutationsInv'
    BY <1>1 DEF AppInv, MutationsInv
  <2>2. \A f \in Features : Settles(f)
    BY <1>1 DEF AppInv, MutationsInv, Sound, Settles
  <2> QED
    BY <2>1, <2>2
<1>2. MutationsInv
  BY DEF AppInv
<1>3. ASSUME NEW f \in Features, Handle(f)
      PROVE  Step
  <2>1. CASE \E optimistic \in BOOLEAN : StartMutation(f, optimistic)
    <3>1. PICK optimistic \in BOOLEAN : StartMutation(f, optimistic)
      BY <2>1
    <3>2. NextId \in Requests /\ Submittable(mutation[f]) /\ Submit(f, NextId, optimistic)
      BY <3>1 DEF StartMutation, Issue
    <3> QED
      BY <1>2, <3>2, MutationOperations
  <2>2. CASE StartMutationRaises(f)
    <3>1. \/ Submittable(mutation[f]) /\ SubmitRaises(f)
          \/ UNCHANGED <<mutation, changed>>
      BY <2>2 DEF StartMutationRaises
    <3> QED
      BY <1>1, <1>2, <3>1, MutationOperations
  <2>3. CASE CancelMutation(f) \/ ResetMutation(f)
    <3>1. Abandon(f) \/ ResetMutation(f)
      BY <2>3 DEF CancelMutation
    <3> QED
      BY <1>2, <3>1, MutationOperations
  <2>4. CASE \/ \E mode \in {"load", "refresh", "retry"} : StartRead(f, mode)
             \/ CancelRead(f) \/ InvalidateRead(f) \/ ResetRead(f)
    BY <1>1, <2>4 DEF StartRead, CancelRead, InvalidateRead, ResetRead
  <2> QED
    BY <1>3, <2>1, <2>2, <2>3, <2>4 DEF Handle
<1>4. ASSUME NEW id \in Requests, ResolveDelivered(id)
      PROVE  Step
  <2>1. ASSUME NEW f \in Features, NEW t \in GivenOut,
               SettleMutation(f, t) \/ RefuseRaises(f, t)
        PROVE  Step
    BY <1>1, <1>2, <2>1, MutationOperations DEF SettleMutation, Ignore
  <2>2. ASSUME NEW f \in Features, NEW t \in GivenOut, SettleRead(f, t)
        PROVE  Step
    BY <1>1, <2>2 DEF SettleRead
  <2> QED
    BY <1>1, <1>4, <2>1, <2>2, Delivery DEF resourceVars
<1>5. CASE Dispose
  <2>1. PICK completed \in SUBSET Features : HooksRun(completed)
    BY <1>5 DEF Dispose
  <2>2. /\ mutation' = [f \in Features |->
                          IF f \in completed THEN Abandoned(mutation[f]) ELSE mutation[f]]
        /\ changed' = [f \in Features |->
                         IF f \in completed THEN RolledBack(f) ELSE changed[f]]
    BY <2>1 DEF HooksRun
  <2>3. ASSUME NEW f \in Features
        PROVE  /\ mutation'[f] \in MutationStates /\ changed'[f] \in SUBSET Requests
               /\ Sound(mutation'[f], changed'[f]) /\ Settles(f)
    <3> DEFINE m == mutation[f]
    <3>1. m \in MutationStates /\ changed[f] \in SUBSET Requests /\ Sound(m, changed[f])
      BY <1>2 DEF MutationsInv
    <3>2. CASE f \in completed /\ Waiting(m)
      <4>1. mutation'[f] = Ended(m, "cancelled", None, m.generation + 1)
        BY <2>2, <3>2 DEF Abandoned
      <4>2. changed'[f] = changed[f] \ {m.rollback}
        BY <2>2, <3>2 DEF RolledBack
      <4>3. mutation'[f] \in MutationStates
        BY <2>2, <3>1, <3>2, MutationRows
      <4>4. mutation'[f].rollback = None /\ mutation'[f].status # "succeeded"
        BY <4>1 DEF Ended
      <4> QED
        BY <3>1, <4>2, <4>3, <4>4 DEF Sound, Settles
    <3>3. CASE ~(f \in completed /\ Waiting(m))
      <4>1. mutation'[f] = m
        BY <2>2, <3>3 DEF Abandoned
      <4>2. changed'[f] = changed[f]
        BY <2>2, <3>1, <3>3, TicketFacts DEF RolledBack, Sound
      <4> QED
        BY <3>1, <4>1, <4>2 DEF Sound, Settles
    <3> QED
      BY <3>2, <3>3
  <2>4. /\ mutation' \in [Features -> MutationStates]
        /\ changed' \in [Features -> SUBSET Requests]
    BY <2>2, <2>3
  <2> QED
    BY <2>3, <2>4 DEF MutationsInv
<1>6. CASE DisposeInterrupted \/ \E id \in Requests : ResolveSuppressed(id)
  BY <1>1, <1>6 DEF DisposeInterrupted, ResolveSuppressed, resourceVars
<1> QED
  BY <1>3, <1>4, <1>5, <1>6 DEF Next

\* The tickets a feature keeps were given out.
LEMMA TicketsStep ==
  ASSUME AppInv, Next
  PROVE  TicketsInv' /\ enabled' \subseteq Features
<1>1. ASSUME UNCHANGED tickets
      PROVE  TicketsInv'
  BY <1>1 DEF AppInv, TicketsInv
<1>2. ASSUME NEW f \in Features, NEW t \in GivenOut, Keep(f, t)
      PROVE  TicketsInv'
  BY <1>2 DEF AppInv, TicketsInv, Keep
<1>3. ASSUME NEW f \in Features, Handle(f)
      PROVE  TicketsInv'
  <2>1. CASE \E mode \in {"load", "refresh", "retry"} : StartRead(f, mode)
    <3>1. PICK mode \in {"load", "refresh", "retry"} : StartRead(f, mode)
      BY <2>1
    <3>2. NextId \in Requests /\ Keep(f, read'[f].active)
      BY <3>1 DEF StartRead, Issue
    <3>3. read'[f] = Begun(read[f], NextId, mode) /\ read[f].generation \in Nat
      BY <3>1 DEF StartRead, AppInv, ReadsInv, ReadStates
    <3>4. read'[f].active = Ticket(NextId, read[f].generation + 1)
      BY <3>3 DEF Begun
    <3>5. read'[f].active \in GivenOut
      BY <3>2, <3>3, <3>4, TicketFacts
    <3> QED
      BY <1>2, <3>2, <3>5
  <2>2. CASE \E optimistic \in BOOLEAN : StartMutation(f, optimistic)
    <3>1. PICK optimistic \in BOOLEAN : StartMutation(f, optimistic)
      BY <2>2
    <3>2. NextId \in Requests /\ Keep(f, mutation'[f].active)
      BY <3>1 DEF StartMutation, Issue
    <3>3. /\ mutation'[f] = Submitted(mutation[f], NextId, optimistic)
          /\ mutation[f].generation \in Nat
      BY <3>1 DEF StartMutation, Submit, AppInv, MutationsInv, MutationStates
    <3>4. mutation'[f].active = Ticket(NextId, mutation[f].generation + 1)
      BY <3>3 DEF Submitted
    <3>5. mutation'[f].active \in GivenOut
      BY <3>2, <3>3, <3>4, TicketFacts
    <3> QED
      BY <1>2, <3>2, <3>5
  <2>3. CASE \/ StartMutationRaises(f) \/ CancelRead(f) \/ CancelMutation(f)
             \/ InvalidateRead(f) \/ ResetRead(f)
             \/ ResetMutation(f) /\ UNCHANGED <<read, appVars>>
    BY <1>1, <2>3 DEF StartMutationRaises, CancelRead, CancelMutation, InvalidateRead,
                      ResetRead, appVars
  <2> QED
    BY <1>3, <2>1, <2>2, <2>3 DEF Handle
<1>4. ASSUME Dispose
      PROVE  TicketsInv'
  BY <1>4 DEF Dispose, HooksRun, AppInv, TicketsInv
<1>5. ASSUME DisposeInterrupted \/ \E id \in Requests : ResolveSuppressed(id)
      PROVE  TicketsInv'
  BY <1>1, <1>5 DEF DisposeInterrupted, ResolveSuppressed
<1>6. enabled' \subseteq Features
  <2>1. UNCHANGED enabled \/ enabled' = {}
    BY DEF Next, Handle, StartRead, StartMutation, StartMutationRaises, CancelRead,
           CancelMutation, InvalidateRead, ResetRead, ResolveSuppressed, ResolveDelivered,
           DisposeInterrupted, Dispose, appVars
  <2> QED
    BY <2>1 DEF AppInv
<1> QED
  BY <1>3, <1>4, <1>5, <1>6, Delivery DEF Next
-----------------------------------------------------------------------------
(* Reads and mutations: the theorems. *)

\* No feature has asked for anything.
LEMMA InitOK == Init => AppInv
<1> SUFFICES ASSUME Init PROVE AppInv
  OBVIOUS
<1>1. ReadsInv
  BY TicketFacts DEF Init, ResourcesInit, ReadsInv, ReadsAreCoherent, ReadStates,
     ReadStatuses, Coherent, Waiting
<1>2. MutationsInv
  BY TicketFacts DEF Init, ResourcesInit, MutationsInv, MutationStates, MutationStatuses,
     Sound, Waiting
<1>3. TicketsInv /\ enabled \subseteq Features
  BY DEF Init, TicketsInv
<1> QED
  BY <1>1, <1>2, <1>3 DEF AppInv

\* Every step keeps reads coherent and mutations sound.
LEMMA StepOK == AppInv /\ [Next]_vars => AppInv'
<1>1. CASE Next
  BY <1>1, ReadsStep, MutationsStep, TicketsStep DEF AppInv
<1>2. CASE UNCHANGED vars
  BY <1>2 DEF vars, appVars, resourceVars, AppInv, ReadsInv, ReadsAreCoherent,
     MutationsInv, TicketsInv
<1> QED
  BY <1>1, <1>2

\* Status, value and ticket of every read agree, after any sequence of begin,
\* resolve, reject, cancel, invalidate and reset of resource.luau.
THEOREM ReadsCoherent == Spec => []ReadsAreCoherent
<1>1. AppInv => ReadsAreCoherent
  BY DEF AppInv, ReadsInv
<1> QED
  BY <1>1, InitOK, StepOK, PTL DEF Spec

\* An optimistic change is kept if its mutation succeeded and rolled back once if
\* it ended in any other way, cancel, raise and disposal of app.luau included.
THEOREM ChangesSettle == Spec => OptimisticSettles
<1>1. AppInv /\ [Next]_vars => [\A f \in Features : Settles(f)]_resourceVars
  BY MutationsStep DEF vars
<1> QED
  BY <1>1, InitOK, StepOK, PTL DEF Spec, OptimisticSettles
-----------------------------------------------------------------------------
(* Whose answer it is: the invariant. *)

\* The ticket that is active for feature f: that of its read or of its mutation.
StateOf(f, p) == IF p = "read" THEN read[f] ELSE mutation[f]
Under(f, p) == StateOf(f, p).active

\* The host counts its ids up.
IssuedInOrder == \E n \in Nat : issued = 1..n

\* A feature keeps one ticket for a request.
TicketsDiffer ==
  \A f \in Features : \A t, u \in tickets[f] : t.request = u.request => t = u

\* A request that was issued is under way in one state of one feature.
ActivesDiffer ==
  \A f, g \in Features, p, q \in Purposes :
    Under(f, p) # NoTicket =>
      /\ Under(f, p).request \in issued
      /\ Under(f, p).request = Under(g, q).request => f = g /\ p = q

\* What a feature gave up is under way nowhere.
OutdatedIsIdle ==
  ~disposed => \A f \in Features, p \in Purposes : Under(f, p).request \notin outdated

\* The answer of what is under way is claimed, by its feature for its purpose, and
\* the ticket kept.
ServedAt(f, p) ==
  LET t == Under(f, p) IN
  t.request \in Owned /\ ownership[t.request] = Owner(f, p) /\ t \in tickets[f]

Served ==
  ~raised =>
    /\ enabled = Features \/ disposed
    /\ \A f \in Features, p \in Purposes : Under(f, p) # NoTicket => ServedAt(f, p)

\* What is claimed was not delivered yet.
Fresh(id) == id \in Owned \/ id \notin issued
ClaimedOnce == \A id \in Requests : Fresh(id) => delivered[id] = 0

AnswersInv ==
  /\ AppInv /\ TypeOK
  /\ IssuedInOrder /\ TicketsDiffer /\ ActivesDiffer /\ OutdatedIsIdle
  /\ Served /\ ClaimedOnce /\ DeliveredOnce

\* What a feature may do to its books: it begins a read or a mutation, gives one up,
\* or fails to begin after the host was asked.
OthersGoOn(f, p) ==
  \A g \in Features, q \in Purposes : g # f \/ q # p => Under(g, q)' = Under(g, q)
AllGoOn == \A g \in Features, q \in Purposes : Under(g, q)' = Under(g, q)

OutOfDate(f, p) == outdated' = outdated \cup ({Under(f, p).request} \ {None})

Begins(f, p) ==
  /\ ~disposed /\ Issue /\ OthersGoOn(f, p)
  /\ \E t \in GivenOut : t.request = NextId /\ Under(f, p)' = t /\ Keep(f, t)
  /\ Claim(f, p) /\ OutOfDate(f, p)
  /\ UNCHANGED <<enabled, disposed, era, suppressed, answers, delivered>>

GivesUp(f, p) ==
  /\ ~disposed /\ OthersGoOn(f, p) /\ Under(f, p)' = NoTicket
  /\ Released(f, {Under(f, p).request} \ {None}) \/ UNCHANGED ownership
  /\ OutOfDate(f, p)
  /\ UNCHANGED <<issued, tickets, enabled, disposed, era, suppressed, answers, delivered,
                 raised>>

BeginFails ==
  /\ Issue /\ AllGoOn /\ raised' = TRUE
  /\ UNCHANGED <<ownership, tickets, enabled, disposed, era, suppressed, answers, delivered,
                 outdated>>

\* An operation on the state of f's purpose p is one on what is under way there.
LEMMA UnderChanges ==
  ASSUME AppInv, NEW f \in Features
  PROVE  /\ \A r : read' = [read EXCEPT ![f] = r] /\ mutation' = mutation
              => OthersGoOn(f, "read") /\ Under(f, "read")' = r.active
         /\ \A m : mutation' = [mutation EXCEPT ![f] = m] /\ read' = read
              => OthersGoOn(f, "mutation") /\ Under(f, "mutation")' = m.active
         /\ read' = read /\ mutation' = mutation => AllGoOn
<1>1. /\ \A r : read' = [read EXCEPT ![f] = r]
           => read'[f] = r /\ \A g \in Features : g # f => read'[g] = read[g]
      /\ \A m : mutation' = [mutation EXCEPT ![f] = m]
           => mutation'[f] = m /\ \A g \in Features : g # f => mutation'[g] = mutation[g]
  BY DEF AppInv, ReadsInv, MutationsInv
<1>2. \A g \in Features, q \in Purposes :
        /\ Under(g, q) = IF q = "read" THEN read[g].active ELSE mutation[g].active
        /\ Under(g, q)' = IF q = "read" THEN read'[g].active ELSE mutation'[g].active
  BY DEF Under, StateOf
<1>3. "read" \in Purposes /\ "mutation" \in Purposes /\ "read" # "mutation"
      /\ \A q \in Purposes : q # "read" => q = "mutation"
  BY DEF Purposes
<1>4. ASSUME NEW r, read' = [read EXCEPT ![f] = r], mutation' = mutation
      PROVE  OthersGoOn(f, "read") /\ Under(f, "read")' = r.active
  <2>1. read'[f] = r /\ \A g \in Features : g # f => read'[g] = read[g]
    BY <1>1, <1>4
  <2>2. ASSUME NEW g \in Features, NEW q \in Purposes, g # f \/ q # "read"
        PROVE  Under(g, q)' = Under(g, q)
    <3>1. CASE q = "read"
      BY <1>2, <2>1, <2>2, <3>1
    <3>2. CASE q # "read"
      BY <1>2, <1>4, <3>2
    <3> QED
      BY <3>1, <3>2
  <2> QED
    BY <1>2, <1>3, <2>1, <2>2 DEF OthersGoOn
<1>5. ASSUME NEW m, mutation' = [mutation EXCEPT ![f] = m], read' = read
      PROVE  OthersGoOn(f, "mutation") /\ Under(f, "mutation")' = m.active
  <2>1. mutation'[f] = m /\ \A g \in Features : g # f => mutation'[g] = mutation[g]
    BY <1>1, <1>5
  <2>2. ASSUME NEW g \in Features, NEW q \in Purposes, g # f \/ q # "mutation"
        PROVE  Under(g, q)' = Under(g, q)
    <3>1. CASE q = "mutation"
      BY <1>2, <1>3, <2>1, <2>2, <3>1
    <3>2. CASE q # "mutation"
      BY <1>2, <1>3, <1>5, <3>2
    <3> QED
      BY <3>1, <3>2
  <2> QED
    BY <1>2, <1>3, <2>1, <2>2 DEF OthersGoOn
<1>6. read' = read /\ mutation' = mutation => AllGoOn
  BY <1>2 DEF AllGoOn
<1> QED
  BY <1>4, <1>5, <1>6

\* Whatever an action of a feature is, it is one of these.
LEMMA HandleShapes ==
  ASSUME AppInv, NEW f \in Features, Handle(f)
  PROVE  \/ \E p \in Purposes : Begins(f, p) \/ GivesUp(f, p)
         \/ BeginFails
         \/ AllGoOn /\ UNCHANGED appVars
<1>1. /\ "read" \in Purposes /\ "mutation" \in Purposes
      /\ Under(f, "read") = read[f].active /\ Under(f, "mutation") = mutation[f].active
      /\ NoTicket.request = None
  BY DEF Purposes, Under, StateOf, NoTicket, Ticket
<1>2. ASSUME NEW mode \in {"load", "refresh", "retry"}, StartRead(f, mode)
      PROVE  Begins(f, "read")
  <2> DEFINE r == Begun(read[f], NextId, mode)
  <2>1. /\ read' = [read EXCEPT ![f] = r] /\ mutation' = mutation
        /\ NextId \in Requests /\ Keep(f, read'[f].active)
    BY <1>2 DEF StartRead, Issue
  <2>2. read'[f] = r
    BY <2>1 DEF AppInv, ReadsInv
  <2>3. r.active = Ticket(NextId, read[f].generation + 1) /\ read[f].generation + 1 \in Nat
    BY DEF Begun, AppInv, ReadsInv, ReadStates
  <2> HIDE DEF r
  <2>4. r.active \in GivenOut /\ r.active.request = NextId
    BY <2>1, <2>3, TicketFacts
  <2>5. OthersGoOn(f, "read") /\ Under(f, "read")' = r.active
    BY <2>1, UnderChanges
  <2>6. OutOfDate(f, "read")
    BY <1>1, <1>2 DEF StartRead, OutOfDate, Active
  <2> QED
    BY <1>2, <2>1, <2>2, <2>4, <2>5, <2>6 DEF StartRead, Begins
<1>3. ASSUME NEW optimistic \in BOOLEAN, StartMutation(f, optimistic)
      PROVE  Begins(f, "mutation")
  <2> DEFINE m == Submitted(mutation[f], NextId, optimistic)
  <2>1. /\ mutation' = [mutation EXCEPT ![f] = m] /\ read' = read
        /\ NextId \in Requests /\ Keep(f, mutation'[f].active)
    BY <1>3 DEF StartMutation, Submit, Issue
  <2>2. mutation'[f] = m
    BY <2>1 DEF AppInv, MutationsInv
  <2>3. m.active = Ticket(NextId, mutation[f].generation + 1) /\ mutation[f].generation + 1 \in Nat
    BY DEF Submitted, AppInv, MutationsInv, MutationStates
  <2> HIDE DEF m
  <2>4. m.active \in GivenOut /\ m.active.request = NextId
    BY <2>1, <2>3, TicketFacts
  <2>5. OthersGoOn(f, "mutation") /\ Under(f, "mutation")' = m.active
    BY <2>1, UnderChanges
  <2>6. OutOfDate(f, "mutation")
    BY <1>1, <1>3 DEF StartMutation, Submittable, Waiting, OutOfDate
  <2> QED
    BY <1>3, <2>1, <2>2, <2>4, <2>5, <2>6 DEF StartMutation, Begins
<1>4. ASSUME StartMutationRaises(f)
      PROVE  BeginFails
  <2>1. read' = read /\ mutation' \in {mutation, [mutation EXCEPT ![f] = Counted(mutation[f])]}
    BY <1>4 DEF StartMutationRaises, SubmitRaises
  <2>2. Counted(mutation[f]).active = mutation[f].active
    BY DEF Counted
  <2>3. AllGoOn
    <3>1. CASE mutation' = mutation
      BY <2>1, <3>1, UnderChanges
    <3>2. CASE mutation' = [mutation EXCEPT ![f] = Counted(mutation[f])]
      <4>1. OthersGoOn(f, "mutation") /\ Under(f, "mutation")' = Under(f, "mutation")
        BY <1>1, <2>1, <2>2, <3>2, UnderChanges
      <4> QED
        BY <4>1 DEF OthersGoOn, AllGoOn
    <3> QED
      BY <2>1, <3>1, <3>2
  <2> QED
    BY <1>4, <2>3 DEF StartMutationRaises, BeginFails
<1>5. ASSUME CancelRead(f) \/ ResetRead(f)
      PROVE  GivesUp(f, "read")
  <2>1. PICK r : /\ read' = [read EXCEPT ![f] = r] /\ mutation' = mutation
                 /\ r.active = NoTicket
    <3>1. Reset(read[f]).active = NoTicket
      BY DEF Reset
    <3>2. Waiting(read[f]) => Cancelled(read[f]).active = NoTicket
      BY DEF Cancelled
    <3> QED
      BY <1>5, <3>1, <3>2 DEF CancelRead, ResetRead
  <2>2. OthersGoOn(f, "read") /\ Under(f, "read")' = NoTicket
    BY <2>1, UnderChanges
  <2>3. OutOfDate(f, "read")
    BY <1>1, <1>5 DEF CancelRead, ResetRead, OutOfDate, Active
  <2>4. /\ ~disposed
        /\ Released(f, {Under(f, "read").request} \ {None}) \/ UNCHANGED ownership
        /\ UNCHANGED <<issued, tickets, enabled, disposed, era, suppressed, answers, delivered,
                       raised>>
    BY <1>1, <1>5 DEF CancelRead, ResetRead, Active
  <2> QED
    BY <2>2, <2>3, <2>4 DEF GivesUp
<1>6. ASSUME CancelMutation(f)
      PROVE  GivesUp(f, "mutation")
  <2>1. /\ mutation' = [mutation EXCEPT ![f] = Abandoned(mutation[f])] /\ read' = read
        /\ Abandoned(mutation[f]).active = NoTicket
    BY <1>6 DEF CancelMutation, Abandon, Abandoned, Ended
  <2>2. OthersGoOn(f, "mutation") /\ Under(f, "mutation")' = NoTicket
    BY <2>1, UnderChanges
  <2>3. OutOfDate(f, "mutation")
    BY <1>1, <1>6 DEF CancelMutation, OutOfDate, Active
  <2>4. /\ ~disposed
        /\ Released(f, {Under(f, "mutation").request} \ {None}) \/ UNCHANGED ownership
        /\ UNCHANGED <<issued, tickets, enabled, disposed, era, suppressed, answers, delivered,
                       raised>>
    BY <1>1, <1>6 DEF CancelMutation, Active
  <2> QED
    BY <2>2, <2>3, <2>4 DEF GivesUp
<1>7. ASSUME InvalidateRead(f) \/ (ResetMutation(f) /\ UNCHANGED <<read, appVars>>)
      PROVE  AllGoOn /\ UNCHANGED appVars
  <2>1. CASE InvalidateRead(f)
    <3>1. /\ read' = [read EXCEPT ![f] = Invalidated(read[f])] /\ mutation' = mutation
          /\ Invalidated(read[f]).active = read[f].active /\ UNCHANGED appVars
      BY <2>1 DEF InvalidateRead, Invalidated
    <3>2. OthersGoOn(f, "read") /\ Under(f, "read")' = Under(f, "read")
      BY <1>1, <3>1, UnderChanges
    <3> QED
      BY <3>1, <3>2 DEF OthersGoOn, AllGoOn
  <2>2. CASE ResetMutation(f) /\ UNCHANGED <<read, appVars>>
    <3> DEFINE m == Ended(mutation[f], "idle", None, mutation[f].generation + 1)
    <3>1. /\ mutation' = [mutation EXCEPT ![f] = m] /\ read' = read
          /\ mutation[f].active = NoTicket
      BY <2>2 DEF ResetMutation, Submittable, Waiting
    <3>3. m.active = NoTicket
      BY DEF Ended
    <3> HIDE DEF m
    <3>2. OthersGoOn(f, "mutation") /\ Under(f, "mutation")' = Under(f, "mutation")
      BY <1>1, <3>1, <3>3, UnderChanges
    <3> QED
      BY <2>2, <3>2 DEF OthersGoOn, AllGoOn
  <2> QED
    BY <1>7, <2>1, <2>2
<1> QED
  BY <1>1, <1>2, <1>3, <1>4, <1>5, <1>6, <1>7 DEF Handle
-----------------------------------------------------------------------------
(* The books of an application. *)

\* What the typed parts of the invariant say of the next id and of what is under way.
LEMMA BooksFacts ==
  ASSUME AnswersInv
  PROVE  /\ NextId \in Nat /\ NextId \notin issued /\ NextId # None
         /\ issued \cup {NextId} = 1..NextId
         /\ None \notin issued /\ None \notin outdated /\ NoTicket.request = None
         /\ \A f \in Features, p \in Purposes :
              /\ Under(f, p) # NoTicket <=> Under(f, p).request # None
              /\ Under(f, p).request \in issued \cup {None}
<1>1. PICK n \in Nat : issued = 1..n
  BY DEF AnswersInv, IssuedInOrder
<1>2. Cardinality(issued) = n
  BY <1>1, FS_Interval
<1>3. NextId = n + 1
  BY <1>2 DEF NextId
<1>4. NextId \in Nat /\ NextId \notin issued /\ NextId # None /\ issued \cup {NextId} = 1..NextId
  BY <1>1, <1>3 DEF None
<1>5. None \notin issued /\ None \notin outdated /\ NoTicket.request = None
  BY <1>1 DEF None, AnswersInv, TypeOK, NoTicket, Ticket
<1>6. ASSUME NEW f \in Features, NEW p \in Purposes
      PROVE  /\ Under(f, p) # NoTicket <=> Under(f, p).request # None
             /\ Under(f, p).request \in issued \cup {None}
  BY <1>5, <1>6 DEF AnswersInv, ActivesDiffer
<1> QED
  BY <1>4, <1>5, <1>6

\* Where nothing new is under way, what was under way stays apart.
LEMMA ActivesKept ==
  ASSUME ActivesDiffer, issued \subseteq issued', NoTicket.request = None,
         None \notin issued,
         \A f \in Features, p \in Purposes : Under(f, p)' \in {Under(f, p), NoTicket}
  PROVE  ActivesDiffer'
<1>1. SUFFICES ASSUME NEW f \in Features, NEW g \in Features, NEW p \in Purposes,
                      NEW q \in Purposes, Under(f, p)' # NoTicket
               PROVE  /\ Under(f, p)'.request \in issued'
                      /\ Under(f, p)'.request = Under(g, q)'.request => f = g /\ p = q
  BY DEF ActivesDiffer
<1>2. Under(f, p)' = Under(f, p) /\ Under(f, p) # NoTicket
  BY <1>1
<1>3. Under(f, p).request \in issued /\ Under(f, p).request # None
  BY <1>1, <1>2 DEF ActivesDiffer
<1>4. Under(f, p).request = Under(g, q).request => f = g /\ p = q
  BY <1>1, <1>2 DEF ActivesDiffer
<1>5. Under(g, q)' \in {Under(g, q), NoTicket}
  BY <1>1
<1> QED
  BY <1>2, <1>3, <1>4, <1>5

\* A feature that begins a read or a mutation after the host was asked.
LEMMA BeginsKeeps ==
  ASSUME AnswersInv, AppInv', NEW f \in Features, NEW p \in Purposes, Begins(f, p)
  PROVE  AnswersInv'
<1>1. /\ NextId \in Nat /\ NextId \notin issued /\ NextId # None
      /\ issued \cup {NextId} = 1..NextId
      /\ None \notin issued /\ None \notin outdated /\ NoTicket.request = None
      /\ \A g \in Features, q \in Purposes :
           /\ Under(g, q) # NoTicket <=> Under(g, q).request # None
           /\ Under(g, q).request \in issued \cup {None}
  BY BooksFacts
<1>2. PICK t \in GivenOut : t.request = NextId /\ Under(f, p)' = t /\ Keep(f, t)
  BY DEF Begins
<1>3. /\ ~disposed /\ NextId \in Requests /\ issued' = issued \cup {NextId}
      /\ OthersGoOn(f, p) /\ Claim(f, p)
      /\ outdated' = outdated \cup ({Under(f, p).request} \ {None})
      /\ UNCHANGED <<enabled, disposed, era, suppressed, answers, delivered>>
  BY DEF Begins, Issue, OutOfDate
<1>4. /\ issued \subseteq Requests /\ Owned \subseteq issued /\ outdated \subseteq issued
      /\ ownership \in [Owned -> [feature: Features, purpose: Purposes, era: Nat]]
      /\ tickets \in [Features -> SUBSET [request: issued, generation: Nat]]
  BY DEF AnswersInv, TypeOK
<1>5. \/ /\ f \in enabled /\ raised' = raised /\ Owned' = Owned \cup {NextId}
         /\ \A id \in Owned' : ownership'[id] = IF id = NextId THEN Owner(f, p) ELSE ownership[id]
         /\ ownership' \in [Owned' -> [feature: Features, purpose: Purposes, era: Nat]]
      \/ raised' = TRUE /\ ownership' = ownership
  <2>1. CASE f \in enabled
    <3>1. /\ raised' = raised
          /\ ownership' = [id \in Owned \cup {NextId} |->
                             IF id = NextId THEN Owner(f, p) ELSE ownership[id]]
      BY <1>3, <2>1 DEF Claim
    <3>2. Owner(f, p) \in [feature: Features, purpose: Purposes, era: Nat]
      BY DEF Owner, AnswersInv, TypeOK
    <3>3. Owned' = Owned \cup {NextId}
      BY <3>1 DEF Owned
    <3> QED
      BY <1>4, <2>1, <3>1, <3>2, <3>3
  <2>2. CASE f \notin enabled
    BY <1>3, <2>2 DEF Claim
  <2> QED
    BY <2>1, <2>2
<1>6. tickets' = [tickets EXCEPT ![f] = tickets[f] \cup {t}]
  BY <1>2 DEF Keep
<1>7. TypeOK'
  <2>1. ResourcesTypeOK'
    BY DEF AppInv, ReadsInv, MutationsInv, ResourcesTypeOK
  <2>2. issued' \subseteq Requests /\ outdated' \subseteq issued'
    BY <1>1, <1>3, <1>4
  <2>3. /\ Owned' \subseteq issued'
        /\ ownership' \in [Owned' -> [feature: Features, purpose: Purposes, era: Nat]]
    <3>1. ownership' = ownership => Owned' = Owned
      BY DEF Owned
    <3> QED
      BY <1>3, <1>4, <1>5, <3>1
  <2>4. tickets' \in [Features -> SUBSET [request: issued', generation: Nat]]
    <3>1. t \in [request: issued', generation: Nat]
      BY <1>2, <1>3 DEF GivenOut
    <3>2. [request: issued, generation: Nat] \subseteq [request: issued', generation: Nat]
      BY <1>3
    <3> QED
      BY <1>4, <1>6, <3>1, <3>2
  <2>5. raised' \in BOOLEAN
    BY <1>5 DEF AnswersInv, TypeOK
  <2>6. /\ enabled' \subseteq Features /\ disposed' \in BOOLEAN /\ era' \in Nat
        /\ suppressed' \in Nat /\ answers' \in 0..MaxAnswers /\ delivered' \in [Requests -> Nat]
    BY <1>3 DEF AnswersInv, TypeOK
  <2>7. disposed' => Owned' = {} /\ enabled' = {}
    BY <1>3
  <2> QED
    BY <2>1, <2>2, <2>3, <2>4, <2>5, <2>6, <2>7 DEF TypeOK
<1>8. IssuedInOrder'
  BY <1>1, <1>3 DEF IssuedInOrder
<1>9. TicketsDiffer'
  <2>1. SUFFICES ASSUME NEW g \in Features, NEW u \in tickets'[g], NEW v \in tickets'[g],
                        u.request = v.request
                 PROVE  u = v
    BY DEF TicketsDiffer
  <2>2. CASE u \in tickets[g] /\ v \in tickets[g]
    BY <2>1, <2>2 DEF AnswersInv, TicketsDiffer
  <2>3. \A w \in tickets[g] : w.request \in issued
    BY <1>4
  <2>4. tickets'[g] \subseteq tickets[g] \cup {t}
    BY <1>4, <1>6
  <2> QED
    BY <1>1, <1>2, <2>1, <2>2, <2>3, <2>4
<1>10. ActivesDiffer'
  <2>1. SUFFICES ASSUME NEW g \in Features, NEW h \in Features, NEW q \in Purposes,
                        NEW r \in Purposes, Under(g, q)' # NoTicket
                 PROVE  /\ Under(g, q)'.request \in issued'
                        /\ Under(g, q)'.request = Under(h, r)'.request => g = h /\ q = r
    BY DEF ActivesDiffer
  <2>2. \A k \in Features, z \in Purposes : k # f \/ z # p => Under(k, z)' = Under(k, z)
    BY <1>3 DEF OthersGoOn
  <2>3. CASE g = f /\ q = p
    <3>1. Under(g, q)'.request = NextId
      BY <1>2, <2>3
    <3>2. (h # f \/ r # p) => Under(h, r)'.request # NextId
      BY <1>1, <2>2
    <3> QED
      BY <1>3, <2>3, <3>1, <3>2
  <2>4. CASE g # f \/ q # p
    <3>1. Under(g, q)' = Under(g, q) /\ Under(g, q).request \in issued
      BY <1>1, <2>1, <2>2, <2>4
    <3>2. Under(g, q).request = Under(h, r).request => g = h /\ q = r
      BY <2>1, <3>1 DEF AnswersInv, ActivesDiffer
    <3>3. CASE h = f /\ r = p
      <4>1. Under(h, r)'.request = NextId
        BY <1>2, <3>3
      <4> QED
        BY <1>1, <1>3, <3>1, <4>1
    <3>4. CASE h # f \/ r # p
      BY <1>3, <2>2, <3>1, <3>2, <3>4
    <3> QED
      BY <3>3, <3>4
  <2> QED
    BY <2>3, <2>4
<1>11. OutdatedIsIdle'
  <2>1. SUFFICES ASSUME NEW g \in Features, NEW q \in Purposes
                 PROVE  Under(g, q)'.request \notin outdated'
    BY DEF OutdatedIsIdle
  <2>2. CASE g = f /\ q = p
    BY <1>1, <1>2, <1>3, <1>4, <2>2
  <2>3. CASE g # f \/ q # p
    <3>1. Under(g, q)' = Under(g, q)
      BY <1>3, <2>3 DEF OthersGoOn
    <3>2. Under(g, q).request \notin outdated
      BY <1>3 DEF AnswersInv, OutdatedIsIdle
    <3>3. Under(f, p).request # None => Under(g, q).request # Under(f, p).request
      BY <1>1, <2>3 DEF AnswersInv, ActivesDiffer
    <3> QED
      BY <1>3, <3>1, <3>2, <3>3
  <2> QED
    BY <2>2, <2>3
<1>12. Served'
  <2>1. SUFFICES ASSUME ~raised'
                 PROVE  /\ enabled' = Features \/ disposed'
                        /\ \A g \in Features, q \in Purposes :
                             Under(g, q)' # NoTicket => ServedAt(g, q)'
    BY DEF Served
  <2>2. /\ raised' = raised /\ Owned' = Owned \cup {NextId}
        /\ \A id \in Owned' : ownership'[id] = IF id = NextId THEN Owner(f, p) ELSE ownership[id]
    BY <1>5, <2>1
  <2>3. /\ enabled' = Features \/ disposed'
        /\ \A g \in Features, q \in Purposes : Under(g, q) # NoTicket => ServedAt(g, q)
    BY <1>3, <2>1, <2>2 DEF AnswersInv, Served
  <2>4. \A g \in Features, q \in Purposes : Owner(g, q)' = Owner(g, q)
    BY <1>3 DEF Owner
  <2>5. ASSUME NEW g \in Features, NEW q \in Purposes, Under(g, q)' # NoTicket
        PROVE  ServedAt(g, q)'
    <3>1. CASE g = f /\ q = p
      <4>1. /\ Under(g, q)'.request = NextId /\ ownership'[NextId] = Owner(g, q)'
            /\ Under(g, q)' \in tickets'[g]
        BY <1>2, <1>4, <1>6, <2>2, <2>4, <3>1
      <4> QED
        BY <2>2, <4>1 DEF ServedAt
    <3>2. CASE g # f \/ q # p
      <4>1. Under(g, q)' = Under(g, q)
        BY <1>3, <3>2 DEF OthersGoOn
      <4>2. /\ Under(g, q).request \in Owned /\ ownership[Under(g, q).request] = Owner(g, q)
            /\ Under(g, q) \in tickets[g]
        BY <2>3, <2>5, <4>1 DEF ServedAt
      <4>3. Under(g, q) \in tickets'[g]
        BY <1>4, <1>6, <4>2
      <4>4. Under(g, q).request # NextId
        BY <1>1, <1>4, <4>2
      <4>5. /\ Under(g, q).request \in Owned'
            /\ ownership'[Under(g, q).request] = Owner(g, q)'
        BY <2>2, <2>4, <4>2, <4>4
      <4> QED
        BY <4>1, <4>3, <4>5 DEF ServedAt
    <3> QED
      BY <3>1, <3>2
  <2> QED
    BY <2>3, <2>5
<1>13. ClaimedOnce'
  <2>1. ASSUME NEW id \in Requests, Fresh(id)'
        PROVE  Fresh(id)
    <3>1. id \in Owned' \/ id \notin issued'
      BY <2>1 DEF Fresh
    <3>2. Owned' \subseteq Owned \cup {NextId}
      <4>1. ownership' = ownership => Owned' = Owned
        BY DEF Owned
      <4> QED
        BY <1>5, <4>1
    <3> QED
      BY <1>1, <1>3, <3>1, <3>2 DEF Fresh
  <2> QED
    BY <1>3, <2>1 DEF AnswersInv, ClaimedOnce
<1>14. DeliveredOnce'
  BY <1>3 DEF AnswersInv, DeliveredOnce
<1> QED
  BY <1>7, <1>8, <1>9, <1>10, <1>11, <1>12, <1>13, <1>14 DEF AnswersInv

\* A feature that cancels or resets what is under way, with or without its claim.
LEMMA GivesUpKeeps ==
  ASSUME AnswersInv, AppInv', NEW f \in Features, NEW p \in Purposes, GivesUp(f, p)
  PROVE  AnswersInv'
<1> DEFINE gone == Under(f, p).request
<1>1. /\ None \notin issued /\ None \notin outdated /\ NoTicket.request = None
      /\ \A g \in Features, q \in Purposes :
           /\ Under(g, q) # NoTicket <=> Under(g, q).request # None
           /\ Under(g, q).request \in issued \cup {None}
  BY BooksFacts
<1>2. /\ ~disposed /\ OthersGoOn(f, p) /\ Under(f, p)' = NoTicket
      /\ outdated' = outdated \cup ({gone} \ {None})
      /\ UNCHANGED <<issued, tickets, enabled, disposed, era, suppressed, answers, delivered,
                     raised>>
  BY DEF GivesUp, OutOfDate
<1>3. /\ issued \subseteq Requests /\ Owned \subseteq issued /\ outdated \subseteq issued
      /\ ownership \in [Owned -> [feature: Features, purpose: Purposes, era: Nat]]
  BY DEF AnswersInv, TypeOK
<1>4. /\ Owned' \subseteq Owned
      /\ \A id \in Owned : id # gone => id \in Owned' /\ ownership'[id] = ownership[id]
      /\ ownership' \in [Owned' -> [feature: Features, purpose: Purposes, era: Nat]]
  <2>1. CASE UNCHANGED ownership
    BY <1>3, <2>1 DEF Owned
  <2>2. CASE Released(f, {gone} \ {None})
    <3>1. PICK X \in SUBSET {gone} : ownership' = [id \in Owned \ X |-> ownership[id]]
      BY <2>2 DEF Released, Without
    <3>2. Owned' = Owned \ X
      BY <3>1 DEF Owned
    <3> QED
      BY <1>3, <3>1, <3>2
  <2> QED
    BY <2>1, <2>2 DEF GivesUp
<1> HIDE DEF gone
<1>5. TypeOK'
  <2>1. ResourcesTypeOK'
    BY DEF AppInv, ReadsInv, MutationsInv, ResourcesTypeOK
  <2>2. issued' \subseteq Requests /\ Owned' \subseteq issued' /\ outdated' \subseteq issued'
    BY <1>1, <1>2, <1>3, <1>4 DEF gone
  <2>3. raised' \in BOOLEAN
    BY <1>2 DEF AnswersInv, TypeOK
  <2>4. /\ tickets' \in [Features -> SUBSET [request: issued', generation: Nat]]
        /\ enabled' \subseteq Features /\ disposed' \in BOOLEAN /\ era' \in Nat
        /\ suppressed' \in Nat /\ answers' \in 0..MaxAnswers /\ delivered' \in [Requests -> Nat]
    BY <1>2 DEF AnswersInv, TypeOK
  <2>5. disposed' => Owned' = {} /\ enabled' = {}
    BY <1>2
  <2> QED
    BY <1>4, <2>1, <2>2, <2>3, <2>4, <2>5 DEF TypeOK
<1>6. IssuedInOrder' /\ TicketsDiffer' /\ DeliveredOnce'
  BY <1>2 DEF AnswersInv, IssuedInOrder, TicketsDiffer, DeliveredOnce
<1>7. \A g \in Features, q \in Purposes : Under(g, q)' \in {Under(g, q), NoTicket}
  BY <1>2 DEF OthersGoOn
<1>8. ActivesDiffer'
  BY <1>1, <1>2, <1>7, ActivesKept DEF AnswersInv
<1>9. OutdatedIsIdle'
  <2>1. SUFFICES ASSUME NEW g \in Features, NEW q \in Purposes
                 PROVE  Under(g, q)'.request \notin outdated'
    BY DEF OutdatedIsIdle
  <2>2. CASE g = f /\ q = p
    BY <1>1, <1>2, <2>2
  <2>3. CASE g # f \/ q # p
    <3>1. Under(g, q)' = Under(g, q)
      BY <1>2, <2>3 DEF OthersGoOn
    <3>2. Under(g, q).request \notin outdated
      BY <1>2 DEF AnswersInv, OutdatedIsIdle
    <3>3. gone # None => Under(g, q).request # gone
      BY <1>1, <2>3 DEF AnswersInv, ActivesDiffer, gone
    <3> QED
      BY <1>2, <3>1, <3>2, <3>3
  <2> QED
    BY <2>2, <2>3
<1>10. Served'
  <2>1. SUFFICES ASSUME ~raised'
                 PROVE  /\ enabled' = Features \/ disposed'
                        /\ \A g \in Features, q \in Purposes :
                             Under(g, q)' # NoTicket => ServedAt(g, q)'
    BY DEF Served
  <2>2. /\ enabled' = Features \/ disposed'
        /\ \A g \in Features, q \in Purposes : Under(g, q) # NoTicket => ServedAt(g, q)
    BY <1>2, <2>1 DEF AnswersInv, Served
  <2>3. ASSUME NEW g \in Features, NEW q \in Purposes, Under(g, q)' # NoTicket
        PROVE  ServedAt(g, q)'
    <3>1. Under(g, q)' = Under(g, q) /\ Under(g, q) # NoTicket /\ (g # f \/ q # p)
      BY <1>2, <1>7, <2>3
    <3>2. /\ Under(g, q).request \in Owned /\ ownership[Under(g, q).request] = Owner(g, q)
          /\ Under(g, q) \in tickets[g]
      BY <2>2, <3>1 DEF ServedAt
    <3>3. Under(g, q).request # gone
      BY <3>1 DEF AnswersInv, ActivesDiffer, gone
    <3>4. Owner(g, q)' = Owner(g, q)
      BY <1>2 DEF Owner
    <3> QED
      BY <1>2, <1>4, <3>1, <3>2, <3>3, <3>4 DEF ServedAt
  <2> QED
    BY <2>2, <2>3
<1>11. ClaimedOnce'
  BY <1>2, <1>4 DEF AnswersInv, ClaimedOnce, Fresh
<1> QED
  BY <1>5, <1>6, <1>8, <1>9, <1>10, <1>11 DEF AnswersInv

\* A begin that fails after the host was asked, and the disposal that is interrupted
\* before its handlers ran: something raised, and nothing else is claimed or given up.
LEMMA RaisingKeeps ==
  ASSUME AnswersInv, AppInv', BeginFails \/ (DisposeInterrupted /\ AllGoOn)
  PROVE  AnswersInv'
<1>1. /\ NextId \in Nat /\ issued \cup {NextId} = 1..NextId
      /\ None \notin issued /\ NoTicket.request = None
  BY BooksFacts
<1>2. /\ AllGoOn /\ raised' = TRUE
      /\ issued' = issued \/ (NextId \in Requests /\ issued' = issued \cup {NextId})
      /\ enabled' = enabled \/ enabled' = {}
      /\ UNCHANGED <<ownership, tickets, disposed, era, suppressed, answers, delivered, outdated>>
  BY DEF BeginFails, Issue, DisposeInterrupted
<1>3. Owned' = Owned
  BY <1>2 DEF Owned
<1>4. TypeOK'
  <2>1. ResourcesTypeOK'
    BY DEF AppInv, ReadsInv, MutationsInv, ResourcesTypeOK
  <2>2. issued' \subseteq Requests /\ Owned' \subseteq issued' /\ outdated' \subseteq issued'
    BY <1>2, <1>3 DEF AnswersInv, TypeOK
  <2>3. tickets' \in [Features -> SUBSET [request: issued', generation: Nat]]
    <3>1. /\ [request: issued, generation: Nat] \subseteq [request: issued', generation: Nat]
          /\ tickets \in [Features -> SUBSET [request: issued, generation: Nat]]
      BY <1>2 DEF AnswersInv, TypeOK
    <3> QED
      BY <1>2, <3>1
  <2>4. /\ ownership' \in [Owned' -> [feature: Features, purpose: Purposes, era: Nat]]
        /\ enabled' \subseteq Features /\ disposed' \in BOOLEAN /\ era' \in Nat
        /\ suppressed' \in Nat /\ answers' \in 0..MaxAnswers /\ delivered' \in [Requests -> Nat]
    BY <1>2, <1>3 DEF AnswersInv, TypeOK
  <2>5. raised' \in BOOLEAN
    BY <1>2
  <2>6. disposed' => Owned' = {} /\ enabled' = {}
    BY <1>2, <1>3 DEF AnswersInv, TypeOK
  <2> QED
    BY <2>1, <2>2, <2>3, <2>4, <2>5, <2>6 DEF TypeOK
<1>5. IssuedInOrder'
  BY <1>1, <1>2 DEF AnswersInv, IssuedInOrder
<1>6. TicketsDiffer' /\ DeliveredOnce'
  BY <1>2 DEF AnswersInv, TicketsDiffer, DeliveredOnce
<1>7. ActivesDiffer'
  BY <1>1, <1>2, ActivesKept DEF AnswersInv, AllGoOn
<1>8. OutdatedIsIdle'
  BY <1>2 DEF AnswersInv, OutdatedIsIdle, AllGoOn
<1>9. Served'
  BY <1>2 DEF Served
<1>10. ClaimedOnce'
  BY <1>2, <1>3 DEF AnswersInv, ClaimedOnce, Fresh
<1> QED
  BY <1>4, <1>5, <1>6, <1>7, <1>8, <1>9, <1>10 DEF AnswersInv

\* Where the application's own books stay as they are, so does the invariant.
LEMMA BooksKept ==
  ASSUME AnswersInv, AppInv', AllGoOn, UNCHANGED appVars
  PROVE  AnswersInv'
<1>1. /\ UNCHANGED <<issued, ownership, tickets, enabled, disposed, era, suppressed, answers,
                     delivered, outdated, raised>>
      /\ \A f \in Features, p \in Purposes : Under(f, p)' = Under(f, p)
  BY DEF appVars, AllGoOn
<1>2. Owned' = Owned
  BY <1>1 DEF Owned
<1>3. TypeOK'
  <2>1. ResourcesTypeOK'
    BY DEF AppInv, ReadsInv, MutationsInv, ResourcesTypeOK
  <2> QED
    BY <1>1, <1>2, <2>1 DEF AnswersInv, TypeOK
<1>4. IssuedInOrder' /\ TicketsDiffer' /\ DeliveredOnce'
  BY <1>1 DEF AnswersInv, IssuedInOrder, TicketsDiffer, DeliveredOnce
<1>5. ActivesDiffer' /\ OutdatedIsIdle'
  BY <1>1 DEF AnswersInv, ActivesDiffer, OutdatedIsIdle
<1>6. Served'
  <2>1. \A f \in Features, p \in Purposes : ServedAt(f, p)' <=> ServedAt(f, p)
    BY <1>1, <1>2 DEF ServedAt, Owner
  <2> QED
    BY <1>1, <2>1 DEF AnswersInv, Served
<1>7. ClaimedOnce'
  BY <1>1, <1>2 DEF AnswersInv, ClaimedOnce, Fresh
<1> QED
  BY <1>3, <1>4, <1>5, <1>6, <1>7 DEF AnswersInv

\* The ids that were delivered are finitely many; an answer that is delivered to the
\* owner of a claim is a new one of them.
LEMMA DeliveredCount ==
  ASSUME AnswersInv
  PROVE  /\ IsFiniteSet({id \in Requests : delivered[id] # 0})
         /\ Cardinality({id \in Requests : delivered[id] # 0}) \in Nat
         /\ \A id \in Owned : id \in Requests /\ id \in issued /\ delivered[id] = 0
<1> DEFINE D == {id \in Requests : delivered[id] # 0}
<1>1. PICK n \in Nat : issued = 1..n
  BY DEF AnswersInv, IssuedInOrder
<1>2. D \subseteq issued
  BY DEF AnswersInv, ClaimedOnce, Fresh
<1>3. IsFiniteSet(issued)
  BY <1>1, FS_Interval
<1>4. IsFiniteSet(D)
  BY <1>2, <1>3, FS_Subset
<1>5. Cardinality(D) \in Nat
  BY <1>4, FS_CardinalityType
<1>6. \A id \in Owned : id \in Requests /\ id \in issued /\ delivered[id] = 0
  BY DEF AnswersInv, TypeOK, ClaimedOnce, Fresh
<1> QED
  BY <1>4, <1>5, <1>6

\* An answer nobody is handed: its claim was cancelled, belongs to a generation
\* that was disposed of, or its feature is not active.
LEMMA SuppressedKeeps ==
  ASSUME AnswersInv, AppInv', NEW id \in Requests, ResolveSuppressed(id), AllGoOn
  PROVE  AnswersInv'
<1>1. /\ answers < MaxAnswers /\ answers' = answers + 1 /\ suppressed' = suppressed + 1
      /\ id \in Owned => ~Receiver(id)
      /\ ownership' = [r \in Owned \ {id} |-> ownership[r]]
      /\ UNCHANGED <<issued, tickets, enabled, disposed, era, delivered, outdated, raised>>
      /\ \A f \in Features, p \in Purposes : Under(f, p)' = Under(f, p)
  BY DEF ResolveSuppressed, Answered, Suppress, Without, AllGoOn
<1>2. Owned' = Owned \ {id} /\ \A r \in Owned' : ownership'[r] = ownership[r]
  BY <1>1 DEF Owned
<1>3. /\ answers \in Nat /\ answers + 1 \in 0..MaxAnswers /\ suppressed \in Nat
  BY <1>1, AppAssumption DEF AnswersInv, TypeOK
<1>4. TypeOK'
  <2>1. ResourcesTypeOK'
    BY DEF AppInv, ReadsInv, MutationsInv, ResourcesTypeOK
  <2>2. /\ Owned' \subseteq issued'
        /\ ownership' \in [Owned' -> [feature: Features, purpose: Purposes, era: Nat]]
    BY <1>1, <1>2 DEF AnswersInv, TypeOK
  <2>3. /\ issued' \subseteq Requests /\ outdated' \subseteq issued'
        /\ tickets' \in [Features -> SUBSET [request: issued', generation: Nat]]
        /\ enabled' \subseteq Features /\ disposed' \in BOOLEAN /\ era' \in Nat
        /\ delivered' \in [Requests -> Nat]
    BY <1>1 DEF AnswersInv, TypeOK
  <2>4. raised' \in BOOLEAN
    BY <1>1 DEF AnswersInv, TypeOK
  <2>5. disposed' => Owned' = {} /\ enabled' = {}
    BY <1>1, <1>2 DEF AnswersInv, TypeOK
  <2>6. suppressed' \in Nat /\ answers' \in 0..MaxAnswers
    BY <1>1, <1>3
  <2> QED
    BY <2>1, <2>2, <2>3, <2>4, <2>5, <2>6 DEF TypeOK
<1>5. IssuedInOrder' /\ TicketsDiffer' /\ ActivesDiffer' /\ OutdatedIsIdle'
  BY <1>1 DEF AnswersInv, IssuedInOrder, TicketsDiffer, ActivesDiffer, OutdatedIsIdle
<1>6. Served'
  <2>1. SUFFICES ASSUME ~raised'
                 PROVE  /\ enabled' = Features \/ disposed'
                        /\ \A f \in Features, p \in Purposes :
                             Under(f, p)' # NoTicket => ServedAt(f, p)'
    BY DEF Served
  <2>2. /\ enabled = Features \/ disposed
        /\ \A f \in Features, p \in Purposes : Under(f, p) # NoTicket => ServedAt(f, p)
    BY <1>1, <2>1 DEF AnswersInv, Served
  <2>3. ASSUME NEW f \in Features, NEW p \in Purposes, Under(f, p) # NoTicket
        PROVE  ServedAt(f, p)'
    <3>1. /\ Under(f, p).request \in Owned /\ ownership[Under(f, p).request] = Owner(f, p)
          /\ Under(f, p) \in tickets[f]
      BY <2>2, <2>3 DEF ServedAt
    <3>2. ~disposed
      BY <3>1 DEF AnswersInv, TypeOK
    <3>3. Under(f, p).request # id
      BY <1>1, <2>2, <3>1, <3>2 DEF Receiver, Owner
    <3>4. Owner(f, p)' = Owner(f, p)
      BY <1>1 DEF Owner
    <3> QED
      BY <1>1, <1>2, <3>1, <3>3, <3>4 DEF ServedAt
  <2> QED
    BY <1>1, <2>2, <2>3
<1>7. ClaimedOnce'
  BY <1>1, <1>2 DEF AnswersInv, ClaimedOnce, Fresh
<1>8. DeliveredOnce'
  BY <1>1, <1>3, DeliveredCount DEF AnswersInv, DeliveredOnce
<1> QED
  BY <1>4, <1>5, <1>6, <1>7, <1>8 DEF AnswersInv

\* What an answer that is handed to its owner does to the states: it ends what is
\* under way there if it is its answer, and without a raise it was not left waiting.
\* The answer of what was given up changes nothing.
LEMMA DeliveryShape ==
  ASSUME AnswersInv, NEW id \in Requests, ResolveDelivered(id),
         NEW f, f = ownership[id].feature, NEW p, p = ownership[id].purpose
  PROVE  /\ f \in Features /\ p \in Purposes /\ ownership[id] = Owner(f, p)
         /\ OthersGoOn(f, p) /\ Under(f, p)' \in {Under(f, p), NoTicket}
         /\ ~raised' => ~raised /\ Under(f, p)'.request # id
         /\ raised' \in BOOLEAN
         /\ id \in outdated => UNCHANGED resourceVars
<1> DEFINE mine == {t \in tickets[f] : t.request = id}
<1>1. /\ id \in Owned /\ ownership[id].era = era /\ f \in enabled /\ ~disposed
  BY DEF ResolveDelivered, Receiver
<1>2. f \in Features /\ p \in Purposes
  BY <1>1 DEF AnswersInv, TypeOK
<1>3. ownership[id] = Owner(f, p)
  <2>1. ownership[id] \in [feature: Features, purpose: Purposes, era: Nat]
    BY <1>1 DEF AnswersInv, TypeOK
  <2> QED
    BY <1>1, <2>1 DEF Owner
<1>4. \/ mine = {} /\ UNCHANGED <<resourceVars, raised>>
      \/ \E ticket \in mine :
           \/ p = "read" /\ SettleRead(f, ticket)
           \/ p = "mutation" /\ SettleMutation(f, ticket)
           \/ SettleRaises(f, p, ticket)
  BY DEF ResolveDelivered
<1>5. /\ NoTicket.request # id /\ id \in issued
      /\ raised \in BOOLEAN
  BY <1>1, BooksFacts DEF AnswersInv, TypeOK
<1>6. ASSUME ~raised, Under(f, p).request = id
      PROVE  Under(f, p) \in mine /\ \A t \in mine : t = Under(f, p)
  <2>1. Under(f, p) # NoTicket
    BY <1>5, <1>6
  <2>2. Under(f, p) \in tickets[f]
    BY <1>2, <1>6, <2>1 DEF AnswersInv, Served, ServedAt
  <2> QED
    BY <1>2, <1>6, <2>2 DEF AnswersInv, TicketsDiffer
<1>7. id \in outdated => \A t \in mine : t # Under(f, p)
  BY <1>1, <1>2 DEF AnswersInv, OutdatedIsIdle
<1>8. /\ read \in [Features -> ReadStates] /\ mutation \in [Features -> MutationStates]
      /\ AppInv
  BY DEF AnswersInv, AppInv, ReadsInv, MutationsInv
<1>9. \A t \in mine : t.request = id
  OBVIOUS
<1> DEFINE Goal == /\ OthersGoOn(f, p) /\ Under(f, p)' \in {Under(f, p), NoTicket}
                   /\ ~raised' => ~raised /\ Under(f, p)'.request # id
                   /\ raised' \in BOOLEAN
                   /\ id \in outdated => UNCHANGED resourceVars
<1> HIDE DEF mine
<1>10. ASSUME UNCHANGED resourceVars, raised' = TRUE, id \notin outdated
       PROVE  Goal
  <2>1. AllGoOn
    BY <1>2, <1>8, <1>10, UnderChanges DEF resourceVars
  <2> QED
    <3>1. OthersGoOn(f, p) /\ Under(f, p)' = Under(f, p)
      BY <1>2, <2>1 DEF AllGoOn, OthersGoOn
    <3> QED
      BY <1>10, <3>1
<1>11. ASSUME mine = {}, UNCHANGED <<resourceVars, raised>>
       PROVE  Goal
  <2>1. AllGoOn
    BY <1>2, <1>8, <1>11, UnderChanges DEF resourceVars
  <2>2. OthersGoOn(f, p) /\ Under(f, p)' = Under(f, p)
    BY <1>2, <2>1 DEF AllGoOn, OthersGoOn
  <2>3. ~raised => Under(f, p).request # id
    BY <1>6, <1>11
  <2>4. raised' = raised /\ UNCHANGED resourceVars
    BY <1>11
  <2> QED
    BY <1>5, <2>2, <2>3, <2>4
<1>12. ASSUME NEW t \in mine, p = "read", SettleRead(f, t)
       PROVE  Goal
  <2>1. PICK r : /\ read' = [read EXCEPT ![f] = r] /\ mutation' = mutation /\ changed' = changed
                 /\ raised' = raised
                 /\ IF t = read[f].active THEN r.active = NoTicket ELSE r = read[f]
    <3>1. PICK r : /\ read' = [read EXCEPT ![f] = r]
                   /\ \/ \E e \in BOOLEAN : r = Resolved(read[f], t, e)
                      \/ r = Rejected(read[f], t)
      BY <1>12 DEF SettleRead
    <3>2. IF t = read[f].active THEN r.active = NoTicket ELSE r = read[f]
      <4>1. \A e \in BOOLEAN : IF t = read[f].active THEN Resolved(read[f], t, e).active = NoTicket
                               ELSE Resolved(read[f], t, e) = read[f]
        BY DEF Resolved, SameTicket
      <4>2. IF t = read[f].active THEN Rejected(read[f], t).active = NoTicket
            ELSE Rejected(read[f], t) = read[f]
        BY DEF Rejected, SameTicket
      <4> QED
        BY <3>1, <4>1, <4>2
    <3>3. mutation' = mutation /\ changed' = changed /\ raised' = raised
      BY <1>12 DEF SettleRead
    <3> QED
      BY <3>1, <3>2, <3>3
  <2>2. OthersGoOn(f, p) /\ Under(f, p)' = r.active
    BY <1>2, <1>8, <1>12, <2>1, UnderChanges
  <2>3. Under(f, p) = read[f].active
    BY <1>12 DEF Under, StateOf
  <2>4. CASE t = read[f].active
    BY <1>5, <1>7, <2>1, <2>2, <2>3, <2>4
  <2>5. CASE t # read[f].active
    <3>1. read' = read /\ r.active = Under(f, p)
      BY <1>2, <1>8, <2>1, <2>3, <2>5
    <3>2. ~raised => Under(f, p).request # id
      BY <1>6, <2>3, <2>5
    <3>3. UNCHANGED resourceVars
      BY <2>1, <3>1 DEF resourceVars
    <3> QED
      BY <1>5, <2>1, <2>2, <3>1, <3>2, <3>3
  <2> QED
    BY <2>4, <2>5
<1>13. ASSUME NEW t \in mine, p = "mutation", SettleMutation(f, t)
       PROVE  Goal
  <2>1. read' = read /\ raised' = raised /\ Under(f, p) = mutation[f].active
    BY <1>13 DEF SettleMutation, Under, StateOf
  <2>2. CASE Ignore(f, t)
    <3>1. UNCHANGED resourceVars /\ t # Under(f, p)
      BY <2>1, <2>2 DEF Ignore, SameTicket, resourceVars
    <3>2. AllGoOn
      BY <1>2, <1>8, <3>1, UnderChanges DEF resourceVars
    <3>3. OthersGoOn(f, p) /\ Under(f, p)' = Under(f, p)
      BY <1>2, <3>2 DEF AllGoOn, OthersGoOn
    <3>4. ~raised => Under(f, p).request # id
      BY <1>6, <3>1
    <3> QED
      BY <1>5, <2>1, <3>1, <3>3, <3>4
  <2>3. CASE Accept(f, t) \/ Refuse(f, t)
    <3>1. PICK m : mutation' = [mutation EXCEPT ![f] = m] /\ m.active = NoTicket
      <4>1. \A s, v, g : Ended(mutation[f], s, v, g).active = NoTicket
        BY DEF Ended
      <4> QED
        BY <2>3, <4>1 DEF Accept, Refuse
    <3>2. OthersGoOn(f, p) /\ Under(f, p)' = NoTicket
      BY <1>2, <1>8, <1>13, <2>1, <3>1, UnderChanges
    <3>3. t = Under(f, p)
      BY <2>1, <2>3 DEF Accept, Refuse, SameTicket
    <3> QED
      BY <1>5, <1>7, <2>1, <3>2, <3>3
  <2> QED
    BY <1>13, <2>2, <2>3 DEF SettleMutation
<1>14. ASSUME NEW t \in mine, SettleRaises(f, p, t)
       PROVE  Goal
  <2>1. t = Under(f, p) /\ raised' = TRUE
    BY <1>14 DEF SettleRaises, SameTicket, Under, StateOf
  <2>2. id \notin outdated
    BY <1>7, <2>1
  <2>3. CASE UNCHANGED resourceVars
    BY <1>10, <2>1, <2>2, <2>3
  <2>4. CASE p = "mutation" /\ RefuseRaises(f, t) /\ UNCHANGED read
    <3>1. /\ mutation' = [mutation EXCEPT ![f] = Spoiled(mutation[f])] /\ read' = read
          /\ Spoiled(mutation[f]).active = mutation[f].active
      BY <2>4 DEF RefuseRaises, Spoiled
    <3>2. OthersGoOn(f, p) /\ Under(f, p)' = mutation[f].active
      BY <1>2, <1>8, <2>4, <3>1, UnderChanges
    <3>3. Under(f, p) = mutation[f].active
      BY <2>4 DEF Under, StateOf
    <3> QED
      BY <2>1, <2>2, <3>2, <3>3
  <2> QED
    BY <1>14, <2>3, <2>4 DEF SettleRaises
<1>15. Goal
  BY <1>4, <1>11, <1>12, <1>13, <1>14
<1> QED
  BY <1>2, <1>3, <1>15

\* An answer that is handed to the owner of its claim.
LEMMA DeliveredKeeps ==
  ASSUME AnswersInv, AppInv', NEW id \in Requests, ResolveDelivered(id)
  PROVE  AnswersInv'
<1>0. PICK f, p : f = ownership[id].feature /\ p = ownership[id].purpose
  OBVIOUS
<1> DEFINE mine == {t \in tickets[f] : t.request = id}
           D == {r \in Requests : delivered[r] # 0}
<1>1. /\ f \in Features /\ p \in Purposes /\ ownership[id] = Owner(f, p)
      /\ OthersGoOn(f, p) /\ Under(f, p)' \in {Under(f, p), NoTicket}
      /\ ~raised' => ~raised /\ Under(f, p)'.request # id
      /\ raised' \in BOOLEAN
  BY <1>0, DeliveryShape
<1>2. /\ answers < MaxAnswers /\ answers' = answers + 1
      /\ id \in Owned /\ ~disposed
      /\ ownership' = [r \in Owned \ {id} |-> ownership[r]]
      /\ delivered' = [delivered EXCEPT ![id] = delivered[id] + 1]
      /\ tickets' = [tickets EXCEPT ![f] = tickets[f] \ mine]
      /\ UNCHANGED <<issued, enabled, disposed, era, suppressed, outdated>>
  BY <1>0 DEF ResolveDelivered, Answered, Receiver, Disowned, Without
<1>3. Owned' = Owned \ {id} /\ \A r \in Owned' : ownership'[r] = ownership[r]
  BY <1>2 DEF Owned
<1>4. /\ answers \in Nat /\ answers + 1 \in 0..MaxAnswers /\ suppressed \in Nat
      /\ delivered \in [Requests -> Nat] /\ id \in issued /\ delivered[id] = 0
      /\ IsFiniteSet(D) /\ Cardinality(D) \in Nat
      /\ tickets \in [Features -> SUBSET [request: issued, generation: Nat]]
  BY <1>2, AppAssumption, DeliveredCount DEF AnswersInv, TypeOK
<1>5. NoTicket.request = None /\ None \notin issued /\ None \notin outdated
  BY BooksFacts
<1>6. TypeOK'
  <2>1. ResourcesTypeOK'
    BY DEF AppInv, ReadsInv, MutationsInv, ResourcesTypeOK
  <2>2. /\ Owned' \subseteq issued'
        /\ ownership' \in [Owned' -> [feature: Features, purpose: Purposes, era: Nat]]
    BY <1>2, <1>3 DEF AnswersInv, TypeOK
  <2>3. tickets' \in [Features -> SUBSET [request: issued', generation: Nat]]
    <3>1. tickets[f] \ mine \subseteq [request: issued, generation: Nat]
      BY <1>1, <1>4
    <3> HIDE DEF mine
    <3> QED
      BY <1>2, <1>4, <3>1
  <2>4. /\ issued' \subseteq Requests /\ outdated' \subseteq issued'
        /\ enabled' \subseteq Features /\ disposed' \in BOOLEAN /\ era' \in Nat
        /\ suppressed' \in Nat
    BY <1>2 DEF AnswersInv, TypeOK
  <2>5. delivered' \in [Requests -> Nat] /\ answers' \in 0..MaxAnswers
    BY <1>2, <1>4
  <2>6. disposed' => Owned' = {} /\ enabled' = {}
    BY <1>2
  <2> QED
    BY <1>1, <2>1, <2>2, <2>3, <2>4, <2>5, <2>6 DEF TypeOK
<1>7. IssuedInOrder'
  BY <1>2 DEF AnswersInv, IssuedInOrder
<1>8. \A g \in Features : tickets'[g] \subseteq tickets[g]
  BY <1>1, <1>2, <1>4
<1>9. TicketsDiffer'
  BY <1>8 DEF AnswersInv, TicketsDiffer
<1>10. \A g \in Features, q \in Purposes : Under(g, q)' \in {Under(g, q), NoTicket}
  BY <1>1 DEF OthersGoOn
<1>11. ActivesDiffer'
  BY <1>2, <1>5, <1>10, ActivesKept DEF AnswersInv
<1>12. OutdatedIsIdle'
  BY <1>2, <1>5, <1>10 DEF AnswersInv, OutdatedIsIdle
<1>13. Served'
  <2>1. SUFFICES ASSUME ~raised'
                 PROVE  /\ enabled' = Features \/ disposed'
                        /\ \A g \in Features, q \in Purposes :
                             Under(g, q)' # NoTicket => ServedAt(g, q)'
    BY DEF Served
  <2>2. /\ enabled' = Features \/ disposed'
        /\ \A g \in Features, q \in Purposes : Under(g, q) # NoTicket => ServedAt(g, q)
    BY <1>1, <1>2, <2>1 DEF AnswersInv, Served
  <2>3. ASSUME NEW g \in Features, NEW q \in Purposes, Under(g, q)' # NoTicket
        PROVE  ServedAt(g, q)'
    <3>1. Under(g, q)' = Under(g, q) /\ Under(g, q) # NoTicket
      BY <1>10, <2>3
    <3>2. /\ Under(g, q).request \in Owned /\ ownership[Under(g, q).request] = Owner(g, q)
          /\ Under(g, q) \in tickets[g]
      BY <2>2, <3>1 DEF ServedAt
    <3>3. Under(g, q).request # id
      <4>1. Owner(g, q).feature = g /\ Owner(g, q).purpose = q
        BY DEF Owner
      <4>2. Under(g, q).request = id => g = f /\ q = p
        BY <1>0, <3>2, <4>1
      <4> QED
        BY <1>1, <2>1, <3>1, <4>2
    <3>4. Under(g, q) \in tickets'[g]
      BY <1>1, <1>2, <1>4, <3>2, <3>3
    <3>5. Owner(g, q)' = Owner(g, q)
      BY <1>2 DEF Owner
    <3> QED
      BY <1>3, <3>1, <3>2, <3>3, <3>4, <3>5 DEF ServedAt
  <2> QED
    BY <2>2, <2>3
<1>14. ClaimedOnce'
  BY <1>2, <1>3, <1>4 DEF AnswersInv, ClaimedOnce, Fresh
<1>15. DeliveredOnce'
  <2>1. \A r \in Requests : delivered'[r] = IF r = id THEN 1 ELSE delivered[r]
    BY <1>2, <1>4
  <2>2. {r \in Requests : delivered'[r] # 0} = D \cup {id}
    BY <2>1
  <2>3. id \notin D
    BY <1>4
  <2>4. Cardinality(D \cup {id}) = Cardinality(D) + 1
    BY <1>4, <2>3, FS_AddElement
  <2>5. answers = Cardinality(D) + suppressed /\ \A r \in Requests : delivered[r] <= 1
    BY DEF AnswersInv, DeliveredOnce
  <2> HIDE DEF D
  <2>6. answers' = Cardinality(D \cup {id}) + suppressed'
    BY <1>2, <1>4, <2>4, <2>5
  <2>7. \A r \in Requests : delivered'[r] <= 1
    BY <2>1, <2>5
  <2> QED
    BY <2>2, <2>6, <2>7 DEF DeliveredOnce
<1> QED
  BY <1>6, <1>7, <1>9, <1>11, <1>12, <1>13, <1>14, <1>15 DEF AnswersInv

\* Disposal: no claim is left, and if every hook ran nothing is under way.
LEMMA DisposeKeeps ==
  ASSUME AnswersInv, AppInv', Dispose
  PROVE  AnswersInv'
<1>1. PICK completed \in SUBSET Features :
        HooksRun(completed) /\ raised' = (raised \/ completed # Features)
  BY DEF Dispose
<1>2. /\ ~disposed /\ disposed' = TRUE /\ enabled' = {} /\ era' = era + 1
      /\ ownership' = <<>> /\ outdated' = issued
      /\ UNCHANGED <<issued, suppressed, answers, delivered>>
  BY DEF Dispose, Cleared
<1>3. NoTicket.request = None /\ None \notin issued
  BY BooksFacts
<1>4. Owned' = {}
  BY <1>2 DEF Owned
<1>5. \A f \in Features : tickets'[f] = IF f \in completed THEN {} ELSE tickets[f]
  BY <1>1 DEF HooksRun
<1>6. ASSUME NEW f \in Features, NEW p \in Purposes
      PROVE  /\ Under(f, p)' \in {Under(f, p), NoTicket}
             /\ f \in completed => Under(f, p)' = NoTicket
  <2>1. /\ read'[f] = IF f \in completed THEN Cancelled(read[f]) ELSE read[f]
        /\ mutation'[f] = IF f \in completed THEN Abandoned(mutation[f]) ELSE mutation[f]
    BY <1>1 DEF HooksRun
  <2>2. Cancelled(read[f]).active = NoTicket
    BY DEF Cancelled, Waiting
  <2>3. Abandoned(mutation[f]).active = NoTicket
    BY DEF Abandoned, Ended, Waiting
  <2>4. /\ Under(f, p) = IF p = "read" THEN read[f].active ELSE mutation[f].active
        /\ Under(f, p)' = IF p = "read" THEN read'[f].active ELSE mutation'[f].active
    BY DEF Under, StateOf
  <2> QED
    BY <2>1, <2>2, <2>3, <2>4
<1>7. TypeOK'
  <2>1. ResourcesTypeOK'
    BY DEF AppInv, ReadsInv, MutationsInv, ResourcesTypeOK
  <2>2. issued' \subseteq Requests /\ Owned' \subseteq issued' /\ outdated' \subseteq issued'
    BY <1>2, <1>4 DEF AnswersInv, TypeOK
  <2>3. ownership' \in [Owned' -> [feature: Features, purpose: Purposes, era: Nat]]
    BY <1>2, <1>4
  <2>4. tickets' \in [Features -> SUBSET [request: issued', generation: Nat]]
    <3>1. tickets' = [f \in Features |-> IF f \in completed THEN {} ELSE tickets[f]]
      BY <1>1 DEF HooksRun
    <3>2. tickets \in [Features -> SUBSET [request: issued, generation: Nat]]
      BY DEF AnswersInv, TypeOK
    <3> QED
      BY <1>2, <3>1, <3>2
  <2>5. /\ enabled' \subseteq Features /\ disposed' \in BOOLEAN /\ era' \in Nat
        /\ suppressed' \in Nat /\ answers' \in 0..MaxAnswers /\ delivered' \in [Requests -> Nat]
    BY <1>2 DEF AnswersInv, TypeOK
  <2>6. raised' \in BOOLEAN
    BY <1>1
  <2>7. disposed' => Owned' = {} /\ enabled' = {}
    BY <1>2, <1>4
  <2> QED
    BY <2>1, <2>2, <2>3, <2>4, <2>5, <2>6, <2>7 DEF TypeOK
<1>8. IssuedInOrder' /\ DeliveredOnce'
  BY <1>2 DEF AnswersInv, IssuedInOrder, DeliveredOnce
<1>9. TicketsDiffer'
  BY <1>5 DEF AnswersInv, TicketsDiffer
<1>10. ActivesDiffer'
  BY <1>2, <1>3, <1>6, ActivesKept DEF AnswersInv
<1>11. OutdatedIsIdle'
  BY <1>2 DEF OutdatedIsIdle
<1>12. Served'
  BY <1>1, <1>2, <1>6 DEF Served
<1>13. ClaimedOnce'
  BY <1>2, <1>4 DEF AnswersInv, ClaimedOnce, Fresh
<1> QED
  BY <1>7, <1>8, <1>9, <1>10, <1>11, <1>12, <1>13 DEF AnswersInv
-----------------------------------------------------------------------------
(* Whose answer it is: the theorems. *)

\* No request was issued.
LEMMA AnswersInit == Init => AnswersInv
<1> SUFFICES ASSUME Init PROVE AnswersInv
  OBVIOUS
<1>1. AppInv
  BY InitOK
<1>2. /\ issued = {} /\ ownership = <<>> /\ outdated = {}
      /\ tickets = [f \in Features |-> {}]
      /\ enabled = Features /\ disposed = FALSE /\ era = 1
      /\ suppressed = 0 /\ raised = FALSE
      /\ answers = 0 /\ delivered = [id \in Requests |-> 0]
  BY DEF Init
<1>3. Owned = {}
  BY <1>2 DEF Owned
<1>4. ASSUME NEW f \in Features, NEW p \in Purposes
      PROVE  Under(f, p) = NoTicket
  BY DEF Init, ResourcesInit, Under, StateOf
<1>5. TypeOK
  <2>1. ResourcesTypeOK
    BY <1>1 DEF AppInv, ReadsInv, MutationsInv, ResourcesTypeOK
  <2>2. ownership \in [Owned -> [feature: Features, purpose: Purposes, era: Nat]]
    BY <1>2, <1>3
  <2>3. answers \in 0..MaxAnswers
    BY <1>2, AppAssumption
  <2> QED
    BY <1>2, <1>3, <2>1, <2>2, <2>3 DEF TypeOK
<1>6. IssuedInOrder
  <2>1. issued = 1..0
    BY <1>2
  <2> QED
    BY <2>1 DEF IssuedInOrder
<1>7. TicketsDiffer /\ ActivesDiffer /\ OutdatedIsIdle /\ Served /\ ClaimedOnce
  BY <1>2, <1>4 DEF TicketsDiffer, ActivesDiffer, OutdatedIsIdle, Served, ClaimedOnce
<1>8. DeliveredOnce
  <2>1. /\ {id \in Requests : delivered[id] # 0} = {}
        /\ \A id \in Requests : delivered[id] <= 1
    BY <1>2
  <2>2. answers = Cardinality({id \in Requests : delivered[id] # 0}) + suppressed
    <3>1. Cardinality({id \in Requests : delivered[id] # 0}) = 0
      BY <2>1, FS_EmptySet, Zenon
    <3> QED
      BY <1>2, <3>1
  <2> QED
    BY <2>1, <2>2 DEF DeliveredOnce
<1> QED
  BY <1>1, <1>5, <1>6, <1>7, <1>8 DEF AnswersInv

\* Every step keeps answers where they are claimed.
LEMMA AnswersStep ==
  ASSUME AnswersInv, [Next]_vars
  PROVE  AnswersInv'
<1>1. AppInv /\ AppInv'
  BY StepOK DEF AnswersInv
<1>2. UNCHANGED resourceVars => AllGoOn
  BY <1>1 DEF resourceVars, AllGoOn, Under, StateOf
<1>3. ASSUME NEW f \in Features, Handle(f)
      PROVE  AnswersInv'
  BY <1>1, <1>3, HandleShapes, BeginsKeeps, GivesUpKeeps, RaisingKeeps, BooksKept
<1>4. ASSUME NEW id \in Requests, ResolveSuppressed(id)
      PROVE  AnswersInv'
  BY <1>1, <1>2, <1>4, SuppressedKeeps DEF ResolveSuppressed
<1>5. ASSUME NEW id \in Requests, ResolveDelivered(id)
      PROVE  AnswersInv'
  BY <1>1, <1>5, DeliveredKeeps
<1>6. CASE DisposeInterrupted
  BY <1>1, <1>2, <1>6, RaisingKeeps DEF DisposeInterrupted
<1>7. CASE Dispose
  BY <1>1, <1>7, DisposeKeeps
<1>8. CASE UNCHANGED vars
  BY <1>1, <1>2, <1>8, BooksKept DEF vars
<1> QED
  BY <1>3, <1>4, <1>5, <1>6, <1>7, <1>8 DEF Next

\* Claims, tickets, counters and generations stay what app.luau and resource.luau
\* take them for.
THEOREM AppTypeCorrect == Spec => []TypeOK
<1>1. AnswersInv => TypeOK
  BY DEF AnswersInv
<1> QED
  BY <1>1, AnswersInit, AnswersStep, PTL DEF Spec

\* Instance.resolve hands no answer over twice and counts every other one as
\* suppressed, and while nothing raised whoever waits will be reached by its answer.
THEOREM AnswersArrived == Spec => []AnswersArrive
<1>1. AnswersInv => AnswersArrive
  <2> SUFFICES ASSUME AnswersInv, ~raised, NEW f \in Features
               PROVE  /\ Waiting(read[f]) =>
                           Active(read[f]) \subseteq Owned /\ read[f].active \in tickets[f]
                      /\ Waiting(mutation[f]) =>
                           /\ Active(mutation[f]) \subseteq Owned
                           /\ mutation[f].active \in tickets[f]
    BY DEF AnswersInv, AnswersArrive, WaitersAreServed
  <2>1. "read" \in Purposes /\ "mutation" \in Purposes
    BY DEF Purposes
  <2>2. Under(f, "read") = read[f].active /\ Under(f, "mutation") = mutation[f].active
    BY DEF Under, StateOf
  <2>3. \A p \in Purposes : Under(f, p) # NoTicket =>
          Under(f, p).request \in Owned /\ Under(f, p) \in tickets[f]
    BY DEF AnswersInv, Served, ServedAt
  <2> QED
    BY <2>1, <2>2, <2>3 DEF Waiting, Active
<1> QED
  BY <1>1, AnswersInit, AnswersStep, PTL DEF Spec

\* The answer of a request that was superseded, cancelled, reset or disposed of
\* changes neither a read nor a mutation, and a disposed application hands out none.
THEOREM LateAnswersIgnored == Spec => LateAnswersChangeNothing
<1> DEFINE Ignored ==
      /\ \A id \in outdated : delivered'[id] # delivered[id] => UNCHANGED resourceVars
      /\ enabled = {} => UNCHANGED delivered
<1>1. ASSUME AnswersInv, [Next]_vars
      PROVE  [Ignored]_vars
  <2>1. ASSUME UNCHANGED delivered
        PROVE  Ignored
    BY <2>1
  <2>2. ASSUME NEW id \in Requests, ResolveDelivered(id)
        PROVE  Ignored
    <3>1. PICK f, p : f = ownership[id].feature /\ p = ownership[id].purpose
      OBVIOUS
    <3>2. /\ f \in Features /\ f \in enabled
          /\ delivered' = [delivered EXCEPT ![id] = delivered[id] + 1]
      BY <2>2, <3>1, DeliveryShape, <1>1 DEF ResolveDelivered, Receiver
    <3>3. id \in outdated => UNCHANGED resourceVars
      BY <1>1, <2>2, <3>1, DeliveryShape
    <3>4. delivered \in [Requests -> Nat] /\ outdated \subseteq Requests
      BY <1>1 DEF AnswersInv, TypeOK
    <3>5. \A r \in outdated : delivered'[r] # delivered[r] => r = id
      BY <3>2, <3>4
    <3> QED
      BY <3>2, <3>3, <3>5
  <2>3. CASE UNCHANGED delivered
    BY <2>1, <2>3
  <2>4. CASE \E id \in Requests : ResolveDelivered(id)
    BY <2>2, <2>4
  <2>5. CASE UNCHANGED vars
    BY <2>5
  <2>6. \/ UNCHANGED delivered \/ UNCHANGED vars
        \/ \E id \in Requests : ResolveDelivered(id)
    BY <1>1 DEF Next, Handle, StartRead, StartMutation, StartMutationRaises, CancelRead,
       CancelMutation, InvalidateRead, ResetRead, ResolveSuppressed, DisposeInterrupted,
       Dispose, appVars
  <2> QED
    BY <2>3, <2>4, <2>5, <2>6
<1> QED
  BY <1>1, AnswersInit, AnswersStep, PTL DEF Spec, LateAnswersChangeNothing
-----------------------------------------------------------------------------
(* The application and its browser. The invariant speaks of what the       *)
(* events that wait are still going to tell the application: the last of   *)
(* them that says where the browser is (its last word) says it of the      *)
(* entry the browser is at, and if none does the stack is that entry's.    *)

\* the event says where the browser is
Speaks(e) == e.kind \in {"history", "url"}

\* Entries keep their place and their token together, the first one is the application's,
\* and a native host has no others.
GoodSession(ses, nat) ==
  /\ ses \in Sessions /\ ses.index <= Len(ses.entries) /\ Len(ses.entries) <= MaxEntries
  /\ ses.entries[1].token # <<>>
  /\ \A i \in DOMAIN ses.entries :
       IF ses.entries[i].token = <<>> THEN ~nat
       ELSE ses.entries[i].place = Last(ses.entries[i].token)

\* The stack s is what the current entry asks for, unless a hashchange is still to tell.
Shows(s, ses, h) ==
  IF Here(ses).token # <<>> THEN s = Here(ses).token
  ELSE h = 0 => Last(s) = Here(ses).place

\* the last of the events in q that say where the browser is
LastWord(q, n) ==
  /\ n \in DOMAIN q /\ Speaks(q[n])
  /\ \A m \in DOMAIN q : m > n => ~Speaks(q[m])

\* the last word of what waits, or the stack if there is none, is the current entry's
Agrees(s, ses, q, h) ==
  /\ (\A n \in DOMAIN q : ~Speaks(q[n])) => Shows(s, ses, h)
  /\ \A n \in DOMAIN q : LastWord(q, n) /\ q[n].kind = "history" => Shows(q[n].value, ses, h)

\* the n-th event of q will find a stack of one location
FindsShort(s, q, n) ==
  \/ /\ \A m \in 1..(n - 1) : q[m].kind # "history"
     /\ Len(s) = 1
  \/ \E m \in 1..(n - 1) :
       /\ q[m].kind = "history" /\ Len(q[m].value) = 1
       /\ \A k \in (m + 1)..(n - 1) : q[k].kind # "history"

\* The first entry has a stack of one location: what is going to be written to it is one.
StartsShort(s, ses, q) ==
  /\ Len(ses.entries[1].token) = 1
  /\ \A n \in DOMAIN q : q[n].kind = "url" /\ q[n].at = 1 => FindsShort(s, q, n)
  /\ ses.index = 1 =>
       \A n \in DOMAIN q : LastWord(q, n) /\ q[n].kind = "url" => q[n].at = 1

\* of what did not go astray
AgreesSoFar(s, ses, q, h, lost) ==
  /\ "page" \notin lost => Agrees(s, ses, q, h)
  /\ "depth" \notin lost => "page" \notin lost /\ StartsShort(s, ses, q)

\* no event waits twice
Distinct(q) == \A m, n \in DOMAIN q : SameKey(q[m], q[n]) => m = n

\* There is room for the links that wait.
QueueOnce ==
  /\ running = Idle => waiting = <<>>
  /\ Distinct(waiting)
  /\ ~native => LinksIn(waiting) = {}
  /\ session.index + Cardinality(LinksIn(waiting)) <= MaxEntries

\* What the browser has still to do was asked for by a move.
MovesPay ==
  /\ pressed <=> BackPress \in Range(waiting)
  /\ hashes + session.backs + (IF pressed THEN 1 ELSE 0) <= moves

\* The inductive invariant.
HistoryInv ==
  /\ HistoryTypeOK /\ GoodSession(session, native)
  /\ QueueOnce /\ MovesPay
  /\ AgreesSoFar(stack, session, waiting, hashes, astray)

\* A stack is a sequence of one to MaxDepth places.
LEMMA StackMembers ==
  \A s : s \in Stacks <=> s \in Seq(Places) /\ Len(s) \in 1..MaxDepth
PROOF
<1>1. ASSUME NEW s \in Stacks PROVE s \in Seq(Places) /\ Len(s) \in 1..MaxDepth
  <2>1. PICK m \in 0..MaxDepth : s \in [1..m -> Places]
    BY DEF Stacks, SeqOf
  <2>2. s # <<>>
    BY DEF Stacks
  <2>3. m \in Nat
    BY <2>1, HistoryAssumption
  <2> QED
    BY <2>1, <2>2, <2>3, HistoryAssumption
<1>2. ASSUME NEW s \in Seq(Places), Len(s) \in 1..MaxDepth PROVE s \in Stacks
  <2>1. s \in [1..Len(s) -> Places] /\ s # <<>> /\ Len(s) \in 0..MaxDepth
    BY <1>2, HistoryAssumption
  <2> QED
    BY <2>1 DEF Stacks, SeqOf
<1> QED
  BY <1>1, <1>2

\* The same, to conclude from.
LEMMA IsStack ==
  ASSUME NEW s, s \in Seq(Places), Len(s) >= 1, Len(s) <= MaxDepth
  PROVE  s \in Stacks
BY StackMembers, HistoryAssumption

\* stack.push and pushEntry end at the location and keep to the depth.
LEMMA PushedFacts ==
  ASSUME NEW s \in Stacks, NEW p \in Places
  PROVE  /\ Pushed(s, p) \in Stacks /\ Last(Pushed(s, p)) = p
         /\ Len(s) < MaxDepth => Append(s, p) \in Stacks /\ Last(Append(s, p)) = p
PROOF
<1> USE HistoryAssumption
<1>1. s \in Seq(Places) /\ Len(s) \in 1..MaxDepth
  BY StackMembers
<1>2. Last(s) \in Places
  BY <1>1 DEF Last
<1>3. /\ Append(s, p) \in Seq(Places) /\ Len(Append(s, p)) = Len(s) + 1
      /\ Last(Append(s, p)) = p /\ Append(s, p) # <<>>
  BY <1>1 DEF Last
<1>4. <<Last(s), p>> \in Seq(Places) /\ Len(<<Last(s), p>>) = 2 /\ Last(<<Last(s), p>>) = p
  BY <1>2 DEF Last
<1>5. ASSUME Len(s) < MaxDepth PROVE Append(s, p) \in Stacks
  <2>1. Len(Append(s, p)) >= 1 /\ Len(Append(s, p)) <= MaxDepth
    BY <1>1, <1>3, <1>5
  <2> QED
    BY <1>3, <2>1, IsStack
<1>6. <<Last(s), p>> \in Stacks
  <2>1. Len(<<Last(s), p>>) >= 1 /\ Len(<<Last(s), p>>) <= MaxDepth
    BY <1>4
  <2> HIDE DEF Last
  <2> QED
    BY <1>4, <2>1, IsStack
<1> QED
  BY <1>1, <1>3, <1>4, <1>5, <1>6 DEF Pushed

\* stack.replace ends at the location, and leaves a stack of one location one.
LEMMA ReplacedFacts ==
  ASSUME NEW s \in Stacks, NEW p \in Places
  PROVE  /\ Replaced(s, p) \in Stacks /\ Last(Replaced(s, p)) = p
         /\ Len(s) = 1 => Len(Replaced(s, p)) = 1
         /\ Last(s) = p => Replaced(s, p) = s
PROOF
<1> USE HistoryAssumption
<1>1. s \in Seq(Places) /\ Len(s) \in 1..MaxDepth
  BY StackMembers
<1>2. CASE Last(s) = p
  BY <1>2 DEF Replaced
<1>3. CASE Last(s) # p /\ CanBack(s) /\ s[Len(s) - 1] = p
  <2>1. /\ Front(s) \in Seq(Places) /\ Len(Front(s)) = Len(s) - 1
        /\ Front(s)[Len(s) - 1] = s[Len(s) - 1]
    BY <1>1, <1>3 DEF Front, CanBack
  <2>2. Front(s) \in Stacks
    BY <1>1, <1>3, <2>1, StackMembers DEF CanBack
  <2> QED
    BY <1>1, <1>3, <2>1, <2>2 DEF Replaced, Last, CanBack
<1>4. CASE Last(s) # p /\ ~(CanBack(s) /\ s[Len(s) - 1] = p)
  <2>1. Front(s) \in Seq(Places) /\ Len(Front(s)) = Len(s) - 1
    <3>1. Len(s) - 1 \in Int /\ 1 \in Int /\ \A i \in 1..(Len(s) - 1) : s[i] \in Places
      BY <1>1
    <3> QED
      <4> DEFINE f == SubSeq(s, 1, Len(s) - 1)
      <4>1. f \in Seq(Places) /\ Len(f) = IF 1 <= Len(s) - 1 THEN Len(s) - 1 - 1 + 1 ELSE 0
        BY <3>1, SubSeqProperties
      <4>2. Front(s) = f
        BY DEF Front
      <4> HIDE DEF f
      <4> QED
        BY <1>1, <4>1, <4>2
  <2>2. /\ Append(Front(s), p) \in Seq(Places) /\ Len(Append(Front(s), p)) = Len(s)
        /\ Append(Front(s), p)[Len(s)] = p
    BY <1>1, <2>1
  <2>3. Append(Front(s), p) \in Stacks
    BY <1>1, <2>2, StackMembers
  <2> QED
    BY <1>1, <1>4, <2>2, <2>3 DEF Replaced, Last
<1> QED
  BY <1>2, <1>3, <1>4

\* A start ends at the location of the page, with the stack of its token if it fits.
LEMMA StartedFacts ==
  ASSUME NEW token \in Stacks \cup {<<>>}, NEW p \in Places
  PROVE  /\ Started(token, p) \in Stacks /\ Last(Started(token, p)) = p
         /\ token = <<>> \/ Len(token) = 1 => Len(Started(token, p)) = 1
         /\ token # <<>> /\ Last(token) = p => Started(token, p) = token
PROOF
<1>1. <<Home>> \in Stacks /\ Len(<<Home>>) = 1
  <2> DEFINE s == <<Home>>
  <2>1. s \in Seq(Places) /\ Len(s) = 1 /\ 1 <= MaxDepth
    BY HistoryAssumption
  <2>2. Len(s) >= 1 /\ Len(s) <= MaxDepth
    BY <2>1, HistoryAssumption
  <2> HIDE DEF s
  <2>3. s \in Stacks
    BY <2>1, <2>2, IsStack
  <2> QED
    BY <2>1, <2>3 DEF s
<1>2. <<>> \notin Stacks
  BY DEF Stacks
<1> QED
  BY <1>1, <1>2, ReplacedFacts DEF Started
-----------------------------------------------------------------------------
\* An entry of the application carries a stack that ends at its place.
LEMMA EntryOfFacts ==
  ASSUME NEW s \in Stacks
  PROVE  /\ EntryOf(s) \in Entries /\ EntryOf(s).token = s /\ s # <<>>
         /\ EntryOf(s).place = Last(s)
PROOF
<1>1. s \in Seq(Places) /\ Len(s) \in 1..MaxDepth
  BY StackMembers
<1>2. Last(s) \in Places
  BY <1>1, HistoryAssumption DEF Last
<1>3. s # <<>>
  BY DEF Stacks
<1> QED
  BY <1>2, <1>3 DEF EntryOf, Entries

\* Overwriting the current entry changes no other.
LEMMA OverwrittenFacts ==
  ASSUME NEW ses, NEW nat, GoodSession(ses, nat), NEW s \in Stacks
  PROVE  LET new == Overwritten(ses, EntryOf(s)) IN
         /\ GoodSession(new, nat) /\ new.index = ses.index /\ new.backs = ses.backs
         /\ Here(new) = EntryOf(s) /\ Len(new.entries) = Len(ses.entries)
         /\ new.entries[1].token = IF ses.index = 1 THEN s ELSE ses.entries[1].token
PROOF
<1> DEFINE new == Overwritten(ses, EntryOf(s))
<1>1. /\ ses \in Sessions /\ ses.entries \in Seq(Entries) /\ ses.index \in 1..Len(ses.entries)
      /\ Len(ses.entries) <= MaxEntries /\ ses.index \in 1..MaxEntries /\ Len(ses.entries) \in Nat
      /\ ses.backs \in 0..MaxMoves
  BY HistoryAssumption DEF GoodSession, Sessions
<1>2. /\ new.entries = [ses.entries EXCEPT ![ses.index] = EntryOf(s)]
      /\ new.index = ses.index /\ new.backs = ses.backs
      /\ new = [entries |-> new.entries, index |-> ses.index, backs |-> ses.backs]
  BY <1>1 DEF Overwritten, Sessions
<1> HIDE DEF new
<1>3. EntryOf(s) \in Entries /\ EntryOf(s).token = s /\ s # <<>> /\ EntryOf(s).place = Last(s)
  BY EntryOfFacts
<1>4. /\ new.entries \in Seq(Entries) /\ Len(new.entries) = Len(ses.entries)
      /\ DOMAIN new.entries = DOMAIN ses.entries /\ DOMAIN ses.entries = 1..Len(ses.entries)
      /\ \A j \in 1..Len(ses.entries) :
           new.entries[j] = IF j = ses.index THEN EntryOf(s) ELSE ses.entries[j]
  BY <1>1, <1>2, <1>3, ExceptSeq
<1>5. new \in Sessions
  BY <1>1, <1>2, <1>4 DEF Sessions
<1>6. ASSUME NEW i \in DOMAIN new.entries
      PROVE  IF new.entries[i].token = <<>> THEN ~nat
             ELSE new.entries[i].place = Last(new.entries[i].token)
  BY <1>3, <1>4 DEF GoodSession
<1>7. 1 \in 1..Len(ses.entries) /\ new.entries[1].token # <<>>
  BY <1>1, <1>3, <1>4 DEF GoodSession
<1>8. GoodSession(new, nat)
  BY <1>1, <1>2, <1>4, <1>5, <1>6, <1>7 DEF GoodSession
<1>9. Here(new) = EntryOf(s)
  BY <1>1, <1>2, <1>4 DEF Here
<1>10. new.entries[1].token = IF ses.index = 1 THEN s ELSE ses.entries[1].token
  BY <1>3, <1>4, <1>7
<1> QED
  BY <1>2, <1>4, <1>8, <1>9, <1>10 DEF new

\* A new entry becomes the current one, and the first stays.
LEMMA AppendedFacts ==
  ASSUME NEW ses, NEW nat, GoodSession(ses, nat), ses.index < MaxEntries, NEW entry \in Entries,
         IF entry.token = <<>> THEN ~nat ELSE entry.place = Last(entry.token)
  PROVE  LET new == Appended(ses, entry) IN
         /\ GoodSession(new, nat) /\ new.index = ses.index + 1 /\ new.backs = ses.backs
         /\ Here(new) = entry /\ new.entries[1] = ses.entries[1]
PROOF
<1> DEFINE new == Appended(ses, entry)
           left == SubSeq(ses.entries, 1, ses.index)
<1>1. /\ ses \in Sessions /\ ses.entries \in Seq(Entries) /\ ses.index \in 1..Len(ses.entries)
      /\ Len(ses.entries) <= MaxEntries /\ ses.index \in 1..MaxEntries /\ Len(ses.entries) \in Nat
      /\ ses.backs \in 0..MaxMoves
  BY HistoryAssumption DEF GoodSession, Sessions
<1>2. /\ new.entries = Append(left, entry) /\ new.index = ses.index + 1 /\ new.backs = ses.backs
      /\ new = [entries |-> new.entries, index |-> ses.index + 1, backs |-> ses.backs]
  <2> DEFINE longer == Append(left, entry)
             next == ses.index + 1
  <2>1. new = [[ses EXCEPT !.entries = longer] EXCEPT !.index = next]
    BY <1>1 DEF Appended, Sessions
  <2> HIDE DEF longer, next, new, left
  <2>2. /\ new.entries = longer /\ new.index = next /\ new.backs = ses.backs
        /\ new = [entries |-> longer, index |-> next, backs |-> ses.backs]
    BY <1>1, <2>1 DEF Sessions
  <2> QED
    BY <2>2 DEF longer, next
<1>3. /\ left \in Seq(Entries) /\ Len(left) = ses.index
      /\ \A i \in 1..ses.index : left[i] = ses.entries[i]
  <2>1. ses.index \in Int /\ 1 \in Int /\ \A i \in 1..ses.index : ses.entries[i] \in Entries
    BY <1>1
  <2>2. /\ left \in Seq(Entries) /\ Len(left) = IF 1 <= ses.index THEN ses.index - 1 + 1 ELSE 0
        /\ \A i \in 1..(ses.index - 1 + 1) : left[i] = ses.entries[1 + i - 1]
    BY <2>1, SubSeqProperties
  <2> HIDE DEF left
  <2> QED
    BY <1>1, <2>2
<1> HIDE DEF new, left
<1>4. /\ new.entries \in Seq(Entries) /\ Len(new.entries) = ses.index + 1
      /\ DOMAIN new.entries = 1..(ses.index + 1)
      /\ \A i \in 1..ses.index : new.entries[i] = ses.entries[i]
      /\ new.entries[ses.index + 1] = entry
  <2>1. /\ Append(left, entry) \in Seq(Entries) /\ Len(Append(left, entry)) = Len(left) + 1
        /\ \A i \in 1..Len(left) : Append(left, entry)[i] = left[i]
        /\ Append(left, entry)[Len(left) + 1] = entry
    BY <1>3
  <2> DEFINE longer == Append(left, entry)
  <2>2. /\ longer \in Seq(Entries) /\ Len(longer) = ses.index + 1 /\ longer[ses.index + 1] = entry
        /\ \A i \in 1..ses.index : longer[i] = left[i]
    BY <1>3, <2>1
  <2>3. new.entries = longer
    BY <1>2
  <2> HIDE DEF longer
  <2>4. DOMAIN longer = 1..(ses.index + 1)
    BY <1>1, <2>2, LenProperties
  <2> QED
    BY <1>3, <2>2, <2>3, <2>4
<1>5. ses.index + 1 \in 1..MaxEntries
  BY <1>1, HistoryAssumption
<1>6. new \in Sessions
  BY <1>1, <1>2, <1>4, <1>5 DEF Sessions
<1>7. ASSUME NEW i \in DOMAIN new.entries
      PROVE  IF new.entries[i].token = <<>> THEN ~nat
             ELSE new.entries[i].place = Last(new.entries[i].token)
  <2>1. CASE i = ses.index + 1
    BY <1>4, <2>1
  <2>2. CASE i # ses.index + 1
    <3>1. i \in 1..ses.index /\ i \in DOMAIN ses.entries
      BY <1>1, <1>4, <2>2
    <3> QED
      BY <1>4, <3>1 DEF GoodSession
  <2> QED
    BY <2>1, <2>2
<1>8. 1 \in 1..ses.index /\ new.entries[1] = ses.entries[1]
  BY <1>1, <1>4
<1>9. GoodSession(new, nat)
  BY <1>1, <1>2, <1>4, <1>5, <1>6, <1>7, <1>8 DEF GoodSession
<1>10. Here(new) = entry
  BY <1>2, <1>4 DEF Here
<1> QED
  BY <1>2, <1>8, <1>9, <1>10 DEF new

\* Going to another entry, or counting history.back(), changes no entry.
LEMMA SessionMoved ==
  ASSUME NEW ses, NEW nat, GoodSession(ses, nat), NEW i \in DOMAIN ses.entries,
         NEW b \in 0..MaxMoves
  PROVE  /\ GoodSession([ses EXCEPT !.index = i], nat)
         /\ GoodSession([ses EXCEPT !.backs = b], nat)
PROOF
<1>1. /\ ses.entries \in Seq(Entries) /\ i \in 1..Len(ses.entries) /\ i \in 1..MaxEntries
      /\ ses = [entries |-> ses.entries, index |-> ses.index, backs |-> ses.backs]
      /\ ses.index \in 1..MaxEntries /\ ses.backs \in 0..MaxMoves
  BY HistoryAssumption DEF GoodSession, Sessions
<1> DEFINE one == [ses EXCEPT !.index = i]
           two == [ses EXCEPT !.backs = b]
<1>2. /\ one = [entries |-> ses.entries, index |-> i, backs |-> ses.backs]
      /\ two = [entries |-> ses.entries, index |-> ses.index, backs |-> b]
  BY <1>1
<1> HIDE DEF one, two
<1>3. /\ one \in Sessions /\ two \in Sessions /\ one.index = i /\ two.index = ses.index
      /\ one.entries = ses.entries /\ two.entries = ses.entries
  BY <1>1, <1>2 DEF Sessions
<1> QED
  BY <1>1, <1>3 DEF GoodSession, one, two
-----------------------------------------------------------------------------
\* What the kinds of events carry.
LEMMA EventFacts ==
  ASSUME NEW e \in HostEvents
  PROVE  /\ e.kind \in {"history", "url", "link", "back", "other"}
         /\ e.kind = "history" => e.value \in Stacks /\ e.at \in 1..MaxEntries
         /\ e.kind = "url" => e.value \in Places /\ e.at \in 1..MaxEntries
         /\ e.kind = "link" => e.value \in Places /\ e = Link(e.value)
         /\ e.kind = "back" => e = BackPress
         /\ e.kind = "other" => e = Other
BY DEF HostEvents, Link, BackPress, Other

\* What a turn does to the stack and the session.
TurnOutcome(e, ses, rest) ==
  \/ /\ e.kind = "history" /\ stack' = e.value /\ session' = ses /\ astray' = astray
  \/ /\ e.kind \in {"link", "back", "other"} /\ stack' = stack /\ astray' = astray
     /\ session'.entries = ses.entries /\ session'.index = ses.index
  \/ /\ e.kind \in {"url", "link"}
     /\ Here(session') = EntryOf(stack')
     /\ session'.entries[1].token = IF session'.index = 1 THEN stack' ELSE ses.entries[1].token
     /\ session'.index = 1 =>
          ses.index = 1 /\ stack' = (IF e.kind = "url" THEN Replaced(stack, e.value) ELSE stack)
     /\ \/ astray' = {"page", "depth"}
        \/ /\ astray' = astray /\ \A f \in Range(rest) : ~Speaks(f)
           /\ e.kind = "url" => e.at = ses.index

\* A turn keeps the parts of the state in their types and has an outcome.
LEMMA TurnFacts ==
  ASSUME HistoryTypeOK, NEW ses, GoodSession(ses, native), NEW e \in HostEvents, NEW rest,
         Turns(e, ses, rest),
         e.kind = "link" => ses.index < MaxEntries,
         e.kind = "back" => ses.backs < MaxMoves
  PROVE  /\ stack' \in Stacks /\ GoodSession(session', native) /\ told' \in 1..MaxEntries
         /\ astray' = astray \/ astray' = {"page", "depth"}
         /\ pressed' = IF e.kind = "back" THEN FALSE ELSE pressed
         /\ session'.backs <= ses.backs + (IF e.kind = "back" THEN 1 ELSE 0)
         /\ session'.index <= ses.index + (IF e.kind = "link" THEN 1 ELSE 0)
         /\ TurnOutcome(e, ses, rest)
PROOF
<1> DEFINE Goal == /\ stack' \in Stacks /\ GoodSession(session', native) /\ told' \in 1..MaxEntries
                   /\ astray' = astray \/ astray' = {"page", "depth"}
                   /\ pressed' = IF e.kind = "back" THEN FALSE ELSE pressed
                   /\ session'.backs <= ses.backs + (IF e.kind = "back" THEN 1 ELSE 0)
                   /\ session'.index <= ses.index + (IF e.kind = "link" THEN 1 ELSE 0)
                   /\ TurnOutcome(e, ses, rest)
<1>1. /\ ses \in Sessions /\ ses.entries \in Seq(Entries) /\ ses.index \in 1..Len(ses.entries)
      /\ ses.index \in 1..MaxEntries /\ ses.index \in Nat /\ ses.backs \in 0..MaxMoves /\ ses.backs \in Nat
      /\ ses = [entries |-> ses.entries, index |-> ses.index, backs |-> ses.backs]
  BY HistoryAssumption DEF GoodSession, Sessions
<1>2. stack \in Stacks /\ told \in 1..MaxEntries /\ pressed \in BOOLEAN
  BY DEF HistoryTypeOK
<1>3. CASE e.kind = "history"
  <2>1. stack' = e.value /\ session' = ses /\ told' = e.at /\ pressed' = pressed /\ astray' = astray
    BY <1>3 DEF Turns, TurnsToHistory
  <2> QED
    BY <1>1, <1>3, <2>1, EventFacts DEF TurnOutcome
<1>4. CASE e.kind = "other"
  <2>1. stack' = stack /\ session' = ses /\ told' = told /\ pressed' = pressed /\ astray' = astray
    BY <1>4 DEF Turns
  <2> QED
    BY <1>1, <1>2, <1>4, <2>1 DEF TurnOutcome
<1>5. CASE e.kind = "back"
  <2>1. /\ session' = IF CanBack(stack) THEN [ses EXCEPT !.backs = @ + 1] ELSE ses
        /\ pressed' = FALSE /\ stack' = stack /\ told' = told /\ astray' = astray
    BY <1>5 DEF Turns, TurnsBack
  <2>2. ses.backs + 1 \in 0..MaxMoves /\ ses.index \in DOMAIN ses.entries
    BY <1>1, <1>5, HistoryAssumption
  <2>3. GoodSession([ses EXCEPT !.backs = ses.backs + 1], native)
    BY <2>2, SessionMoved
  <2>4. /\ GoodSession(session', native) /\ session'.entries = ses.entries
        /\ session'.index = ses.index /\ session'.backs <= ses.backs + 1
    BY <1>1, <2>1, <2>3
  <2> QED
    <3>1. TurnOutcome(e, ses, rest)
      BY <1>5, <2>1, <2>4 DEF TurnOutcome
    <3>2. session'.index <= ses.index + 0
      BY <1>1, <2>4
    <3> QED
      BY <1>2, <1>5, <2>1, <2>4, <3>1, <3>2
<1> DEFINE Lagging == IF e.kind = "url" THEN e.at # ses.index \/ \E f \in Range(rest) : Speaks(f)
                      ELSE Lags(ses, rest)
           next == IF e.kind = "url" THEN Replaced(stack, e.value) ELSE stack
<1>6. ASSUME e.kind \in {"url", "link"}, stack' = next, next \in Stacks, pressed' = pressed,
             session' = Overwritten(ses, EntryOf(next)), told' = ses.index, GoesAstray(Lagging)
      PROVE  Goal
  <2>1. /\ GoodSession(session', native) /\ session'.index = ses.index /\ session'.backs = ses.backs
        /\ Here(session') = EntryOf(stack')
        /\ session'.entries[1].token = IF ses.index = 1 THEN stack' ELSE ses.entries[1].token
    BY <1>6, OverwrittenFacts
  <2>2. \/ astray' = {"page", "depth"}
        \/ /\ astray' = astray /\ \A f \in Range(rest) : ~Speaks(f)
           /\ e.kind = "url" => e.at = ses.index
    BY <1>6 DEF GoesAstray, Lags, Speaks
  <2>3. TurnOutcome(e, ses, rest)
    BY <1>6, <2>1, <2>2 DEF TurnOutcome
  <2> QED
    <3>1. session'.index <= ses.index + 0 /\ session'.index <= ses.index + 1
      BY <1>1, <2>1
    <3>2. session'.backs <= ses.backs + 0
      BY <1>1, <2>1
    <3>3. stack' \in Stacks /\ told' \in 1..MaxEntries
      BY <1>1, <1>6
    <3> HIDE DEF next, Lagging
    <3> QED
      BY <1>6, <2>1, <2>2, <2>3, <3>1, <3>2, <3>3
<1>7. CASE e.kind = "url"
  <2>1. /\ stack' = Replaced(stack, e.value) /\ pressed' = pressed /\ told' = ses.index
        /\ session' = Overwritten(ses, EntryOf(Replaced(stack, e.value)))
        /\ GoesAstray(e.at # ses.index \/ \E f \in Range(rest) : f.kind \in {"history", "url"})
    BY <1>7 DEF Turns, TurnsToUrl, WritesReplace
  <2>2. Replaced(stack, e.value) \in Stacks
    BY <1>2, <1>7, EventFacts, ReplacedFacts
  <2>3. GoesAstray(Lagging)
    BY <1>7, <2>1 DEF GoesAstray, Speaks
  <2> QED
    BY <1>6, <1>7, <2>1, <2>2, <2>3
<1>8. CASE e.kind = "link"
  <2>1. pressed' = pressed
    BY <1>8 DEF Turns, TurnsToLink
  <2>2. CASE Last(stack) = e.value /\ WritesReplace(stack, ses) /\ GoesAstray(Lags(ses, rest))
    <3>1. GoesAstray(Lagging)
      BY <1>8, <2>2 DEF GoesAstray
    <3> QED
      BY <1>2, <1>6, <1>8, <2>1, <2>2, <3>1 DEF WritesReplace
  <2>3. CASE /\ Last(stack) # e.value /\ Len(stack) < MaxDepth
             /\ WritesPush(Append(stack, e.value), ses) /\ GoesAstray(Lags(ses, rest))
    <3>1. /\ stack' = Append(stack, e.value) /\ session' = Appended(ses, EntryOf(stack'))
          /\ told' = ses.index + 1
      BY <2>3 DEF WritesPush
    <3>2. stack' \in Stacks
      BY <1>2, <1>8, <2>3, <3>1, EventFacts, PushedFacts
    <3>3. /\ EntryOf(stack') \in Entries /\ EntryOf(stack').token # <<>>
          /\ EntryOf(stack').place = Last(EntryOf(stack').token)
      BY <3>2, EntryOfFacts
    <3>4. /\ GoodSession(session', native) /\ session'.index = ses.index + 1
          /\ session'.backs = ses.backs /\ Here(session') = EntryOf(stack')
          /\ session'.entries[1] = ses.entries[1]
      BY <1>8, <3>1, <3>3, AppendedFacts
    <3>5. \/ astray' = {"page", "depth"}
          \/ astray' = astray /\ \A f \in Range(rest) : ~Speaks(f)
      BY <2>3 DEF GoesAstray, Lags, Speaks
    <3>6. session'.index # 1 /\ told' \in 1..MaxEntries
      BY <1>1, <1>8, <3>1, <3>4, HistoryAssumption
    <3>7. TurnOutcome(e, ses, rest)
      BY <1>8, <3>4, <3>5, <3>6 DEF TurnOutcome
    <3> QED
      BY <1>1, <1>8, <2>1, <3>2, <3>4, <3>5, <3>6, <3>7
  <2>4. CASE session' = ses /\ UNCHANGED <<stack, told, astray>>
    <3>1. TurnOutcome(e, ses, rest)
      BY <1>8, <2>4 DEF TurnOutcome
    <3> QED
      BY <1>1, <1>2, <1>8, <2>1, <2>4, <3>1
  <2> QED
    BY <1>8, <2>2, <2>3, <2>4 DEF Turns, TurnsToLink
<1> QED
  BY <1>3, <1>4, <1>5, <1>7, <1>8, EventFacts
-----------------------------------------------------------------------------
\* What waits behind the head of the queue.
LEMMA QueueTail ==
  ASSUME NEW q \in Seq(HostEvents), q # <<>>
  PROVE  /\ Head(q) = q[1] /\ Head(q) \in HostEvents /\ Tail(q) \in Seq(HostEvents)
         /\ DOMAIN q = 1..Len(q) /\ Len(q) \in Nat /\ 1 \in DOMAIN q
         /\ Len(Tail(q)) = Len(q) - 1 /\ DOMAIN Tail(q) = 1..(Len(q) - 1)
         /\ \A n \in DOMAIN Tail(q) : n \in Nat /\ n + 1 \in DOMAIN q /\ Tail(q)[n] = q[n + 1]
         /\ \A n \in DOMAIN q : n = 1 \/ n - 1 \in DOMAIN Tail(q)
PROOF
<1>1. /\ Tail(q) \in Seq(HostEvents) /\ Len(Tail(q)) = Len(q) - 1
      /\ \A n \in 1..Len(Tail(q)) : Tail(q)[n] = q[n + 1]
  BY HeadTailProperties
<1>2. Len(q) \in Nat \ {0} /\ DOMAIN q = 1..Len(q)
  BY EmptySeq, LenProperties
<1>3. DOMAIN Tail(q) = 1..Len(Tail(q))
  BY <1>1, LenProperties
<1>4. Head(q) = q[1] /\ q[1] \in HostEvents
  BY <1>2, ElementOfSeq
<1> DEFINE rest == Tail(q)
<1> HIDE DEF rest
<1>5. \A n \in 1..(Len(q) - 1) : n \in Nat /\ n + 1 \in 1..Len(q)
  BY <1>2
<1>6. \A n \in 1..Len(q) : n = 1 \/ n - 1 \in 1..(Len(q) - 1)
  BY <1>2
<1>7. 1 \in 1..Len(q)
  BY <1>2
<1> QED
  BY <1>1, <1>2, <1>3, <1>4, <1>5, <1>6, <1>7

\* What the last word of the tail says of that of the queue.
LEMMA SilentTail ==
  ASSUME NEW q \in Seq(HostEvents), q # <<>>
  PROVE  /\ (\A f \in Range(Tail(q)) : ~Speaks(f)) <=> \A n \in DOMAIN Tail(q) : ~Speaks(Tail(q)[n])
         /\ (\A n \in DOMAIN Tail(q) : ~Speaks(Tail(q)[n])) /\ Speaks(Head(q)) => LastWord(q, 1)
         /\ (\A n \in DOMAIN Tail(q) : ~Speaks(Tail(q)[n])) /\ ~Speaks(Head(q)) =>
              \A n \in DOMAIN q : ~Speaks(q[n])
         /\ \A n \in DOMAIN Tail(q) : LastWord(Tail(q), n) => LastWord(q, n + 1)
PROOF
<1> DEFINE rest == Tail(q)
<1>1. /\ Head(q) = q[1] /\ DOMAIN q = 1..Len(q) /\ Len(q) \in Nat /\ 1 \in DOMAIN q
      /\ DOMAIN rest = 1..(Len(q) - 1)
      /\ \A n \in DOMAIN rest : n \in Nat /\ n + 1 \in DOMAIN q /\ rest[n] = q[n + 1]
      /\ \A n \in DOMAIN q : n = 1 \/ n - 1 \in DOMAIN rest
  BY QueueTail
<1> HIDE DEF rest
<1>2. (\A f \in Range(rest) : ~Speaks(f)) <=> \A n \in DOMAIN rest : ~Speaks(rest[n])
  BY DEF Range
<1>3. ASSUME \A n \in DOMAIN rest : ~Speaks(rest[n]), NEW n \in DOMAIN q, n # 1 PROVE ~Speaks(q[n])
  <2>1. n - 1 \in DOMAIN rest
    BY <1>1, <1>3
  <2>2. rest[n - 1] = q[(n - 1) + 1] /\ (n - 1) + 1 = n
    BY <1>1, <2>1
  <2> QED
    BY <1>3, <2>1, <2>2
<1>4. ASSUME \A n \in DOMAIN rest : ~Speaks(rest[n]), Speaks(Head(q)) PROVE LastWord(q, 1)
  <2>1. \A m \in DOMAIN q : m > 1 => m # 1
    BY <1>1
  <2> QED
    BY <1>1, <1>3, <1>4, <2>1 DEF LastWord
<1>5. ASSUME NEW n \in DOMAIN rest, LastWord(rest, n) PROVE LastWord(q, n + 1)
  <2>1. n \in Nat /\ n + 1 \in DOMAIN q /\ Speaks(q[n + 1])
    BY <1>1, <1>5 DEF LastWord
  <2>2. ASSUME NEW m \in DOMAIN q, m > n + 1 PROVE ~Speaks(q[m])
    <3>1. m - 1 \in DOMAIN rest /\ m - 1 > n /\ (m - 1) + 1 = m
      BY <1>1, <2>1, <2>2
    <3>2. ~Speaks(rest[m - 1]) /\ rest[m - 1] = q[(m - 1) + 1]
      BY <1>1, <1>5, <3>1 DEF LastWord
    <3> QED
      BY <3>1, <3>2
  <2> QED
    BY <2>1, <2>2 DEF LastWord
<1> QED
  BY <1>1, <1>2, <1>3, <1>4, <1>5 DEF rest

\* An event that will find a stack of one location still will, when its head had its turn.
LEMMA ShortTail ==
  ASSUME NEW q \in Seq(HostEvents), q # <<>>, NEW s, NEW n \in DOMAIN Tail(q),
         FindsShort(s, q, n + 1)
  PROVE  FindsShort(IF Head(q).kind = "history" THEN Head(q).value ELSE s, Tail(q), n)
PROOF
<1> DEFINE rest == Tail(q)
           t == IF Head(q).kind = "history" THEN Head(q).value ELSE s
<1>1. /\ Head(q) = q[1] /\ DOMAIN q = 1..Len(q) /\ Len(q) \in Nat /\ 1 \in DOMAIN q
      /\ DOMAIN rest = 1..(Len(q) - 1)
      /\ \A k \in DOMAIN rest : k \in Nat /\ k + 1 \in DOMAIN q /\ rest[k] = q[k + 1]
  BY QueueTail
<1> HIDE DEF rest
<1>2. n \in 1..(Len(q) - 1) /\ n \in Nat
  BY <1>1 DEF rest
<1>3. \A k \in 1..(n - 1) : k \in Int /\ k + 1 \in 1..((n + 1) - 1) /\ rest[k] = q[k + 1]
  BY <1>1, <1>2
<1>4. CASE /\ \A m \in 1..((n + 1) - 1) : q[m].kind # "history"
           /\ Len(s) = 1
  <2>1. 1 \in 1..((n + 1) - 1)
    BY <1>2
  <2>2. t = s
    BY <1>1, <1>4, <2>1
  <2>3. \A m \in 1..(n - 1) : rest[m].kind # "history"
    BY <1>3, <1>4
  <2> QED
    BY <1>4, <2>2, <2>3 DEF FindsShort, rest
<1>5. ASSUME NEW m \in 1..((n + 1) - 1),
             q[m].kind = "history", Len(q[m].value) = 1,
             \A k \in (m + 1)..((n + 1) - 1) : q[k].kind # "history"
      PROVE  FindsShort(t, rest, n)
  <2>1. m \in Int
    BY <1>2
  <2>2. \A k \in m..(n - 1) : k \in 1..(n - 1) /\ k + 1 \in (m + 1)..((n + 1) - 1)
    BY <1>2, <2>1
  <2>3. \A k \in m..(n - 1) : rest[k].kind # "history"
    BY <1>3, <1>5, <2>2
  <2>4. CASE m = 1
    <3>1. t = q[1].value
      BY <1>1, <1>5, <2>4
    <3> HIDE DEF t
    <3> QED
      BY <1>5, <2>3, <2>4, <3>1 DEF FindsShort
  <2>5. CASE m # 1
    <3>1. m - 1 \in 1..(n - 1) /\ (m - 1) + 1 = m
      BY <1>2, <2>1, <2>5
    <3>2. rest[m - 1].kind = "history" /\ Len(rest[m - 1].value) = 1
      BY <1>3, <1>5, <3>1
    <3>3. \A k \in ((m - 1) + 1)..(n - 1) : rest[k].kind # "history"
      BY <2>3, <3>1
    <3> QED
      BY <3>1, <3>2, <3>3 DEF FindsShort
  <2> QED
    BY <2>4, <2>5
<1> QED
  BY <1>4, <1>5 DEF FindsShort, rest

\* A turn leaves what waits behind it as true as it was.
LEMMA TurnKeeps ==
  ASSUME HistoryTypeOK, NEW ses, GoodSession(ses, native), NEW q \in Seq(HostEvents), q # <<>>,
         NEW h, AgreesSoFar(stack, ses, q, h, astray), TurnOutcome(Head(q), ses, Tail(q)),
         stack' \in Stacks
  PROVE  AgreesSoFar(stack', session', Tail(q), h, astray')
PROOF
<1> DEFINE e == Head(q)
           rest == Tail(q)
<1>1. /\ e = q[1] /\ e \in HostEvents /\ rest \in Seq(HostEvents) /\ 1 \in DOMAIN q
      /\ \A n \in DOMAIN rest : n + 1 \in DOMAIN q /\ rest[n] = q[n + 1]
  BY QueueTail
<1>2. /\ (\A f \in Range(rest) : ~Speaks(f)) <=> \A n \in DOMAIN rest : ~Speaks(rest[n])
      /\ (\A n \in DOMAIN rest : ~Speaks(rest[n])) /\ Speaks(e) => LastWord(q, 1)
      /\ (\A n \in DOMAIN rest : ~Speaks(rest[n])) /\ ~Speaks(e) => \A n \in DOMAIN q : ~Speaks(q[n])
      /\ \A n \in DOMAIN rest : LastWord(rest, n) => LastWord(q, n + 1)
  BY SilentTail
<1>3. \A n \in DOMAIN rest : FindsShort(stack, q, n + 1) =>
        FindsShort(IF e.kind = "history" THEN e.value ELSE stack, rest, n)
  BY ShortTail
<1> HIDE DEF e, rest
<1>4. CASE e.kind = "history" /\ stack' = e.value /\ session' = ses /\ astray' = astray
  <2>1. ASSUME "page" \notin astray PROVE Agrees(stack', session', rest, h)
    <3>1. Agrees(stack, ses, q, h)
      BY <2>1 DEF AgreesSoFar
    <3> QED
      BY <1>1, <1>2, <1>4, <3>1 DEF Agrees, Speaks
  <2>2. ASSUME "depth" \notin astray PROVE "page" \notin astray /\ StartsShort(stack', session', rest)
    <3>1. "page" \notin astray /\ StartsShort(stack, ses, q)
      BY <2>2 DEF AgreesSoFar
    <3> QED
      BY <1>1, <1>2, <1>3, <1>4, <3>1 DEF StartsShort
  <2> QED
    BY <1>4, <2>1, <2>2 DEF AgreesSoFar, e, rest
<1>5. CASE /\ e.kind \in {"link", "back", "other"} /\ stack' = stack /\ astray' = astray
           /\ session'.entries = ses.entries /\ session'.index = ses.index
  <2>1. ASSUME "page" \notin astray PROVE Agrees(stack', session', rest, h)
    <3>1. Agrees(stack, ses, q, h)
      BY <2>1 DEF AgreesSoFar
    <3>2. \A s : Shows(s, session', h) <=> Shows(s, ses, h)
      BY <1>5 DEF Shows, Here
    <3>3. ~Speaks(e)
      BY <1>5 DEF Speaks
    <3> QED
      BY <1>1, <1>2, <1>5, <3>1, <3>2, <3>3 DEF Agrees
  <2>2. ASSUME "depth" \notin astray PROVE "page" \notin astray /\ StartsShort(stack', session', rest)
    <3>1. "page" \notin astray /\ StartsShort(stack, ses, q)
      BY <2>2 DEF AgreesSoFar
    <3> QED
      BY <1>1, <1>2, <1>3, <1>5, <3>1 DEF StartsShort
  <2> QED
    BY <1>5, <2>1, <2>2 DEF AgreesSoFar, e, rest
<1>6. CASE /\ e.kind \in {"url", "link"}
           /\ Here(session') = EntryOf(stack')
           /\ session'.entries[1].token = IF session'.index = 1 THEN stack' ELSE ses.entries[1].token
           /\ session'.index = 1 =>
                ses.index = 1 /\ stack' = (IF e.kind = "url" THEN Replaced(stack, e.value) ELSE stack)
           /\ \/ astray' = {"page", "depth"}
              \/ /\ astray' = astray /\ \A f \in Range(rest) : ~Speaks(f)
                 /\ e.kind = "url" => e.at = ses.index
  <2>1. CASE astray' = {"page", "depth"}
    BY <2>1 DEF AgreesSoFar
  <2>2. CASE /\ astray' = astray /\ \A f \in Range(rest) : ~Speaks(f)
             /\ e.kind = "url" => e.at = ses.index
    <3>1. \A n \in DOMAIN rest : ~Speaks(rest[n])
      BY <1>2, <2>2
    <3>2. Shows(stack', session', h)
      BY <1>6, EntryOfFacts DEF Shows
    <3>3. Agrees(stack', session', rest, h)
      BY <3>1, <3>2 DEF Agrees, LastWord
    <3>4. ASSUME "depth" \notin astray PROVE "page" \notin astray /\ StartsShort(stack', session', rest)
      <4>1. "page" \notin astray /\ StartsShort(stack, ses, q) /\ Agrees(stack, ses, q, h)
        BY <3>4 DEF AgreesSoFar
      <4>2. ASSUME session'.index = 1 PROVE Len(stack') = 1
        <5>1. CASE e.kind = "url"
          <6>1. FindsShort(stack, q, 1)
            BY <1>1, <1>6, <2>2, <4>1, <4>2, <5>1 DEF StartsShort
          <6>2. Len(stack) = 1
            BY <6>1 DEF FindsShort
          <6>3. stack \in Stacks /\ e.value \in Places
            BY <1>1, <5>1, EventFacts DEF HistoryTypeOK
          <6> QED
            BY <1>6, <4>2, <5>1, <6>2, <6>3, ReplacedFacts
        <5>2. CASE e.kind = "link"
          <6>1. Shows(stack, ses, h)
            BY <1>2, <3>1, <4>1, <5>2 DEF Agrees, Speaks
          <6>2. Here(ses) = ses.entries[1] /\ ses.entries[1].token # <<>> /\ stack' = stack
            BY <1>6, <4>2, <5>2 DEF Here, GoodSession
          <6> QED
            BY <4>1, <6>1, <6>2 DEF Shows, StartsShort
        <5> QED
          BY <1>6, <5>1, <5>2
      <4>3. Len(session'.entries[1].token) = 1
        BY <1>6, <4>1, <4>2 DEF StartsShort
      <4>4. \A n \in DOMAIN rest : rest[n].kind # "url" /\ ~LastWord(rest, n)
        BY <3>1 DEF Speaks, LastWord
      <4> QED
        BY <4>1, <4>3, <4>4 DEF StartsShort
    <3> QED
      BY <2>2, <3>3, <3>4 DEF AgreesSoFar, rest
  <2> QED
    BY <1>6, <2>1, <2>2
<1> QED
  BY <1>4, <1>5, <1>6 DEF TurnOutcome, e, rest
-----------------------------------------------------------------------------
\* What a queue is after one more.
LEMMA QueueAppended ==
  ASSUME NEW q \in Seq(HostEvents), NEW e \in HostEvents
  PROVE  LET new == Append(q, e) IN
         /\ new \in Seq(HostEvents) /\ new # <<>> /\ Len(new) = Len(q) + 1 /\ Len(q) \in Nat
         /\ DOMAIN q = 1..Len(q) /\ DOMAIN new = 1..(Len(q) + 1)
         /\ \A n \in DOMAIN q : n \in DOMAIN new /\ new[n] = q[n]
         /\ new[Len(q) + 1] = e
         /\ \A n \in DOMAIN new : n = Len(q) + 1 \/ n \in DOMAIN q
         /\ Range(new) = Range(q) \cup {e}
PROOF
<1> DEFINE new == Append(q, e)
<1>1. Len(q) \in Nat /\ DOMAIN q = 1..Len(q)
  BY LenProperties
<1>2. /\ new \in Seq(HostEvents) /\ Len(new) = Len(q) + 1
      /\ \A n \in 1..Len(q) : new[n] = q[n]
      /\ new[Len(q) + 1] = e
  BY <1>1
<1> HIDE DEF new
<1>3. DOMAIN new = 1..(Len(q) + 1)
  BY <1>2, LenProperties
<1>4. /\ \A n \in 1..Len(q) : n \in 1..(Len(q) + 1)
      /\ \A n \in 1..(Len(q) + 1) : n = Len(q) + 1 \/ n \in 1..Len(q)
      /\ Len(q) + 1 \in 1..(Len(q) + 1)
  BY <1>1
<1>5. Range(new) = Range(q) \cup {e}
  BY <1>1, <1>2, <1>3, <1>4 DEF Range
<1>6. new # <<>>
  BY <1>1, <1>2
<1> QED
  BY <1>1, <1>2, <1>3, <1>4, <1>5, <1>6 DEF new

\* An event that says where the browser is becomes the last word, others do not.
LEMMA WordsAppended ==
  ASSUME NEW q \in Seq(HostEvents), NEW e \in HostEvents
  PROVE  LET new == Append(q, e) IN
         /\ Speaks(e) => \A n \in DOMAIN new : LastWord(new, n) => n = Len(q) + 1
         /\ ~Speaks(e) => \A n \in DOMAIN new : LastWord(new, n) => n \in DOMAIN q /\ LastWord(q, n)
         /\ \A n \in DOMAIN q : \A s : FindsShort(s, q, n) => FindsShort(s, new, n)
PROOF
<1> DEFINE new == Append(q, e)
<1>1. /\ Len(q) \in Nat /\ DOMAIN q = 1..Len(q) /\ DOMAIN new = 1..(Len(q) + 1)
      /\ \A n \in DOMAIN q : n \in DOMAIN new /\ new[n] = q[n]
      /\ new[Len(q) + 1] = e
      /\ \A n \in DOMAIN new : n = Len(q) + 1 \/ n \in DOMAIN q
  BY QueueAppended
<1> HIDE DEF new
<1>2. ASSUME Speaks(e), NEW n \in DOMAIN new, LastWord(new, n) PROVE n = Len(q) + 1
  <2>1. n \in DOMAIN q => Len(q) + 1 > n /\ Len(q) + 1 \in DOMAIN new
    BY <1>1
  <2> QED
    BY <1>1, <1>2, <2>1 DEF LastWord
<1>3. ASSUME ~Speaks(e), NEW n \in DOMAIN new, LastWord(new, n) PROVE n \in DOMAIN q /\ LastWord(q, n)
  BY <1>1, <1>3 DEF LastWord
<1>4. ASSUME NEW n \in DOMAIN q, NEW s, FindsShort(s, q, n) PROVE FindsShort(s, new, n)
  <2>1. \A m \in 1..(n - 1) : m \in DOMAIN q
    BY <1>1
  <2>2. CASE /\ \A m \in 1..(n - 1) : q[m].kind # "history"
             /\ Len(s) = 1
    BY <1>1, <2>1, <2>2 DEF FindsShort
  <2>3. ASSUME NEW m \in 1..(n - 1), q[m].kind = "history", Len(q[m].value) = 1,
               \A k \in (m + 1)..(n - 1) : q[k].kind # "history"
        PROVE  FindsShort(s, new, n)
    <3>1. new[m].kind = "history" /\ Len(new[m].value) = 1
      BY <1>1, <2>1, <2>3
    <3>2. \A k \in (m + 1)..(n - 1) : k \in 1..(n - 1)
      BY <1>1
    <3>3. \A k \in (m + 1)..(n - 1) : new[k].kind # "history"
      BY <1>1, <2>1, <2>3, <3>2
    <3> QED
      BY <3>1, <3>3 DEF FindsShort
  <2> QED
    BY <1>4, <2>2, <2>3 DEF FindsShort
<1> QED
  BY <1>2, <1>3, <1>4 DEF new

\* Of the events that say where the browser is there is a last.
LEMMA LastWordExists ==
  ASSUME NEW q \in Seq(HostEvents), NEW n0 \in DOMAIN q, Speaks(q[n0])
  PROVE  \E n \in DOMAIN q : LastWord(q, n)
PROOF
<1>1. DOMAIN q = 1..Len(q) /\ Len(q) \in Nat
  BY LenProperties
<1> DEFINE Behind == {k \in Nat : k <= Len(q) /\ Speaks(q[Len(q) - k]) /\ Len(q) - k \in DOMAIN q}
<1>2. Len(q) - n0 \in Behind
  <2>1. Len(q) - n0 \in Nat /\ Len(q) - n0 <= Len(q) /\ Len(q) - (Len(q) - n0) = n0
    BY <1>1
  <2> QED
    BY <2>1
<1>3. PICK k \in Behind : \A j \in Behind : <<j, k>> \notin OpToRel(<, Nat)
  BY <1>2, NatLessThanWellFounded, WFMin
<1>4. Len(q) - k \in DOMAIN q /\ Speaks(q[Len(q) - k]) /\ k \in Nat /\ k <= Len(q)
  BY <1>3
<1>5. ASSUME NEW m \in DOMAIN q, m > Len(q) - k, Speaks(q[m]) PROVE FALSE
  <2>1. /\ Len(q) - m \in Nat /\ Len(q) - m <= Len(q) /\ Len(q) - (Len(q) - m) = m
        /\ Len(q) - m < k
    BY <1>1, <1>4, <1>5
  <2>2. Len(q) - m \in Behind
    BY <1>5, <2>1
  <2> HIDE DEF Behind
  <2>3. <<Len(q) - m, k>> \in OpToRel(<, Nat)
    BY <1>4, <2>1 DEF OpToRel
  <2> QED
    BY <1>3, <2>2, <2>3
<1> QED
  BY <1>4, <1>5 DEF LastWord

\* The browser popped an entry of the application: its stack is the last word.
LEMMA HistoryAppended ==
  ASSUME NEW q \in Seq(HostEvents), NEW e \in HostEvents, NEW s, NEW old, NEW ses, NEW h0, NEW h,
         NEW lost, AgreesSoFar(s, old, q, h0, lost), ses.entries = old.entries,
         e.kind = "history", e.value = Here(ses).token, Here(ses).token # <<>>
  PROVE  AgreesSoFar(s, ses, Append(q, e), h, lost)
PROOF
<1> DEFINE new == Append(q, e)
<1>1. /\ Len(q) \in Nat /\ DOMAIN q = 1..Len(q) /\ DOMAIN new = 1..(Len(q) + 1)
      /\ \A n \in DOMAIN q : n \in DOMAIN new /\ new[n] = q[n]
      /\ new[Len(q) + 1] = e
      /\ \A n \in DOMAIN new : n = Len(q) + 1 \/ n \in DOMAIN q
  BY QueueAppended
<1>2. /\ \A n \in DOMAIN new : LastWord(new, n) => n = Len(q) + 1
      /\ \A n \in DOMAIN q : \A t : FindsShort(t, q, n) => FindsShort(t, new, n)
  BY WordsAppended DEF Speaks
<1> HIDE DEF new
<1>3. Len(q) + 1 \in DOMAIN new /\ Speaks(new[Len(q) + 1])
  BY <1>1 DEF Speaks
<1>4. Shows(e.value, ses, h)
  BY DEF Shows
<1>5. Agrees(s, ses, new, h)
  BY <1>1, <1>2, <1>3, <1>4 DEF Agrees
<1>6. ASSUME StartsShort(s, old, q) PROVE StartsShort(s, ses, new)
  <2>1. \A n \in DOMAIN new : new[n].kind = "url" => n \in DOMAIN q /\ new[n] = q[n]
    BY <1>1
  <2>2. \A n \in DOMAIN new : LastWord(new, n) => new[n].kind # "url"
    BY <1>1, <1>2
  <2> QED
    BY <1>2, <1>6, <2>1, <2>2 DEF StartsShort
<1> QED
  BY <1>5, <1>6 DEF AgreesSoFar, new

\* The address was changed: the application writes the entry when it is told.
LEMMA UrlAppended ==
  ASSUME NEW q \in Seq(HostEvents), NEW e \in HostEvents, NEW s, NEW ses, NEW h0, NEW h,
         NEW lost, AgreesSoFar(s, ses, q, h0, lost), GoodSession(ses, native),
         e.kind = "url", e.at = ses.index
  PROVE  AgreesSoFar(s, ses, Append(q, e), h, lost)
PROOF
<1> DEFINE new == Append(q, e)
<1>1. /\ Len(q) \in Nat /\ DOMAIN q = 1..Len(q) /\ DOMAIN new = 1..(Len(q) + 1)
      /\ \A n \in DOMAIN q : n \in DOMAIN new /\ new[n] = q[n]
      /\ new[Len(q) + 1] = e
      /\ \A n \in DOMAIN new : n = Len(q) + 1 \/ n \in DOMAIN q
  BY QueueAppended
<1>2. /\ \A n \in DOMAIN new : LastWord(new, n) => n = Len(q) + 1
      /\ \A n \in DOMAIN q : \A t : FindsShort(t, q, n) => FindsShort(t, new, n)
  BY WordsAppended DEF Speaks
<1> HIDE DEF new
<1>3. Len(q) + 1 \in DOMAIN new /\ Speaks(new[Len(q) + 1])
  BY <1>1 DEF Speaks
<1>4. Agrees(s, ses, new, h)
  BY <1>1, <1>2, <1>3 DEF Agrees
<1>5. ASSUME StartsShort(s, ses, q), Agrees(s, ses, q, h0) PROVE StartsShort(s, ses, new)
  <2>1. ASSUME ses.index = 1 PROVE FindsShort(s, new, Len(q) + 1)
    <3>1. ASSUME NEW t, Shows(t, ses, h0) PROVE Len(t) = 1
      BY <1>5, <2>1, <3>1 DEF Shows, Here, GoodSession, StartsShort
    <3>2. \A k \in 1..((Len(q) + 1) - 1) : k \in DOMAIN q
      BY <1>1
    <3>3. CASE \A n \in DOMAIN q : ~Speaks(q[n])
      <4>1. Len(s) = 1
        BY <1>5, <3>1, <3>3 DEF Agrees
      <4>2. \A k \in 1..((Len(q) + 1) - 1) : new[k].kind # "history"
        BY <1>1, <3>2, <3>3 DEF Speaks
      <4> QED
        BY <4>1, <4>2 DEF FindsShort
    <3>4. ASSUME NEW n \in DOMAIN q, LastWord(q, n) PROVE FindsShort(s, new, Len(q) + 1)
      <4>1. n \in 1..((Len(q) + 1) - 1) /\ new[n] = q[n] /\ n \in Int
        BY <1>1
      <4>2. \A k \in (n + 1)..((Len(q) + 1) - 1) : k \in DOMAIN q /\ k > n
        BY <1>1, <4>1
      <4>3. \A k \in (n + 1)..((Len(q) + 1) - 1) : new[k].kind # "history"
        BY <1>1, <3>4, <4>2 DEF LastWord, Speaks
      <4>4. CASE q[n].kind = "history"
        <5>1. Len(q[n].value) = 1
          BY <1>5, <3>1, <3>4, <4>4 DEF Agrees
        <5> QED
          BY <4>1, <4>3, <4>4, <5>1 DEF FindsShort
      <4>5. CASE q[n].kind = "url"
        <5>1. FindsShort(s, q, n)
          BY <1>5, <2>1, <3>4, <4>5 DEF StartsShort
        <5>2. \A k \in n..((Len(q) + 1) - 1) : k = n \/ k \in (n + 1)..((Len(q) + 1) - 1)
          BY <1>1, <4>1
        <5>3. \A k \in n..((Len(q) + 1) - 1) : new[k].kind # "history"
          BY <4>1, <4>3, <4>5, <5>2
        <5>4. CASE /\ \A m \in 1..(n - 1) : q[m].kind # "history"
                   /\ Len(s) = 1
          <6>1. \A m \in 1..((Len(q) + 1) - 1) :
                  m \in DOMAIN q /\ (m \in 1..(n - 1) \/ m \in n..((Len(q) + 1) - 1))
            BY <1>1, <4>1
          <6>2. \A m \in 1..((Len(q) + 1) - 1) : new[m].kind # "history"
            BY <1>1, <5>3, <5>4, <6>1
          <6> QED
            BY <5>4, <6>2 DEF FindsShort
        <5>5. ASSUME NEW m \in 1..(n - 1), q[m].kind = "history", Len(q[m].value) = 1,
                     \A k \in (m + 1)..(n - 1) : q[k].kind # "history"
              PROVE  FindsShort(s, new, Len(q) + 1)
          <6>1. m \in DOMAIN q /\ m \in 1..((Len(q) + 1) - 1)
            BY <1>1, <4>1
          <6>2. \A k \in (m + 1)..((Len(q) + 1) - 1) :
                  k \in DOMAIN q /\ (k \in (m + 1)..(n - 1) \/ k \in n..((Len(q) + 1) - 1))
            BY <1>1, <4>1
          <6>3. \A k \in (m + 1)..((Len(q) + 1) - 1) : new[k].kind # "history"
            BY <1>1, <5>3, <5>5, <6>2
          <6>4. new[m].kind = "history" /\ Len(new[m].value) = 1
            BY <1>1, <5>5, <6>1
          <6> QED
            BY <6>1, <6>3, <6>4 DEF FindsShort
        <5> QED
          BY <5>1, <5>4, <5>5 DEF FindsShort
      <4> QED
        BY <3>4, <4>4, <4>5 DEF LastWord, Speaks
    <3>5. (\E n \in DOMAIN q : Speaks(q[n])) => \E n \in DOMAIN q : LastWord(q, n)
      BY LastWordExists
    <3> QED
      BY <3>3, <3>4, <3>5
  <2>2. \A n \in DOMAIN new : LastWord(new, n) => new[n] = e
    BY <1>1, <1>2
  <2> QED
    BY <1>1, <1>2, <1>5, <2>1, <2>2 DEF StartsShort
<1> QED
  BY <1>4, <1>5 DEF AgreesSoFar, new

\* What does not say where the browser is changes no last word.
LEMMA QuietAppended ==
  ASSUME NEW q \in Seq(HostEvents), NEW e \in HostEvents, NEW s, NEW ses, NEW h,
         NEW lost, AgreesSoFar(s, ses, q, h, lost), ~Speaks(e)
  PROVE  AgreesSoFar(s, ses, Append(q, e), h, lost)
PROOF
<1> DEFINE new == Append(q, e)
<1>1. /\ \A n \in DOMAIN q : n \in DOMAIN new /\ new[n] = q[n]
      /\ new[Len(q) + 1] = e
      /\ \A n \in DOMAIN new : n = Len(q) + 1 \/ n \in DOMAIN q
  BY QueueAppended
<1>2. /\ \A n \in DOMAIN new : LastWord(new, n) => n \in DOMAIN q /\ LastWord(q, n)
      /\ \A n \in DOMAIN q : \A t : FindsShort(t, q, n) => FindsShort(t, new, n)
  BY WordsAppended
<1> HIDE DEF new
<1>3. Agrees(s, ses, q, h) => Agrees(s, ses, new, h)
  BY <1>1, <1>2 DEF Agrees
<1>4. StartsShort(s, ses, q) => StartsShort(s, ses, new)
  BY <1>1, <1>2 DEF StartsShort, Speaks
<1> QED
  BY <1>3, <1>4 DEF AgreesSoFar, new
-----------------------------------------------------------------------------
\* If the last event says where the browser is, it is the last word.
LEMMA LastIsWord ==
  ASSUME NEW q \in Seq(HostEvents), q # <<>>, Speaks(Last(q))
  PROVE  Len(q) \in DOMAIN q /\ q[Len(q)] = Last(q) /\ \A n \in DOMAIN q : LastWord(q, n) => n = Len(q)
PROOF
<1>1. DOMAIN q = 1..Len(q) /\ Len(q) \in Nat /\ Len(q) # 0
  BY EmptySeq, LenProperties
<1>2. Len(q) \in DOMAIN q
  BY <1>1
<1>3. ASSUME NEW n \in DOMAIN q, LastWord(q, n) PROVE n = Len(q)
  <2>1. ~(Len(q) > n)
    BY <1>2, <1>3 DEF LastWord, Last
  <2> QED
    BY <1>1, <2>1
<1> QED
  BY <1>2, <1>3 DEF Last

\* A popped entry that is not told because it waits last already, or because the
\* application has its stack.
LEMMA HistoryDropped ==
  ASSUME NEW q \in Seq(HostEvents), NEW e \in HostEvents, NEW s, NEW old, NEW ses, NEW h0, NEW h,
         NEW lost, AgreesSoFar(s, old, q, h0, lost), ses.entries = old.entries,
         e.kind = "history", e.value = Here(ses).token, Here(ses).token # <<>>,
         IF q # <<>> THEN SameKey(Last(q), e) ELSE s = e.value
  PROVE  AgreesSoFar(s, ses, q, h, lost)
PROOF
<1>1. CASE q = <<>>
  <2>1. DOMAIN q = {}
    BY <1>1
  <2>2. Shows(s, ses, h)
    BY <1>1 DEF Shows
  <2> QED
    BY <2>1, <2>2 DEF AgreesSoFar, Agrees, StartsShort
<1>2. CASE q # <<>>
  <2>1. Last(q).kind = "history" /\ Last(q).value = e.value /\ Speaks(Last(q))
    BY <1>2 DEF SameKey, Speaks
  <2>2. /\ Len(q) \in DOMAIN q /\ q[Len(q)] = Last(q)
        /\ \A n \in DOMAIN q : LastWord(q, n) => n = Len(q)
    BY <1>2, <2>1, LastIsWord
  <2>3. Shows(Last(q).value, ses, h)
    BY <2>1 DEF Shows
  <2>4. Agrees(s, ses, q, h)
    BY <2>1, <2>2, <2>3 DEF Agrees
  <2>5. StartsShort(s, old, q) => StartsShort(s, ses, q)
    BY <2>1, <2>2 DEF StartsShort
  <2> QED
    BY <2>4, <2>5 DEF AgreesSoFar
<1> QED
  BY <1>1, <1>2

\* An address that is not told because it waits last already.
LEMMA UrlDropped ==
  ASSUME NEW q \in Seq(HostEvents), NEW e \in HostEvents, NEW s, NEW ses, NEW h0, NEW h,
         NEW lost, AgreesSoFar(s, ses, q, h0, lost), e.kind = "url", q # <<>>, SameKey(Last(q), e)
  PROVE  AgreesSoFar(s, ses, q, h, lost)
PROOF
<1>1. Last(q).kind = "url" /\ Speaks(Last(q))
  BY DEF SameKey, Speaks
<1>2. /\ Len(q) \in DOMAIN q /\ q[Len(q)] = Last(q)
      /\ \A n \in DOMAIN q : LastWord(q, n) => n = Len(q)
  BY <1>1, LastIsWord
<1>3. Agrees(s, ses, q, h)
  BY <1>1, <1>2 DEF Agrees
<1> QED
  BY <1>3 DEF AgreesSoFar

\* An event that does not wait yet may be enqueued.
LEMMA DistinctAppended ==
  ASSUME NEW q \in Seq(HostEvents), NEW e \in HostEvents, Distinct(q),
         \A f \in Range(q) : ~SameKey(e, f)
  PROVE  Distinct(Append(q, e))
PROOF
<1> DEFINE new == Append(q, e)
<1>1. /\ \A n \in DOMAIN q : n \in DOMAIN new /\ new[n] = q[n]
      /\ new[Len(q) + 1] = e
      /\ \A n \in DOMAIN new : n = Len(q) + 1 \/ n \in DOMAIN q
  BY QueueAppended
<1>2. \A n \in DOMAIN q : ~SameKey(e, q[n]) /\ ~SameKey(q[n], e)
  BY DEF Range, SameKey
<1> HIDE DEF new
<1>3. ASSUME NEW m \in DOMAIN new, NEW n \in DOMAIN new, SameKey(new[m], new[n]) PROVE m = n
  <2>1. CASE m \in DOMAIN q /\ n \in DOMAIN q
    BY <1>1, <1>3, <2>1 DEF Distinct
  <2>2. CASE m = Len(q) + 1 /\ n \in DOMAIN q
    BY <1>1, <1>2, <1>3, <2>2
  <2>3. CASE n = Len(q) + 1 /\ m \in DOMAIN q
    BY <1>1, <1>2, <1>3, <2>3
  <2> QED
    BY <1>1, <2>1, <2>2, <2>3
<1> QED
  BY <1>3 DEF Distinct, new

\* The head of the queue does not wait behind it.
LEMMA DistinctTail ==
  ASSUME NEW q \in Seq(HostEvents), q # <<>>, Distinct(q)
  PROVE  /\ Distinct(Tail(q)) /\ Range(q) = Range(Tail(q)) \cup {Head(q)}
         /\ \A f \in Range(Tail(q)) : ~SameKey(f, Head(q))
PROOF
<1> DEFINE rest == Tail(q)
<1>1. /\ Head(q) = q[1] /\ DOMAIN q = 1..Len(q) /\ Len(q) \in Nat /\ 1 \in DOMAIN q
      /\ \A n \in DOMAIN rest : n \in Nat /\ n + 1 \in DOMAIN q /\ rest[n] = q[n + 1] /\ n # 0
      /\ \A n \in DOMAIN q : n = 1 \/ (n - 1 \in DOMAIN rest /\ (n - 1) + 1 = n)
  <2>1. DOMAIN rest = 1..(Len(q) - 1) /\ DOMAIN q = 1..Len(q) /\ Len(q) \in Nat
    BY QueueTail
  <2>2. \A n \in 1..(Len(q) - 1) : n # 0
    BY <2>1
  <2>3. \A n \in 1..Len(q) : (n - 1) + 1 = n
    BY <2>1
  <2> QED
    BY <2>1, <2>2, <2>3, QueueTail
<1> HIDE DEF rest
<1>2. Distinct(rest)
  <2> SUFFICES ASSUME NEW m \in DOMAIN rest, NEW n \in DOMAIN rest, SameKey(rest[m], rest[n])
               PROVE  m = n
    BY DEF Distinct
  <2>1. m + 1 = n + 1
    BY <1>1 DEF Distinct
  <2> QED
    BY <1>1, <2>1
<1>3. Range(q) = Range(rest) \cup {Head(q)}
  <2>1. ASSUME NEW n \in DOMAIN q PROVE q[n] \in Range(rest) \cup {Head(q)}
    <3>1. CASE n = 1
      BY <1>1, <3>1
    <3>2. CASE n # 1
      <4>1. n - 1 \in DOMAIN rest /\ (n - 1) + 1 = n
        BY <1>1, <3>2
      <4>2. rest[n - 1] = q[(n - 1) + 1]
        BY <1>1, <4>1
      <4>3. rest[n - 1] = q[n]
        BY <4>1, <4>2
      <4> QED
        BY <4>1, <4>3 DEF Range
    <3> QED
      BY <3>1, <3>2
  <2>2. Head(q) \in Range(q)
    BY <1>1 DEF Range
  <2>3. Range(rest) \subseteq Range(q)
    BY <1>1 DEF Range
  <2>4. Range(q) \subseteq Range(rest) \cup {Head(q)}
    BY <2>1 DEF Range
  <2> QED
    BY <2>2, <2>3, <2>4
<1>4. ASSUME NEW n \in DOMAIN rest PROVE ~SameKey(rest[n], Head(q))
  <2>1. n + 1 # 1
    BY <1>1
  <2> QED
    BY <1>1, <2>1 DEF Distinct
<1>5. \A f \in Range(rest) : ~SameKey(f, Head(q))
  BY <1>4 DEF Range
<1> QED
  BY <1>2, <1>3, <1>5 DEF rest
-----------------------------------------------------------------------------
\* What a queue holds after one more.
LEMMA RangeAppended ==
  ASSUME NEW q \in Seq(HostEvents), NEW e \in HostEvents
  PROVE  Range(Append(q, e)) = Range(q) \cup {e}
PROOF
<1> DEFINE new == Append(q, e)
<1>1. /\ \A n \in DOMAIN q : n \in DOMAIN new /\ new[n] = q[n]
      /\ Len(q) + 1 \in DOMAIN new /\ new[Len(q) + 1] = e
      /\ \A n \in DOMAIN new : n = Len(q) + 1 \/ n \in DOMAIN q
  <2>1. Len(q) + 1 \in 1..(Len(q) + 1)
    BY QueueAppended
  <2> QED
    BY <2>1, QueueAppended
<1> HIDE DEF new
<1>2. Range(new) = Range(q) \cup {e}
  BY <1>1 DEF Range
<1> QED
  BY <1>2 DEF new

\* Links wait once each, so that what an event adds to them, or takes, is one.
LEMMA LinksCounted ==
  ASSUME NEW q \in Seq(HostEvents), Distinct(q)
  PROVE  /\ IsFiniteSet(LinksIn(q)) /\ Cardinality(LinksIn(q)) \in Nat
         /\ \A e \in HostEvents :
              Cardinality(LinksIn(Append(q, e)))
                <= Cardinality(LinksIn(q)) + (IF e.kind = "link" THEN 1 ELSE 0)
         /\ q # <<>> =>
              Cardinality(LinksIn(q)) = Cardinality(LinksIn(Tail(q)))
                                        + (IF Head(q).kind = "link" THEN 1 ELSE 0)
PROOF
<1>1. ASSUME NEW r \in Seq(HostEvents)
      PROVE  IsFiniteSet(LinksIn(r)) /\ Cardinality(LinksIn(r)) \in Nat
  <2>1. r \in Surjection(1..Len(r), Range(r))
    BY <1>1 DEF Surjection, Range
  <2>2. IsFiniteSet(1..Len(r))
    BY <1>1, FS_Interval
  <2>3. IsFiniteSet(Range(r))
    BY <2>1, <2>2, FS_Surjection
  <2>4. LinksIn(r) \subseteq Range(r)
    BY DEF LinksIn
  <2> QED
    BY <2>3, <2>4, FS_Subset, FS_CardinalityType
<1>2. ASSUME NEW e \in HostEvents
      PROVE  Cardinality(LinksIn(Append(q, e)))
               <= Cardinality(LinksIn(q)) + (IF e.kind = "link" THEN 1 ELSE 0)
  <2>1. Range(Append(q, e)) = Range(q) \cup {e}
    BY RangeAppended
  <2>2. LinksIn(Append(q, e)) = IF e.kind = "link" THEN LinksIn(q) \cup {e} ELSE LinksIn(q)
    BY <2>1 DEF LinksIn
  <2>3. /\ Cardinality(LinksIn(q) \cup {e}) <= Cardinality(LinksIn(q)) + 1
        /\ Cardinality(LinksIn(q)) <= Cardinality(LinksIn(q)) + 0
    <3> DEFINE links == LinksIn(q)
    <3>1. IsFiniteSet(links) /\ Cardinality(links) \in Nat
      BY <1>1
    <3> HIDE DEF links
    <3>2. Cardinality(links \cup {e}) =
            IF e \in links THEN Cardinality(links) ELSE Cardinality(links) + 1
      BY <3>1, FS_AddElement
    <3>3. Cardinality(links \cup {e}) <= Cardinality(links) + 1
      BY <3>1, <3>2
    <3> QED
      BY <3>1, <3>3 DEF links
  <2> QED
    BY <2>2, <2>3
<1>3. ASSUME q # <<>>
      PROVE  Cardinality(LinksIn(q)) = Cardinality(LinksIn(Tail(q)))
                                        + (IF Head(q).kind = "link" THEN 1 ELSE 0)
  <2>1. /\ Range(q) = Range(Tail(q)) \cup {Head(q)} /\ Tail(q) \in Seq(HostEvents)
        /\ \A f \in Range(Tail(q)) : ~SameKey(f, Head(q))
    BY <1>3, DistinctTail, QueueTail
  <2>2. Head(q) \notin Range(Tail(q))
    BY <2>1 DEF SameKey
  <2>3. LinksIn(q) = IF Head(q).kind = "link" THEN LinksIn(Tail(q)) \cup {Head(q)}
                     ELSE LinksIn(Tail(q))
    BY <2>1 DEF LinksIn
  <2>4. Head(q) \notin LinksIn(Tail(q))
    BY <2>2 DEF LinksIn
  <2>5. Cardinality(LinksIn(Tail(q)) \cup {Head(q)}) = Cardinality(LinksIn(Tail(q))) + 1
    BY <1>1, <2>1, <2>4, FS_AddElement
  <2> QED
    BY <1>1, <2>1, <2>3, <2>5
<1> QED
  BY <1>1, <1>2, <1>3
-----------------------------------------------------------------------------
\* An entry the application has written says what the application shows.
LEMMA WrittenAgrees ==
  ASSUME NEW q, NEW s \in Stacks, NEW ses, NEW h, NEW lost,
         Here(ses) = EntryOf(s),
         lost = {"page", "depth"} \/ \A f \in Range(q) : ~Speaks(f),
         "depth" \notin lost => "page" \notin lost /\ Len(ses.entries[1].token) = 1
  PROVE  AgreesSoFar(s, ses, q, h, lost)
PROOF
<1>1. CASE lost = {"page", "depth"}
  BY <1>1 DEF AgreesSoFar
<1>2. CASE \A f \in Range(q) : ~Speaks(f)
  <2>1. \A n \in DOMAIN q : ~Speaks(q[n])
    BY <1>2 DEF Range
  <2>2. Shows(s, ses, h)
    BY EntryOfFacts DEF Shows
  <2>3. Agrees(s, ses, q, h)
    BY <2>1, <2>2 DEF Agrees, LastWord
  <2>4. "depth" \notin lost => StartsShort(s, ses, q)
    BY <2>1 DEF StartsShort, Speaks
  <2> QED
    BY <2>3, <2>4 DEF AgreesSoFar
<1> QED
  BY <1>1, <1>2

\* The browser is at an entry that is not the application's: it is told, or has
\* nothing to learn.
LEMMA UnwrittenAgrees ==
  ASSUME NEW q, NEW s, NEW old, NEW h0, NEW lost, AgreesSoFar(s, old, q, h0, lost),
         NEW ses, NEW h, ses.entries[1] = old.entries[1], ses.index # 1,
         \A t \in Stacks : Shows(t, old, h0) => Shows(t, ses, h),
         s \in Stacks, q \in Seq(HostEvents)
  PROVE  AgreesSoFar(s, ses, q, h, lost)
PROOF
<1>1. \A n \in DOMAIN q : q[n].kind = "history" => q[n].value \in Stacks
  <2>1. \A n \in DOMAIN q : q[n] \in HostEvents
    BY ElementOfSeq, LenProperties
  <2> QED
    BY <2>1, EventFacts
<1>2. Agrees(s, old, q, h0) => Agrees(s, ses, q, h)
  BY <1>1 DEF Agrees
<1>3. StartsShort(s, old, q) => StartsShort(s, ses, q)
  BY DEF StartsShort
<1> QED
  BY <1>2, <1>3 DEF AgreesSoFar

\* What an entry of the application asks for does not hang on hashchange, nor anything
\* on the history.back() calls under way.
LEMMA AgreesAlike ==
  ASSUME NEW q, NEW s, NEW old, NEW h0, NEW lost, AgreesSoFar(s, old, q, h0, lost),
         NEW ses, NEW h, ses.entries = old.entries, ses.index = old.index,
         h = h0 \/ Here(old).token # <<>>
  PROVE  AgreesSoFar(s, ses, q, h, lost)
PROOF
<1>1. Here(ses) = Here(old)
  BY DEF Here
<1>2. \A t : Shows(t, old, h0) => Shows(t, ses, h)
  BY <1>1 DEF Shows
<1>3. Agrees(s, old, q, h0) => Agrees(s, ses, q, h)
  BY <1>2 DEF Agrees
<1>4. StartsShort(s, old, q) => StartsShort(s, ses, q)
  BY DEF StartsShort
<1> QED
  BY <1>3, <1>4 DEF AgreesSoFar

\* What is enqueued is dropped, handled at once, or waits: each way the stack, the
\* session and what waits go on agreeing.
LEMMA EnqueuedKeeps ==
  ASSUME HistoryTypeOK, NEW ses, GoodSession(ses, native),
         running = Idle => waiting = <<>>, Distinct(waiting),
         NEW e \in HostEvents, e.kind # "back", e.kind = "link" => ses.index < MaxEntries,
         Enqueued(e, ses), NEW h, AgreesSoFar(stack, ses, Append(waiting, e), h, astray),
         (IF waiting # <<>> THEN SameKey(Last(waiting), e) ELSE e.kind = "history" /\ stack = e.value)
           => AgreesSoFar(stack, ses, waiting, h, astray)
  PROVE  /\ stack' \in Stacks /\ GoodSession(session', native) /\ told' \in 1..MaxEntries
         /\ waiting' \in Seq(HostEvents) /\ running' \in HostEvents
         /\ pressed' = pressed /\ astray' \subseteq {"page", "depth"}
         /\ session'.backs <= ses.backs /\ Distinct(waiting')
         /\ \/ waiting' = waiting /\ session'.index <= ses.index + (IF e.kind = "link" THEN 1 ELSE 0)
            \/ waiting' = Append(waiting, e) /\ session' = ses
         /\ AgreesSoFar(stack', session', waiting', h, astray')
PROOF
<1>1. /\ stack \in Stacks /\ told \in 1..MaxEntries /\ astray \subseteq {"page", "depth"}
      /\ waiting \in Seq(HostEvents) /\ running \in HostEvents \cup {Idle}
      /\ ses.index \in Nat /\ ses.backs \in Nat
  BY HistoryAssumption DEF HistoryTypeOK, GoodSession, Sessions
<1>2. ses.index <= ses.index + (IF e.kind = "link" THEN 1 ELSE 0) /\ ses.backs <= ses.backs
  BY <1>1
<1>3. CASE /\ \E f \in Range(waiting) \cup {running} : SameKey(e, f)
           /\ GoesAstray(IF waiting # <<>> THEN ~SameKey(Last(waiting), e)
                         ELSE e.kind # "history" \/ stack # e.value)
           /\ session' = ses /\ UNCHANGED <<stack, waiting, running, pressed, told>>
  <2>1. running \in HostEvents
    <3>1. CASE running = Idle
      <4>1. SameKey(e, Idle)
        BY <1>3, <3>1 DEF Range
      <4> QED
        BY <4>1, EventFacts DEF SameKey, Idle
    <3> QED
      BY <1>1, <3>1
  <2>2. astray' \subseteq {"page", "depth"}
    BY <1>1, <1>3 DEF GoesAstray
  <2>3. AgreesSoFar(stack, ses, waiting, h, astray')
    <3>1. CASE astray' = {"page", "depth"}
      BY <3>1 DEF AgreesSoFar
    <3>2. CASE astray' # {"page", "depth"}
      <4>1. astray' = astray
        BY <1>3, <3>2 DEF GoesAstray
      <4>2. IF waiting # <<>> THEN SameKey(Last(waiting), e) ELSE e.kind = "history" /\ stack = e.value
        BY <1>3, <3>2 DEF GoesAstray
      <4> QED
        BY <4>1, <4>2
    <3> QED
      BY <3>1, <3>2
  <2> QED
    BY <1>1, <1>2, <1>3, <2>1, <2>2, <2>3
<1>4. CASE running = Idle /\ running' = e /\ Turns(e, ses, <<>>) /\ UNCHANGED waiting
  <2> DEFINE q == Append(<<>>, e)
  <2>1. waiting = <<>> /\ q = <<e>>
    BY <1>4
  <2>2. q \in Seq(HostEvents) /\ q # <<>> /\ Head(q) = e /\ Tail(q) = <<>>
    BY <2>1
  <2>3. AgreesSoFar(stack, ses, q, h, astray)
    BY <2>1
  <2> HIDE DEF q
  <2>4. /\ stack' \in Stacks /\ GoodSession(session', native) /\ told' \in 1..MaxEntries
        /\ astray' = astray \/ astray' = {"page", "depth"}
        /\ pressed' = pressed /\ session'.backs <= ses.backs + 0
        /\ session'.index <= ses.index + (IF e.kind = "link" THEN 1 ELSE 0)
        /\ TurnOutcome(e, ses, <<>>)
    <3>1. /\ e.kind = "back" => ses.backs < MaxMoves
          /\ (IF e.kind = "back" THEN 1 ELSE 0) = 0
          /\ (IF e.kind = "back" THEN FALSE ELSE pressed) = pressed
      OBVIOUS
    <3> QED
      BY <1>4, <3>1, TurnFacts
  <2>5. AgreesSoFar(stack', session', <<>>, h, astray')
    BY <2>2, <2>3, <2>4, TurnKeeps
  <2>6. session'.backs <= ses.backs
    BY <1>1, <2>4
  <2> QED
    BY <1>1, <1>4, <2>1, <2>4, <2>5, <2>6
<1>5. CASE /\ running # Idle /\ \A f \in Range(waiting) \cup {running} : ~SameKey(e, f)
           /\ waiting' = Append(waiting, e)
           /\ session' = ses /\ UNCHANGED <<stack, running, pressed, told, astray>>
  <2>1. Distinct(Append(waiting, e))
    BY <1>1, <1>5, DistinctAppended
  <2>2. Append(waiting, e) \in Seq(HostEvents)
    BY <1>1
  <2> QED
    BY <1>1, <1>2, <1>5, <2>1, <2>2
<1> QED
  BY <1>3, <1>4, <1>5 DEF Enqueued
-----------------------------------------------------------------------------
\* The parts of the invariant after a step, put together.
LEMMA Reassembled ==
  ASSUME HistoryInv, native' = native, stack' \in Stacks, GoodSession(session', native),
         told' \in 1..MaxEntries, waiting' \in Seq(HostEvents), running' \in HostEvents \cup {Idle},
         running' = Idle => waiting' = <<>>, Distinct(waiting'), hashes' \in Nat,
         moves' \in 0..MaxMoves, suppressedHref' \in Places \cup {NoPlace}, pressed' \in BOOLEAN,
         pressed' <=> BackPress \in Range(waiting'),
         hashes' + session'.backs + (IF pressed' THEN 1 ELSE 0) <= moves',
         astray' \subseteq {"page", "depth"}, ~native => LinksIn(waiting') = {},
         session'.index + Cardinality(LinksIn(waiting')) <= MaxEntries,
         AgreesSoFar(stack', session', waiting', hashes', astray')
  PROVE  HistoryInv'
PROOF
<1>1. native \in BOOLEAN
  BY DEF HistoryInv, HistoryTypeOK
<1>2. session' \in Sessions /\ session'.index <= Len(session'.entries) /\ Len(session'.entries) <= MaxEntries
  BY DEF GoodSession
<1>3. session'.backs \in Nat
  BY <1>2, HistoryAssumption DEF Sessions
<1>4. hashes' \in 0..MaxMoves
  BY <1>3, HistoryAssumption
<1>5. HistoryTypeOK'
  BY <1>1, <1>2, <1>4 DEF HistoryTypeOK
<1>6. GoodSession(session', native')
  BY Zenon
<1>7. QueueOnce'
  BY DEF QueueOnce
<1>8. MovesPay'
  BY DEF MovesPay
<1> QED
  BY <1>5, <1>6, <1>7, <1>8 DEF HistoryInv

\* What the invariant says, in the form in which the steps below use it.
LEMMA InvFacts ==
  ASSUME HistoryInv
  PROVE  /\ HistoryTypeOK /\ GoodSession(session, native)
         /\ stack \in Stacks /\ told \in 1..MaxEntries /\ astray \subseteq {"page", "depth"}
         /\ waiting \in Seq(HostEvents) /\ running \in HostEvents \cup {Idle}
         /\ hashes \in Nat /\ moves \in 0..MaxMoves /\ moves \in Nat /\ pressed \in BOOLEAN
         /\ suppressedHref \in Places \cup {NoPlace} /\ native \in BOOLEAN
         /\ session \in Sessions /\ session.entries \in Seq(Entries)
         /\ session.index \in 1..MaxEntries /\ session.index \in Nat
         /\ session.index \in DOMAIN session.entries
         /\ DOMAIN session.entries = 1..Len(session.entries)
         /\ Len(session.entries) \in Nat /\ Len(session.entries) <= MaxEntries
         /\ session.backs \in 0..MaxMoves /\ session.backs \in Nat
         /\ session = [entries |-> session.entries, index |-> session.index, backs |-> session.backs]
         /\ running = Idle => waiting = <<>>
         /\ Distinct(waiting) /\ (~native => LinksIn(waiting) = {})
         /\ Cardinality(LinksIn(waiting)) \in Nat
         /\ session.index + Cardinality(LinksIn(waiting)) <= MaxEntries
         /\ pressed <=> BackPress \in Range(waiting)
         /\ hashes + session.backs + (IF pressed THEN 1 ELSE 0) <= moves
         /\ AgreesSoFar(stack, session, waiting, hashes, astray)
         /\ Here(session) \in Entries
PROOF
<1>1. /\ HistoryTypeOK /\ GoodSession(session, native) /\ QueueOnce /\ MovesPay
      /\ AgreesSoFar(stack, session, waiting, hashes, astray)
  BY DEF HistoryInv
<1>2. /\ stack \in Stacks /\ told \in 1..MaxEntries /\ astray \subseteq {"page", "depth"}
      /\ waiting \in Seq(HostEvents) /\ running \in HostEvents \cup {Idle}
      /\ hashes \in Nat /\ moves \in 0..MaxMoves /\ moves \in Nat /\ pressed \in BOOLEAN
      /\ suppressedHref \in Places \cup {NoPlace} /\ native \in BOOLEAN
      /\ session \in Sessions
  BY <1>1, HistoryAssumption DEF HistoryTypeOK
<1>3. /\ session.entries \in Seq(Entries)
      /\ session.index \in 1..MaxEntries /\ session.index \in Nat
      /\ Len(session.entries) \in Nat /\ Len(session.entries) <= MaxEntries
      /\ session.backs \in 0..MaxMoves /\ session.backs \in Nat
      /\ session = [entries |-> session.entries, index |-> session.index, backs |-> session.backs]
      /\ session.index \in 1..Len(session.entries)
      /\ DOMAIN session.entries = 1..Len(session.entries)
  BY <1>1, <1>2, HistoryAssumption DEF GoodSession, Sessions
<1>4. Here(session) \in Entries
  BY <1>3 DEF Here
<1>5. Cardinality(LinksIn(waiting)) \in Nat
  BY <1>1, <1>2, LinksCounted DEF QueueOnce
<1> QED
  BY <1>1, <1>2, <1>3, <1>4, <1>5 DEF QueueOnce, MovesPay

\* An action that enqueues keeps the invariant.
LEMMA EnqueuedStep ==
  ASSUME HistoryInv, native' = native, NEW ses, GoodSession(ses, native),
         ses.index <= session.index \/ ~native,
         NEW e \in HostEvents, e.kind # "back", e.kind = "link" => native /\ Room,
         Enqueued(e, ses), hashes' \in Nat, moves' \in 0..MaxMoves,
         suppressedHref' \in Places \cup {NoPlace},
         hashes' + ses.backs + (IF pressed THEN 1 ELSE 0) <= moves',
         AgreesSoFar(stack, ses, Append(waiting, e), hashes', astray),
         (IF waiting # <<>> THEN SameKey(Last(waiting), e) ELSE e.kind = "history" /\ stack = e.value)
           => AgreesSoFar(stack, ses, waiting, hashes', astray)
  PROVE  HistoryInv'
PROOF
<1> DEFINE more == IF e.kind = "link" THEN 1 ELSE 0
           links == Cardinality(LinksIn(waiting))
           h == hashes'
<1>1. /\ HistoryTypeOK /\ waiting \in Seq(HostEvents) /\ Distinct(waiting)
      /\ (running = Idle => waiting = <<>>) /\ links \in Nat /\ session.index \in Nat
      /\ session.index + links <= MaxEntries /\ (pressed <=> BackPress \in Range(waiting))
      /\ (~native => LinksIn(waiting) = {}) /\ native \in BOOLEAN /\ pressed \in BOOLEAN
  BY InvFacts
<1>2. ses.index \in Nat /\ ses.backs \in Nat /\ ses.index <= MaxEntries
  BY HistoryAssumption DEF GoodSession, Sessions
<1>3. native => ses.index + links + more <= MaxEntries
  BY <1>1, <1>2, HistoryAssumption DEF Room
<1>4. e.kind = "link" => ses.index < MaxEntries
  BY <1>1, <1>2, <1>3, HistoryAssumption
<1> HIDE DEF links, more
<1>5. /\ stack' \in Stacks /\ GoodSession(session', native) /\ told' \in 1..MaxEntries
      /\ waiting' \in Seq(HostEvents) /\ running' \in HostEvents
      /\ pressed' = pressed /\ astray' \subseteq {"page", "depth"}
      /\ session'.backs <= ses.backs /\ Distinct(waiting')
      /\ \/ waiting' = waiting /\ session'.index <= ses.index + more
         \/ waiting' = Append(waiting, e) /\ session' = ses
      /\ AgreesSoFar(stack', session', waiting', h, astray')
  <2> HIDE DEF h
  <2>1. /\ AgreesSoFar(stack, ses, Append(waiting, e), h, astray)
        /\ (IF waiting # <<>> THEN SameKey(Last(waiting), e) ELSE e.kind = "history" /\ stack = e.value)
             => AgreesSoFar(stack, ses, waiting, h, astray)
    BY DEF h
  <2> QED
    BY <1>1, <1>4, <2>1, EnqueuedKeeps DEF more
<1>6. session'.backs \in Nat /\ session'.index \in Nat /\ session'.index <= MaxEntries
  BY <1>5, HistoryAssumption DEF GoodSession, Sessions
<1>7. h + session'.backs + (IF pressed' THEN 1 ELSE 0) <= moves'
  BY <1>1, <1>2, <1>5, <1>6, HistoryAssumption
<1>8. e # BackPress /\ Idle \notin HostEvents
  <2>1. Idle.kind = "idle" /\ BackPress.kind = "back"
    BY DEF Idle, BackPress
  <2> QED
    BY <2>1, EventFacts
<1>9. pressed' <=> BackPress \in Range(waiting')
  <2>1. Range(Append(waiting, e)) = Range(waiting) \cup {e}
    BY <1>1, RangeAppended
  <2> QED
    BY <1>1, <1>5, <1>8, <2>1
<1>10. ~native => LinksIn(waiting') = {}
  <2>1. Range(Append(waiting, e)) = Range(waiting) \cup {e}
    BY <1>1, RangeAppended
  <2> QED
    BY <1>1, <1>5, <2>1 DEF LinksIn
<1>11. session'.index + Cardinality(LinksIn(waiting')) <= MaxEntries
  <2>1. CASE ~native
    <3>1. Cardinality(LinksIn(waiting')) = 0
      BY <1>10, <2>1, FS_EmptySet
    <3> QED
      BY <1>6, <3>1
  <2>2. CASE native /\ waiting' = waiting /\ session'.index <= ses.index + more
    <3>1. more \in Nat
      BY DEF more
    <3>2. session'.index + links <= MaxEntries
      BY <1>1, <1>2, <1>3, <1>6, <2>2, <3>1, HistoryAssumption
    <3> QED
      BY <2>2, <3>2 DEF links
  <2>3. CASE native /\ waiting' = Append(waiting, e) /\ session' = ses
    <3>1. Cardinality(LinksIn(waiting')) <= links + more
      BY <1>1, <2>3, LinksCounted DEF links, more
    <3>2. Cardinality(LinksIn(waiting')) \in Nat /\ more \in Nat
      BY <1>5, LinksCounted DEF more
    <3> QED
      BY <1>1, <1>2, <1>3, <2>3, <3>1, <3>2, HistoryAssumption
  <2> QED
    BY <1>1, <1>5, <2>1, <2>2, <2>3
<1> QED
  BY <1>1, <1>5, <1>7, <1>8, <1>9, <1>10, <1>11, Reassembled
-----------------------------------------------------------------------------
\* A new application is at the one entry it has written.
LEMMA HistoryStarts == HistoryInit => HistoryInv
PROOF
<1> SUFFICES ASSUME HistoryInit PROVE HistoryInv
  OBVIOUS
<1>1. PICK p \in Places : /\ stack = Started(<<>>, p)
                          /\ session = [entries |-> <<EntryOf(stack)>>, index |-> 1, backs |-> 0]
  BY DEF HistoryInit
<1>2. stack \in Stacks /\ Len(stack) = 1
  BY <1>1, StartedFacts
<1>3. /\ EntryOf(stack) \in Entries /\ EntryOf(stack).token = stack /\ stack # <<>>
      /\ EntryOf(stack).place = Last(stack)
  BY <1>2, EntryOfFacts
<1> DEFINE entry == EntryOf(stack)
           one == <<entry>>
<1>4. one \in Seq(Entries) /\ Len(one) = 1 /\ one[1] = entry /\ DOMAIN one = 1..1
  BY <1>3
<1> HIDE DEF entry, one
<1>5. session.entries = one /\ session.index = 1 /\ session.backs = 0
  BY <1>1 DEF one, entry
<1>6. 1 \in 1..MaxEntries /\ 0 \in 0..MaxMoves /\ 1 <= MaxEntries
  BY HistoryAssumption
<1>7. session \in Sessions
  BY <1>1, <1>4, <1>5, <1>6 DEF Sessions, one, entry
<1>8. GoodSession(session, native)
  <2>1. \A i \in DOMAIN session.entries : session.entries[i] = entry
    BY <1>4, <1>5
  <2>2. entry.token = stack /\ entry.token # <<>> /\ entry.place = Last(entry.token)
    BY <1>3 DEF entry
  <2>3. session.entries[1] = entry /\ session.index <= Len(session.entries)
        /\ Len(session.entries) <= MaxEntries
    <3>1. session.entries[1] = entry /\ Len(session.entries) = 1
      BY <1>4, <1>5
    <3>2. 1 <= 1
      OBVIOUS
    <3> QED
      BY <1>5, <1>6, <3>1, <3>2
  <2> QED
    BY <1>7, <2>1, <2>2, <2>3 DEF GoodSession
<1>9. Here(session) = entry
  BY <1>4, <1>5 DEF Here
<1>10. /\ waiting = <<>> /\ running = Idle /\ hashes = 0 /\ suppressedHref = NoPlace
       /\ pressed = FALSE /\ told = 1 /\ astray = {} /\ moves = 0 /\ native \in BOOLEAN
  BY DEF HistoryInit
<1>11. HistoryTypeOK
  <2>1. session.index <= Len(session.entries) /\ Len(session.entries) <= MaxEntries
    BY <1>8 DEF GoodSession
  <2>2. waiting \in Seq(HostEvents)
    BY <1>10
  <2> QED
    BY <1>2, <1>6, <1>7, <1>10, <2>1, <2>2 DEF HistoryTypeOK
<1>12. Range(waiting) = {} /\ LinksIn(waiting) = {}
  BY <1>10 DEF Range, LinksIn
<1>13. QueueOnce
  <2>1. Cardinality(LinksIn(waiting)) = 0
    BY <1>12, FS_EmptySet
  <2>2. session.index + Cardinality(LinksIn(waiting)) <= MaxEntries
    BY <1>5, <1>6, <2>1
  <2>3. Distinct(waiting)
    BY <1>10 DEF Distinct
  <2> QED
    BY <1>10, <1>12, <2>2, <2>3 DEF QueueOnce
<1>14. MovesPay
  BY <1>5, <1>10, <1>12 DEF MovesPay
<1>15. AgreesSoFar(stack, session, waiting, hashes, astray)
  <2>1. Len(session.entries[1].token) = 1
    BY <1>2, <1>3, <1>4, <1>5 DEF entry
  <2>2. Here(session) = EntryOf(stack)
    BY <1>9 DEF entry
  <2> QED
    BY <1>2, <1>10, <1>12, <2>1, <2>2, WrittenAgrees
<1> QED
  BY <1>8, <1>11, <1>13, <1>14, <1>15 DEF HistoryInv

\* A step that writes an entry, and enqueues and dispatches nothing, keeps the invariant.
LEMMA WriteStep ==
  ASSUME HistoryInv, native' = native, waiting' = waiting, running' = running,
         hashes' = hashes, suppressedHref' = suppressedHref, pressed' = pressed,
         moves' \in 0..MaxMoves, moves' >= moves,
         stack' \in Stacks, GoodSession(session', native), told' \in 1..MaxEntries,
         session'.backs = session.backs, session'.index = session.index \/ Room,
         session'.index <= session.index + 1,
         Here(session') = EntryOf(stack'), GoesAstray(Lags(session, waiting)),
         Len(session.entries[1].token) = 1 => Len(session'.entries[1].token) = 1
  PROVE  HistoryInv'
PROOF
<1>1. AgreesSoFar(stack', session', waiting, hashes, astray')
  <2>1. astray' = {"page", "depth"} \/ \A f \in Range(waiting) : ~Speaks(f)
    BY DEF GoesAstray, Lags, Speaks
  <2>2. "depth" \notin astray' => "depth" \notin astray /\ astray' = astray
    BY DEF GoesAstray
  <2>3. "depth" \notin astray => "page" \notin astray /\ Len(session.entries[1].token) = 1
    BY DEF HistoryInv, AgreesSoFar, StartsShort
  <2>4. "depth" \notin astray' => "page" \notin astray' /\ Len(session'.entries[1].token) = 1
    BY <2>2, <2>3
  <2> QED
    BY <2>1, <2>4, WrittenAgrees
<1>2. session'.index + Cardinality(LinksIn(waiting)) <= MaxEntries
  <2>1. session'.index \in Nat
    BY HistoryAssumption DEF GoodSession, Sessions
  <2> DEFINE links == Cardinality(LinksIn(waiting))
  <2>2. links \in Nat /\ session.index \in Nat /\ session.index + links <= MaxEntries
    BY InvFacts
  <2>3. Room => session.index + links < MaxEntries
    BY DEF Room
  <2> HIDE DEF links
  <2>4. session'.index + links <= MaxEntries
    BY <2>1, <2>2, <2>3, HistoryAssumption
  <2> QED
    BY <2>4 DEF links
<1>3. hashes + session.backs + (IF pressed THEN 1 ELSE 0) <= moves'
  <2> DEFINE sum == hashes + session.backs + (IF pressed THEN 1 ELSE 0)
  <2>1. sum \in Nat /\ sum <= moves /\ moves \in Nat
    BY InvFacts
  <2> HIDE DEF sum
  <2>2. sum <= moves'
    BY <2>1, HistoryAssumption
  <2> QED
    BY <2>2 DEF sum
<1>4. astray' \subseteq {"page", "depth"}
  BY InvFacts DEF GoesAstray
<1> QED
  BY <1>1, <1>2, <1>3, <1>4, InvFacts, Reassembled

\* A tap on a link of the page keeps the invariant.
LEMMA VisitKeeps == ASSUME HistoryInv, NEW p \in Places, Visit(p) PROVE HistoryInv'
PROOF
<1>1. /\ stack' = Pushed(stack, p) /\ session' = Appended(session, EntryOf(stack'))
      /\ told' = session.index + 1 /\ GoesAstray(Lags(session, waiting)) /\ Room
      /\ moves' = moves + 1 /\ moves < MaxMoves /\ native' = native /\ waiting' = waiting
      /\ running' = running /\ hashes' = hashes /\ suppressedHref' = suppressedHref
      /\ pressed' = pressed
  BY DEF Visit, WritesPush, Moves
<1>2. stack' \in Stacks
  BY <1>1, InvFacts, PushedFacts
<1>3. session.index < MaxEntries
  BY <1>1, InvFacts, HistoryAssumption DEF Room
<1>4. /\ EntryOf(stack') \in Entries /\ EntryOf(stack').token # <<>>
      /\ EntryOf(stack').place = Last(EntryOf(stack').token)
  BY <1>2, EntryOfFacts
<1>5. /\ GoodSession(session', native) /\ session'.index = session.index + 1
      /\ session'.backs = session.backs /\ Here(session') = EntryOf(stack')
      /\ session'.entries[1] = session.entries[1]
  BY <1>1, <1>3, <1>4, InvFacts, AppendedFacts
<1>6. moves' \in 0..MaxMoves /\ moves' >= moves /\ told' \in 1..MaxEntries
      /\ session'.index <= session.index + 1
  <2>1. moves \in Nat /\ session.index \in Nat
    BY InvFacts
  <2> QED
    BY <1>1, <1>3, <1>5, <2>1, HistoryAssumption
<1> QED
  BY <1>1, <1>2, <1>5, <1>6, WriteStep

\* The page's own Back keeps the invariant.
LEMMA ReturnKeeps == ASSUME HistoryInv, Return PROVE HistoryInv'
PROOF
<1>1. /\ moves' = moves + 1 /\ moves < MaxMoves /\ native' = native /\ waiting' = waiting
      /\ running' = running /\ hashes' = hashes /\ suppressedHref' = suppressedHref
      /\ pressed' = pressed
  BY DEF Return, Moves
<1>2. moves' \in 0..MaxMoves /\ moves' >= moves /\ session.index <= session.index + 1
  BY <1>1, InvFacts, HistoryAssumption
<1>3. CASE /\ CanBack(stack) /\ session' = [session EXCEPT !.backs = @ + 1]
           /\ UNCHANGED <<stack, told, astray>>
  <2>1. session.backs + 1 \in 0..MaxMoves
    BY <1>1, InvFacts, HistoryAssumption
  <2>2. GoodSession([session EXCEPT !.backs = session.backs + 1], native)
    BY <2>1, InvFacts, SessionMoved
  <2>3. /\ session'.entries = session.entries /\ session'.index = session.index
        /\ session'.backs = session.backs + 1 /\ GoodSession(session', native)
    BY <1>3, <2>2, InvFacts
  <2>4. AgreesSoFar(stack, session', waiting, hashes, astray)
    BY <2>3, InvFacts, AgreesAlike
  <2>5. hashes + session'.backs + (IF pressed THEN 1 ELSE 0) <= moves'
    BY <1>1, <2>3, InvFacts
  <2> QED
    BY <1>1, <1>2, <1>3, <2>3, <2>4, <2>5, InvFacts, Reassembled
<1>4. CASE /\ ~CanBack(stack) /\ WritesReplace(Replaced(stack, Home), session)
           /\ GoesAstray(Lags(session, waiting))
  <2>1. /\ stack' = Replaced(stack, Home) /\ session' = Overwritten(session, EntryOf(stack'))
        /\ told' = session.index
    BY <1>4 DEF WritesReplace
  <2>2. Len(stack) = 1
    <3>1. stack \in Stacks
      BY InvFacts
    <3>2. Len(stack) \in 1..MaxDepth
      BY <3>1, StackMembers
    <3>3. ~(Len(stack) > 1)
      BY <1>4 DEF CanBack
    <3>4. Len(stack) \in Int /\ Len(stack) >= 1
      BY <3>2, HistoryAssumption
    <3> QED
      BY <3>3, <3>4
  <2>3. stack' \in Stacks /\ Len(stack') = 1
    BY <2>1, <2>2, InvFacts, ReplacedFacts, HistoryAssumption
  <2>4. /\ GoodSession(session', native) /\ session'.index = session.index
        /\ session'.backs = session.backs /\ Here(session') = EntryOf(stack')
        /\ session'.entries[1].token = IF session.index = 1 THEN stack' ELSE session.entries[1].token
    BY <2>1, <2>3, InvFacts, OverwrittenFacts
  <2>5. Len(session.entries[1].token) = 1 => Len(session'.entries[1].token) = 1
    BY <2>3, <2>4
  <2>6. told' \in 1..MaxEntries
    BY <2>1, InvFacts
  <2> QED
    BY <1>1, <1>2, <1>4, <2>3, <2>4, <2>5, <2>6, WriteStep
<1> QED
  BY <1>3, <1>4 DEF Return

\* The browser making another entry the current one keeps the invariant.
LEMMA TraversedKeeps ==
  ASSUME HistoryInv, native' = native, NEW ses, NEW i \in DOMAIN session.entries,
         GoodSession(ses, native), ses.entries = session.entries, ses.index = session.index,
         i <= session.index \/ ~native, Traversed(i, ses), moves' \in 0..MaxMoves,
         hashes' + ses.backs + (IF pressed THEN 1 ELSE 0) <= moves'
  PROVE  HistoryInv'
PROOF
<1> DEFINE there == session.entries[i]
           new == [ses EXCEPT !.index = i]
           h == hashes'
<1>1. /\ hashes' = IF ~native /\ there.place # Here(session).place THEN hashes + 1 ELSE hashes
      /\ \/ /\ there.token = <<>> /\ session' = new
            /\ UNCHANGED <<stack, waiting, running, suppressedHref, pressed, told, astray>>
         \/ /\ there.token # <<>> /\ suppressedHref' = there.place
            /\ Enqueued(Pop(i), new)
  BY DEF Traversed, Here
<1>2. hashes' \in Nat
  BY <1>1, InvFacts
<1>3. there \in Entries /\ (IF there.token = <<>> THEN ~native ELSE there.place = Last(there.token))
  BY InvFacts DEF GoodSession
<1>4. /\ GoodSession(new, native) /\ new.entries = session.entries /\ new.index = i
      /\ new.backs = ses.backs /\ Here(new) = there
  <2>1. 0 \in 0..MaxMoves
    BY HistoryAssumption
  <2>2. GoodSession(new, native)
    BY <2>1, SessionMoved
  <2>3. ses = [entries |-> ses.entries, index |-> ses.index, backs |-> ses.backs]
    BY DEF GoodSession, Sessions
  <2> QED
    BY <2>2, <2>3 DEF Here
<1> HIDE DEF new
<1>5. CASE there.token = <<>> /\ session' = new
           /\ UNCHANGED <<stack, waiting, running, suppressedHref, pressed, told, astray>>
  <2>1. session.entries[1].token # <<>> /\ i # 1
    BY <1>5, InvFacts DEF GoodSession
  <2>2. ~native
    BY <1>3, <1>5
  <2>3. ASSUME NEW t \in Stacks, Shows(t, session, hashes) PROVE Shows(t, new, h)
    <3>1. CASE there.place # Here(session).place
      <4>1. h # 0
        BY <1>1, <2>2, <3>1, InvFacts
      <4> HIDE DEF h
      <4> QED
        BY <1>4, <1>5, <4>1 DEF Shows
    <3>2. CASE there.place = Here(session).place
      <4>1. h = hashes
        BY <1>1, <3>2
      <4>2. CASE Here(session).token # <<>>
        <5>1. Here(session).place = Last(Here(session).token)
          BY <4>2, InvFacts DEF GoodSession, Here
        <5> QED
          BY <1>4, <1>5, <2>3, <3>2, <4>2, <5>1 DEF Shows
      <4>3. CASE Here(session).token = <<>>
        BY <1>4, <1>5, <2>3, <3>2, <4>1, <4>3 DEF Shows
      <4> QED
        BY <4>2, <4>3
    <3> QED
      BY <3>1, <3>2
  <2>4. AgreesSoFar(stack, new, waiting, h, astray)
    <3> HIDE DEF h
    <3> QED
      BY <1>4, <2>1, <2>3, InvFacts, UnwrittenAgrees
  <2>5. LinksIn(waiting) = {} /\ session'.index + Cardinality(LinksIn(waiting)) <= MaxEntries
    <3>1. LinksIn(waiting) = {} /\ Cardinality(LinksIn(waiting)) = 0
      BY <2>2, InvFacts, FS_EmptySet
    <3>2. i \in 1..MaxEntries
      BY <1>4, HistoryAssumption DEF GoodSession, Sessions
    <3> QED
      BY <1>4, <1>5, <3>1, <3>2, HistoryAssumption
  <2> QED
    BY <1>2, <1>4, <1>5, <2>4, <2>5, InvFacts, Reassembled
<1>6. CASE there.token # <<>> /\ suppressedHref' = there.place /\ Enqueued(Pop(i), new)
  <2> DEFINE e == Pop(i)
  <2>1. /\ e.kind = "history" /\ e.value = there.token /\ e.value = Here(new).token
        /\ e \in HostEvents
    <3>1. there.token \in Stacks /\ i \in 1..MaxEntries
      BY <1>3, <1>4, <1>6 DEF Entries, GoodSession, Sessions
    <3>2. e = [kind |-> "history", value |-> there.token, at |-> i]
      BY DEF Pop
    <3> HIDE DEF e
    <3> QED
      BY <1>4, <3>1, <3>2 DEF HostEvents
  <2> HIDE DEF e
  <2>2. AgreesSoFar(stack, new, Append(waiting, e), h, astray)
    <3> HIDE DEF h
    <3> QED
      BY <1>4, <1>6, <2>1, InvFacts, HistoryAppended
  <2>3. ASSUME IF waiting # <<>> THEN SameKey(Last(waiting), e)
               ELSE e.kind = "history" /\ stack = e.value
        PROVE  AgreesSoFar(stack, new, waiting, h, astray)
    <3>1. IF waiting # <<>> THEN SameKey(Last(waiting), e) ELSE stack = e.value
      BY <2>3
    <3> HIDE DEF h
    <3> QED
      BY <1>4, <1>6, <2>1, <3>1, InvFacts, HistoryDropped
  <2>4. suppressedHref' \in Places \cup {NoPlace}
    BY <1>3, <1>6 DEF Entries
  <2>5. new.index <= session.index \/ ~native
    BY <1>4
  <2>6. e.kind # "back" /\ (e.kind = "link" => native /\ Room) /\ Enqueued(e, new)
    BY <1>6, <2>1 DEF e
  <2>7. hashes' + new.backs + (IF pressed THEN 1 ELSE 0) <= moves'
    BY <1>4
  <2> QED
    BY <1>2, <1>4, <2>1, <2>2, <2>3, <2>4, <2>5, <2>6, <2>7, EnqueuedStep
<1> QED
  BY <1>1, <1>5, <1>6

\* Back and forward of the browser keep the invariant.
LEMMA BrowserGoesKeeps == ASSUME HistoryInv, NEW i \in 1..MaxEntries, BrowserGoes(i) PROVE HistoryInv'
PROOF
<1>1. /\ moves' = moves + 1 /\ moves < MaxMoves /\ ~native /\ native' = native
      /\ i \in DOMAIN session.entries /\ Traversed(i, session)
  BY DEF BrowserGoes, Moves
<1>2. hashes' \in {hashes, hashes + 1}
  BY <1>1 DEF Traversed
<1> DEFINE p == IF pressed THEN 1 ELSE 0
<1>3. p \in Nat /\ hashes \in Nat /\ session.backs \in Nat /\ hashes + session.backs + p <= moves
      /\ moves \in Nat
  BY InvFacts
<1> HIDE DEF p
<1>4. hashes' + session.backs + p <= moves' /\ moves' \in 0..MaxMoves
  BY <1>1, <1>2, <1>3, HistoryAssumption
<1> QED
  BY <1>1, <1>4, InvFacts, TraversedKeeps DEF p

\* A history.back() that is carried out keeps the invariant.
LEMMA BackCarriedOutKeeps == ASSUME HistoryInv, BackCarriedOut PROVE HistoryInv'
PROOF
<1> DEFINE ses == [session EXCEPT !.backs = session.backs - 1]
<1>1. /\ session.backs > 0 /\ native' = native /\ moves' = moves
      /\ \/ /\ session.index = 1 /\ session' = ses
            /\ UNCHANGED <<stack, waiting, running, hashes, suppressedHref, pressed, told, astray>>
         \/ session.index > 1 /\ Traversed(session.index - 1, ses)
  BY DEF BackCarriedOut
<1>2. session.backs - 1 \in 0..MaxMoves
  BY <1>1, InvFacts, HistoryAssumption
<1>3. /\ GoodSession(ses, native) /\ ses.entries = session.entries /\ ses.index = session.index
      /\ ses.backs = session.backs - 1
  BY <1>2, InvFacts, SessionMoved
<1> HIDE DEF ses
<1> DEFINE p == IF pressed THEN 1 ELSE 0
<1>4. p \in Nat /\ hashes \in Nat /\ session.backs \in Nat /\ hashes + session.backs + p <= moves
      /\ moves \in Nat /\ moves \in 0..MaxMoves
  BY InvFacts
<1> HIDE DEF p
<1>5. CASE /\ session.index = 1 /\ session' = ses
           /\ UNCHANGED <<stack, waiting, running, hashes, suppressedHref, pressed, told, astray>>
  <2>1. AgreesSoFar(stack, ses, waiting, hashes, astray)
    BY <1>3, InvFacts, AgreesAlike
  <2>2. hashes + ses.backs + p <= moves
    BY <1>1, <1>3, <1>4
  <2> QED
    BY <1>1, <1>3, <1>5, <2>1, <2>2, InvFacts, Reassembled DEF p
<1>6. CASE session.index > 1 /\ Traversed(session.index - 1, ses)
  <2>1. session.index - 1 \in DOMAIN session.entries /\ session.index - 1 <= session.index
    BY <1>6, InvFacts
  <2>2. hashes' \in {hashes, hashes + 1}
    BY <1>6 DEF Traversed
  <2>3. hashes' + ses.backs + p <= moves'
    BY <1>1, <1>3, <1>4, <2>2
  <2> QED
    BY <1>1, <1>3, <1>4, <1>6, <2>1, <2>3, TraversedKeeps DEF p
<1> QED
  BY <1>1, <1>5, <1>6

\* A new address in the page's address bar keeps the invariant.
LEMMA EditUrlKeeps == ASSUME HistoryInv, NEW p \in Places, EditUrl(p) PROVE HistoryInv'
PROOF
<1> DEFINE entry == [place |-> p, token |-> <<>>]
<1>1. /\ moves' = moves + 1 /\ moves < MaxMoves /\ ~native /\ native' = native /\ Room
      /\ session' = Appended(session, entry) /\ hashes' = hashes + 1
      /\ UNCHANGED <<native, stack, waiting, running, suppressedHref, pressed, told, astray>>
  BY DEF EditUrl, Moves
<1>2. entry \in Entries /\ entry.token = <<>>
  BY DEF Entries
<1> HIDE DEF entry
<1>3. session.index < MaxEntries
  BY <1>1, InvFacts, HistoryAssumption DEF Room
<1>4. /\ GoodSession(session', native) /\ session'.index = session.index + 1
      /\ session'.backs = session.backs /\ Here(session') = entry
      /\ session'.entries[1] = session.entries[1]
  BY <1>1, <1>2, <1>3, InvFacts, AppendedFacts
<1> DEFINE q == IF pressed THEN 1 ELSE 0
<1>5. q \in Nat /\ hashes \in Nat /\ session.backs \in Nat /\ hashes + session.backs + q <= moves
      /\ moves \in Nat /\ session.index \in Nat /\ session.index # 0
  BY InvFacts
<1> HIDE DEF q
<1>6. hashes' + session'.backs + q <= moves' /\ moves' \in 0..MaxMoves /\ hashes' \in Nat
      /\ hashes' # 0 /\ session'.index # 1
  BY <1>1, <1>4, <1>5, HistoryAssumption
<1>7. AgreesSoFar(stack, session', waiting, hashes', astray)
  <2>1. ASSUME NEW t \in Stacks PROVE Shows(t, session', hashes')
    BY <1>2, <1>4, <1>6 DEF Shows
  <2> QED
    BY <1>4, <1>6, <2>1, InvFacts, UnwrittenAgrees
<1>8. session'.index + Cardinality(LinksIn(waiting)) <= MaxEntries
  <2>1. Cardinality(LinksIn(waiting)) = 0
    BY <1>1, InvFacts, FS_EmptySet
  <2> QED
    BY <1>3, <1>4, <1>5, <2>1, HistoryAssumption
<1> QED
  BY <1>1, <1>4, <1>6, <1>7, <1>8, InvFacts, Reassembled DEF q

\* A hashchange, passed on or swallowed, keeps the invariant.
LEMMA HashChangeKeeps == ASSUME HistoryInv, HashChange PROVE HistoryInv'
PROOF
<1>1. /\ hashes > 0 /\ hashes' = hashes - 1 /\ suppressedHref' = NoPlace
      /\ native' = native /\ moves' = moves
  BY DEF HashChange
<1> DEFINE p == IF pressed THEN 1 ELSE 0
           h == hashes'
<1>2. p \in Nat /\ hashes \in Nat /\ session.backs \in Nat /\ hashes + session.backs + p <= moves
      /\ moves \in Nat /\ moves \in 0..MaxMoves
  BY InvFacts
<1> HIDE DEF p
<1>3. h \in Nat /\ h + session.backs + p <= moves'
  BY <1>1, <1>2
<1>4. CASE /\ GoesAstray(Here(session).token = <<>>)
           /\ UNCHANGED <<stack, session, waiting, running, pressed, told>>
  <2>1. AgreesSoFar(stack, session, waiting, h, astray')
    <3>1. CASE Here(session).token = <<>>
      BY <1>4, <3>1 DEF GoesAstray, AgreesSoFar
    <3>2. CASE Here(session).token # <<>>
      <4>1. astray' = astray
        BY <1>4, <3>2 DEF GoesAstray
      <4> HIDE DEF h
      <4>2. AgreesSoFar(stack, session, waiting, h, astray)
        BY <3>2, InvFacts, AgreesAlike
      <4> QED
        BY <4>1, <4>2
    <3> QED
      BY <3>1, <3>2
  <2>2. astray' \subseteq {"page", "depth"}
    BY <1>4, InvFacts DEF GoesAstray
  <2> QED
    BY <1>1, <1>3, <1>4, <2>1, <2>2, InvFacts, Reassembled DEF p
<1>5. CASE Enqueued(Url(Here(session).place, session.index), session)
  <2> DEFINE e == Url(Here(session).place, session.index)
  <2>1. e.kind = "url" /\ e.at = session.index /\ e \in HostEvents
    <3>1. e = [kind |-> "url", value |-> Here(session).place, at |-> session.index]
      BY DEF Url
    <3>2. Here(session).place \in Places /\ session.index \in 1..MaxEntries
      BY InvFacts DEF Entries
    <3> HIDE DEF e
    <3> QED
      BY <3>1, <3>2 DEF HostEvents
  <2> HIDE DEF e
  <2>2. AgreesSoFar(stack, session, Append(waiting, e), h, astray)
    <3> HIDE DEF h
    <3> QED
      BY <2>1, InvFacts, UrlAppended
  <2>3. ASSUME IF waiting # <<>> THEN SameKey(Last(waiting), e)
               ELSE e.kind = "history" /\ stack = e.value
        PROVE  AgreesSoFar(stack, session, waiting, h, astray)
    <3>1. waiting # <<>> /\ SameKey(Last(waiting), e)
      BY <2>1, <2>3
    <3> HIDE DEF h
    <3> QED
      BY <2>1, <3>1, InvFacts, UrlDropped
  <2>4. session.index <= session.index
    BY InvFacts
  <2>5. e.kind # "back" /\ (e.kind = "link" => native /\ Room) /\ Enqueued(e, session)
    BY <1>5, <2>1 DEF e
  <2>6. moves' \in 0..MaxMoves /\ suppressedHref' \in Places \cup {NoPlace} /\ GoodSession(session, native)
    BY <1>1, InvFacts
  <2> QED
    BY <1>1, <1>3, <2>1, <2>2, <2>3, <2>4, <2>5, <2>6, EnqueuedStep DEF p
<1> QED
  BY <1>4, <1>5 DEF HashChange

\* An event that says nothing of the browser keeps the invariant when it is enqueued.
LEMMA QuietEventKeeps ==
  ASSUME HistoryInv, Moves, UNCHANGED <<native, hashes, suppressedHref>>,
         NEW e \in HostEvents, ~Speaks(e), e.kind # "back", e.kind = "link" => native /\ Room,
         Enqueued(e, session)
  PROVE  HistoryInv'
PROOF
<1> DEFINE p == IF pressed THEN 1 ELSE 0
<1>1. p \in Nat /\ hashes \in Nat /\ session.backs \in Nat /\ hashes + session.backs + p <= moves
      /\ moves \in Nat /\ session.index <= session.index /\ moves' = moves + 1 /\ moves < MaxMoves
  BY InvFacts DEF Moves
<1> HIDE DEF p
<1>2. hashes + session.backs + p <= moves' /\ moves' \in 0..MaxMoves
  BY <1>1, HistoryAssumption
<1>3. AgreesSoFar(stack, session, Append(waiting, e), hashes, astray)
  BY InvFacts, QuietAppended
<1>4. /\ GoodSession(session, native) /\ suppressedHref' \in Places \cup {NoPlace}
      /\ AgreesSoFar(stack, session, waiting, hashes, astray)
  BY InvFacts
<1> QED
  BY <1>1, <1>2, <1>3, <1>4, EnqueuedStep DEF p

\* A link from outside keeps the invariant.
LEMMA OpenLinkKeeps == ASSUME HistoryInv, NEW p \in Places, OpenLink(p) PROVE HistoryInv'
PROOF
<1> DEFINE e == Link(p)
<1>1. /\ Moves /\ native /\ Room /\ Enqueued(e, session)
      /\ UNCHANGED <<native, hashes, suppressedHref>>
  BY DEF OpenLink
<1>2. e \in HostEvents /\ e.kind = "link"
  BY DEF HostEvents, Link
<1> HIDE DEF e
<1> QED
  BY <1>1, <1>2, QuietEventKeeps DEF Speaks

\* What else occupies the queue keeps the invariant.
LEMMA SomethingElseKeeps == ASSUME HistoryInv, SomethingElse PROVE HistoryInv'
PROOF
<1>1. Moves /\ Enqueued(Other, session) /\ UNCHANGED <<native, hashes, suppressedHref>>
  BY DEF SomethingElse
<1>2. Other \in HostEvents /\ Other.kind = "other"
  BY DEF HostEvents, Other
<1> QED
  BY <1>1, <1>2, QuietEventKeeps DEF Speaks

\* A press of Back keeps the invariant.
LEMMA PressBackKeeps == ASSUME HistoryInv, PressBack PROVE HistoryInv'
PROOF
<1>1. /\ moves' = moves + 1 /\ moves < MaxMoves /\ native /\ ~pressed
      /\ UNCHANGED <<native, hashes, suppressedHref>>
  BY DEF PressBack, Moves
<1>2. hashes \in Nat /\ session.backs \in Nat /\ hashes + session.backs + 0 <= moves /\ moves \in Nat
  BY <1>1, InvFacts
<1>3. moves' \in 0..MaxMoves /\ session.backs + 1 \in 0..MaxMoves
  BY <1>1, <1>2, HistoryAssumption
<1>4. BackPress \in HostEvents /\ BackPress.kind = "back" /\ BackPress \notin Range(waiting)
  BY <1>1, InvFacts DEF HostEvents, BackPress
<1>5. CASE running = Idle /\ running' = BackPress /\ TurnsBack(session) /\ UNCHANGED waiting
  <2>1. /\ session' = IF CanBack(stack) THEN [session EXCEPT !.backs = session.backs + 1] ELSE session
        /\ pressed' = FALSE /\ UNCHANGED <<stack, told, astray>>
    BY <1>5 DEF TurnsBack
  <2>2. GoodSession([session EXCEPT !.backs = session.backs + 1], native)
    BY <1>3, InvFacts, SessionMoved
  <2>3. /\ session'.entries = session.entries /\ session'.index = session.index
        /\ session'.backs \in {session.backs, session.backs + 1} /\ GoodSession(session', native)
    BY <2>1, <2>2, InvFacts
  <2>4. AgreesSoFar(stack, session', waiting, hashes, astray)
    BY <2>3, InvFacts, AgreesAlike
  <2>5. hashes + session'.backs + 0 <= moves'
    BY <1>1, <1>2, <2>3
  <2> QED
    BY <1>1, <1>3, <1>4, <1>5, <2>1, <2>3, <2>4, <2>5, InvFacts, Reassembled
<1>6. CASE /\ running # Idle /\ waiting' = Append(waiting, BackPress) /\ pressed' = TRUE
           /\ UNCHANGED <<stack, session, running, told, astray>>
  <2> DEFINE e == BackPress
             q == waiting'
  <2>1. \A f \in Range(waiting) : ~SameKey(e, f)
    <3>1. ASSUME NEW f \in Range(waiting), SameKey(e, f) PROVE FALSE
      <4>1. f \in HostEvents
        BY InvFacts DEF Range
      <4>2. f = BackPress
        BY <1>4, <3>1, <4>1, EventFacts DEF SameKey
      <4> QED
        BY <1>4, <4>2
    <3> QED
      BY <3>1
  <2>2. Distinct(q) /\ q \in Seq(HostEvents) /\ Range(q) = Range(waiting) \cup {e}
    BY <1>4, <1>6, <2>1, InvFacts, DistinctAppended, RangeAppended
  <2>3. AgreesSoFar(stack, session, q, hashes, astray)
    BY <1>4, <1>6, InvFacts, QuietAppended DEF Speaks
  <2>4. LinksIn(q) = LinksIn(waiting)
    BY <1>4, <2>2 DEF LinksIn
  <2>5. hashes + session.backs + 1 <= moves'
    BY <1>1, <1>2
  <2>6. BackPress \in Range(q)
    BY <2>2
  <2>7. /\ GoodSession(session', native) /\ session' = session
        /\ session'.index + Cardinality(LinksIn(waiting')) <= MaxEntries
        /\ (~native => LinksIn(waiting') = {})
        /\ AgreesSoFar(stack', session', waiting', hashes', astray')
    <3>1. GoodSession(session, native) /\ session.index + Cardinality(LinksIn(waiting)) <= MaxEntries
      BY InvFacts
    <3> QED
      BY <1>1, <1>6, <2>3, <2>4, <3>1
  <2>8. hashes' + session'.backs + (IF pressed' THEN 1 ELSE 0) <= moves'
    BY <1>1, <1>6, <2>5
  <2> HIDE DEF e
  <2> QED
    BY <1>1, <1>3, <1>6, <2>2, <2>6, <2>7, <2>8, InvFacts, Reassembled
<1> QED
  BY <1>5, <1>6 DEF PressBack

\* The end of an event, and the turn of the next, keep the invariant.
LEMMA HandledKeeps == ASSUME HistoryInv, Handled PROVE HistoryInv'
PROOF
<1>1. UNCHANGED <<native, hashes, suppressedHref, moves>>
  BY DEF Handled
<1>2. CASE /\ waiting = <<>> /\ running' = Idle
           /\ UNCHANGED <<stack, session, waiting, pressed, told, astray>>
  BY <1>1, <1>2, InvFacts, Reassembled
<1>3. CASE /\ waiting # <<>> /\ running' = Head(waiting) /\ waiting' = Tail(waiting)
           /\ Turns(Head(waiting), session, Tail(waiting))
  <2> DEFINE e == Head(waiting)
             rest == Tail(waiting)
             link == IF e.kind = "link" THEN 1 ELSE 0
             back == IF e.kind = "back" THEN 1 ELSE 0
             p == IF pressed THEN 1 ELSE 0
             after == IF pressed' THEN 1 ELSE 0
             links == Cardinality(LinksIn(rest))
  <2>1. /\ e \in HostEvents /\ rest \in Seq(HostEvents) /\ Distinct(rest)
        /\ Range(waiting) = Range(rest) \cup {e} /\ \A f \in Range(rest) : ~SameKey(f, e)
    BY <1>3, InvFacts, QueueTail, DistinctTail
  <2>2. Cardinality(LinksIn(waiting)) = links + link /\ links \in Nat
    BY <1>3, <2>1, InvFacts, LinksCounted
  <2>3. /\ hashes \in Nat /\ session.backs \in Nat /\ hashes + session.backs + p <= moves
        /\ moves \in Nat /\ moves <= MaxMoves /\ session.index \in Nat
        /\ session.index + (links + link) <= MaxEntries
    BY <2>2, InvFacts, HistoryAssumption
  <2>4. e.kind = "back" => pressed
    <3>1. e.kind = "back" => e = BackPress
      BY <2>1, EventFacts
    <3> HIDE DEF e, rest
    <3> QED
      BY <2>1, <3>1, InvFacts
  <2>5. BackPress \in Range(rest) <=> pressed /\ e.kind # "back"
    <3>1. /\ (e.kind = "back" => e = BackPress) /\ BackPress.kind = "back"
      BY <2>1, EventFacts DEF BackPress
    <3> HIDE DEF e, rest
    <3> QED
      BY <2>1, <3>1, InvFacts DEF SameKey
  <2>6. e.kind = "link" => session.index < MaxEntries
    <3>1. e.kind = "link" => link = 1
      OBVIOUS
    <3> HIDE DEF link, links
    <3> QED
      BY <2>2, <2>3, <3>1, HistoryAssumption
  <2>7. e.kind = "back" => session.backs < MaxMoves
    <3>1. e.kind = "back" => p = 1
      BY <2>4
    <3> HIDE DEF p
    <3> QED
      BY <2>3, <3>1, HistoryAssumption
  <2>8. /\ stack' \in Stacks /\ GoodSession(session', native) /\ told' \in 1..MaxEntries
        /\ astray' = astray \/ astray' = {"page", "depth"}
        /\ pressed' = (IF e.kind = "back" THEN FALSE ELSE pressed)
        /\ session'.backs <= session.backs + back
        /\ session'.index <= session.index + link
        /\ TurnOutcome(e, session, rest)
    <3> HIDE DEF e, rest
    <3> QED
      BY <1>3, <2>1, <2>6, <2>7, InvFacts, TurnFacts DEF e, rest
  <2>9. AgreesSoFar(stack', session', rest, hashes, astray')
    BY <1>3, <2>8, InvFacts, TurnKeeps
  <2>10. session'.backs \in Nat /\ session'.index \in Nat
    BY <2>8, HistoryAssumption DEF GoodSession, Sessions
  <2>11. hashes + session'.backs + after <= moves
    <3>1. back \in Nat /\ after \in Nat /\ p \in Nat /\ back + after = p
      BY <2>4, <2>8, InvFacts
    <3> HIDE DEF back, after, p
    <3> QED
      BY <2>3, <2>8, <2>10, <3>1
  <2>12. session'.index + links <= MaxEntries
    <3>1. link \in Nat
      OBVIOUS
    <3> HIDE DEF link, links
    <3> QED
      BY <2>2, <2>3, <2>8, <2>10, <3>1, HistoryAssumption
  <2>13. ~native => LinksIn(rest) = {}
    <3> HIDE DEF e, rest
    <3> QED
      BY <2>1, InvFacts DEF LinksIn
  <2>14. pressed' \in BOOLEAN /\ (pressed' <=> BackPress \in Range(rest))
         /\ astray' \subseteq {"page", "depth"}
    BY <2>5, <2>8, InvFacts
  <2>15. e # Idle
    BY <2>1, EventFacts DEF Idle
  <2> HIDE DEF e, rest
  <2>16. /\ running' = e /\ waiting' = rest
    BY <1>3 DEF e, rest
  <2> QED
    BY <1>1, <2>1, <2>8, <2>9, <2>11, <2>12, <2>13, <2>14, <2>15, <2>16, InvFacts, Reassembled
<1> QED
  BY <1>2, <1>3 DEF Handled

\* A reload keeps the invariant, and mends what the page had lost.
LEMMA ReloadKeeps == ASSUME HistoryInv, Reload PROVE HistoryInv'
PROOF
<1> DEFINE here == Here(session)
           ses == [session EXCEPT !.backs = 0]
           s == Started(here.token, here.place)
<1>1. /\ moves' = moves + 1 /\ moves < MaxMoves /\ ~native /\ native' = native
      /\ stack' = s /\ session' = Overwritten(ses, EntryOf(s)) /\ told' = ses.index
      /\ waiting' = <<>> /\ running' = Idle /\ hashes' = 0
      /\ suppressedHref' = NoPlace /\ pressed' = FALSE /\ astray' = astray \ {"page"}
  BY DEF Reload, Moves, WritesReplace
<1>2. here.token \in Stacks \cup {<<>>} /\ here.place \in Places
  BY InvFacts DEF Entries
<1>3. s \in Stacks /\ (Len(here.token) = 1 => Len(s) = 1)
  BY <1>2, StartedFacts
<1>4. /\ GoodSession(ses, native) /\ ses.entries = session.entries /\ ses.index = session.index
      /\ ses.backs = 0
  <2>1. 0 \in 0..MaxMoves
    BY HistoryAssumption
  <2>2. GoodSession(ses, native)
    BY <2>1, InvFacts, SessionMoved
  <2> QED
    BY <2>2, InvFacts
<1> HIDE DEF ses, s
<1>5. /\ GoodSession(session', native) /\ session'.backs = 0 /\ Here(session') = EntryOf(s)
      /\ session'.index = session.index
      /\ session'.entries[1].token = IF session.index = 1 THEN s ELSE session.entries[1].token
  BY <1>1, <1>3, <1>4, OverwrittenFacts
<1>6. "depth" \notin astray => Len(session'.entries[1].token) = 1
  <2>1. ASSUME "depth" \notin astray PROVE Len(session.entries[1].token) = 1
    BY <2>1 DEF HistoryInv, AgreesSoFar, StartsShort
  <2>2. session.index = 1 => here = session.entries[1]
    BY DEF Here
  <2> HIDE DEF here
  <2> QED
    BY <1>3, <1>5, <2>1, <2>2
<1> DEFINE none == waiting'
<1>7. /\ none \in Seq(HostEvents) /\ Range(none) = {} /\ Distinct(none) /\ LinksIn(none) = {}
      /\ none = <<>>
  BY <1>1 DEF Range, Distinct, LinksIn
<1>8. AgreesSoFar(s, session', none, 0, astray')
  <2>1. \A f \in Range(none) : ~Speaks(f)
    BY <1>7
  <2>2. "depth" \notin astray' => "page" \notin astray' /\ Len(session'.entries[1].token) = 1
    BY <1>1, <1>6
  <2> HIDE DEF none
  <2> QED
    BY <1>3, <1>5, <2>1, <2>2, WrittenAgrees
<1>9. session'.index + Cardinality(LinksIn(none)) <= MaxEntries
  <2>1. Cardinality(LinksIn(none)) = 0 /\ session.index \in 1..MaxEntries
    BY <1>7, InvFacts, FS_EmptySet
  <2> QED
    BY <1>5, <2>1, HistoryAssumption
<1>10. moves' \in 0..MaxMoves /\ moves' \in Nat /\ 0 + 0 + 0 <= moves'
  BY <1>1, InvFacts, HistoryAssumption
<1>11. hashes' + session'.backs + (IF pressed' THEN 1 ELSE 0) <= moves'
  BY <1>1, <1>5, <1>10
<1>12. astray' \subseteq {"page", "depth"} /\ told' \in 1..MaxEntries /\ 0 \in Nat
  BY <1>1, <1>4, InvFacts
<1> QED
  BY <1>1, <1>3, <1>5, <1>7, <1>8, <1>9, <1>10, <1>11, <1>12, Reassembled
-----------------------------------------------------------------------------
\* HistoryInv is kept by every step.
LEMMA HistoryStep == HistoryInv /\ [HistoryNext]_historyVars => HistoryInv'
PROOF
<1> SUFFICES ASSUME HistoryInv, [HistoryNext]_historyVars PROVE HistoryInv'
  OBVIOUS
<1>1. CASE HistoryNext
  BY <1>1, VisitKeeps, EditUrlKeeps, OpenLinkKeeps, BrowserGoesKeeps, ReturnKeeps,
     BackCarriedOutKeeps, HashChangeKeeps, PressBackKeeps, SomethingElseKeeps, HandledKeeps,
     ReloadKeeps DEF HistoryNext
<1>2. CASE UNCHANGED historyVars
  BY <1>2, InvFacts, Reassembled DEF historyVars
<1> QED
  BY <1>1, <1>2

\* Once everything was handled, what the invariant says of the queue is said of the
\* stack: the application shows the browser's entry, and a first entry has no way back.
LEMMA HistoryInvAgrees == HistoryInv => HistoryAgrees
PROOF
<1> SUFFICES ASSUME HistoryInv PROVE HistoryAgrees
  OBVIOUS
<1>1. ASSUME Quiet, "page" \notin astray PROVE Shows(stack, session, 0)
  <2>1. waiting = <<>> /\ hashes = 0 /\ AgreesSoFar(stack, session, waiting, hashes, astray)
    BY <1>1, InvFacts DEF Quiet
  <2>2. DOMAIN waiting = {}
    BY <2>1
  <2> QED
    BY <1>1, <2>1, <2>2 DEF AgreesSoFar, Agrees
<1>2. ShowsTheEntry
  <2>1. Here(session).token # <<>> => Here(session).place = Last(Here(session).token)
    BY InvFacts DEF GoodSession, Here
  <2> QED
    BY <1>1, <2>1 DEF ShowsTheEntry, Shows
<1>3. BackStaysInside
  <2> SUFFICES ASSUME Quiet, "depth" \notin astray, CanBack(stack), ~(session.index > 1)
               PROVE  FALSE
    BY DEF BackStaysInside
  <2>0. session.index = 1
    <3>1. session.index \in Nat /\ session.index # 0
      BY InvFacts, HistoryAssumption
    <3> QED
      BY <3>1
  <2>1. "page" \notin astray /\ Len(session.entries[1].token) = 1
    <3>1. AgreesSoFar(stack, session, waiting, hashes, astray)
      BY InvFacts
    <3> QED
      BY <3>1 DEF AgreesSoFar, StartsShort
  <2>2. Here(session) = session.entries[1] /\ session.entries[1].token # <<>>
    <3>1. GoodSession(session, native)
      BY InvFacts
    <3> QED
      BY <2>0, <3>1 DEF Here, GoodSession
  <2>3. stack = session.entries[1].token
    BY <1>1, <2>1, <2>2 DEF Shows
  <2>4. Len(stack) > 1
    BY DEF CanBack
  <2>5. Len(stack) = 1
    BY <2>1, <2>3
  <2> QED
    BY <2>4, <2>5
<1>4. PressIsDecided
  BY InvFacts DEF PressIsDecided
<1> QED
  BY <1>2, <1>3, <1>4 DEF HistoryAgrees

\* The invariant holds throughout.
LEMMA HistoryInvHolds == HistorySpec => []HistoryInv
PROOF
<1>1. HistoryInit => HistoryInv
  BY HistoryStarts
<1>2. HistoryInv /\ [HistoryNext]_historyVars => HistoryInv'
  BY HistoryStep
<1> QED
  BY <1>1, <1>2, PTL DEF HistorySpec

\* The application and the browser agree on where they are, for any number of places and
\* moves and any depth of the stack: once every event is handled the page shows the entry the
\* browser is at with the stack the entry carries, a first entry offers no way back, and a
\* press of Back is decided.
THEOREM HistoryAgreed == HistorySpec => []HistoryAgrees
PROOF
<1>1. HistoryInv => HistoryAgrees
  BY HistoryInvAgrees
<1> QED
  BY <1>1, HistoryInvHolds, PTL

\* The router, the session history and the queue between them keep to their types.
THEOREM HistoryTypeCorrect == HistorySpec => []HistoryTypeOK
PROOF
<1>1. HistoryInv => HistoryTypeOK
  BY DEF HistoryInv
<1> QED
  BY <1>1, HistoryInvHolds, PTL

-----------------------------------------------------------------------------
(* Collections. *)

\* Any natural numbers have a least among them.
LEMMA LeastNumber ==
  ASSUME NEW T \in SUBSET Nat, T # {}
  PROVE  \E n \in T : \A m \in T : n <= m
<1> DEFINE R == OpToRel(<, Nat)
<1>1. IsWellFoundedOn(R, Nat)
  BY NatLessThanWellFounded
<1>2. \A m, n \in Nat : m < n => <<m, n>> \in R
  BY DEF OpToRel
<1> HIDE DEF R
<1>3. PICK n \in T : \A m \in T : ~(<<m, n>> \in R)
  BY <1>1, WFMin
<1>4. n \in Nat /\ \A m \in T : m \in Nat /\ ~(m < n)
  BY <1>2, <1>3
<1>5. \A m \in T : n <= m
  BY <1>4
<1> QED
  BY <1>5

\* What At keeps are elements of the sequence, from where it tells, in their order.
LEMMA AtFacts ==
  ASSUME NEW S, NEW s \in Seq(S), NEW I \in SUBSET DOMAIN s
  PROVE  /\ At(s, I) \in Seq(S)
         /\ \E f \in [DOMAIN At(s, I) -> I] :
              /\ \A n \in DOMAIN At(s, I) : At(s, I)[n] = s[f[n]]
              /\ \A m, n \in DOMAIN At(s, I) : m < n => f[m] < f[n]
              /\ \A i \in I : \E n \in DOMAIN At(s, I) : f[n] = i
PROOF
<1> DEFINE below(i) == {j \in I : j < i}
           rank(i) == Cardinality(below(i))
           N == Cardinality(I)
           f == [n \in 1..N |-> CHOOSE i \in I : rank(i) = n - 1]
<1>0. /\ DOMAIN s = 1..Len(s) /\ Len(s) \in Nat /\ I \subseteq Nat
      /\ \A i \in I : s[i] \in S
  BY LenProperties
<1>1. IsFiniteSet(I) /\ N \in Nat
  <2>1. IsFiniteSet(1..Len(s))
    BY <1>0, FS_Interval
  <2> QED
    BY <1>0, <2>1, FS_Subset, FS_CardinalityType
<1>2. ASSUME NEW i \in I
      PROVE  IsFiniteSet(below(i)) /\ rank(i) \in Nat /\ rank(i) < N
  <2>1. below(i) \in SUBSET I /\ i \notin below(i)
    BY <1>0
  <2> HIDE DEF below
  <2>2. /\ IsFiniteSet(below(i)) /\ rank(i) \in Nat /\ rank(i) <= N
        /\ (N = rank(i) => I = below(i))
    BY <1>1, <2>1, FS_Subset, FS_CardinalityType
  <2>3. rank(i) # N
    BY <2>1, <2>2
  <2> HIDE DEF rank, N
  <2> QED
    BY <1>1, <2>2, <2>3
<1>3. ASSUME NEW i \in I, NEW j \in I, i < j PROVE rank(i) < rank(j)
  <2>1. below(i) \in SUBSET below(j) /\ i \in below(j) /\ i \notin below(i)
    BY <1>0, <1>3
  <2> HIDE DEF below
  <2>2. rank(i) <= rank(j) /\ (rank(j) = rank(i) => below(j) = below(i))
    BY <1>2, <2>1, FS_Subset
  <2>3. rank(i) \in Nat /\ rank(j) \in Nat
    BY <1>2
  <2> HIDE DEF rank
  <2> QED
    BY <2>1, <2>2, <2>3
<1>4. ASSUME NEW i \in I, NEW j \in I, rank(i) = rank(j) PROVE i = j
  <2>1. i \in Nat /\ j \in Nat /\ rank(i) \in Nat /\ rank(j) \in Nat
    BY <1>0, <1>2
  <2> HIDE DEF rank
  <2> QED
    BY <1>3, <1>4, <2>1
<1>5. \A n \in 1..N : \E i \in I : rank(i) = n - 1
  <2> DEFINE g == [i \in I |-> rank(i) + 1]
  <2> HIDE DEF rank, N
  <2>1. g \in Injection(I, 1..N)
    <3>1. \A i \in I : rank(i) \in Nat /\ rank(i) < N
      BY <1>2 DEF N
    <3>2. \A i \in I : rank(i) + 1 \in 1..N
      BY <1>1, <3>1
    <3>3. \A i, j \in I : rank(i) + 1 = rank(j) + 1 => i = j
      BY <1>4, <3>1
    <3> QED
      BY <3>2, <3>3 DEF Injection, IsInjective
  <2>2. IsFiniteSet(1..N) /\ Cardinality(1..N) = N
    BY <1>1, FS_Interval
  <2>3. g \in Surjection(I, 1..N)
    <3> HIDE DEF g
    <3> QED
      BY <2>1, <2>2, FS_Injection DEF N
  <2>4. \A n \in 1..N : \E i \in I : g[i] = n
    <3> HIDE DEF g
    <3> QED
      BY <2>3 DEF Surjection
  <2>5. ASSUME NEW n \in 1..N PROVE \E i \in I : rank(i) = n - 1
    <3>1. PICK i \in I : g[i] = n
      BY <2>4
    <3>2. g[i] = rank(i) + 1 /\ rank(i) \in Nat
      BY <1>2
    <3> HIDE DEF g
    <3> QED
      BY <1>1, <3>1, <3>2
  <2> QED
    BY <2>5
<1>6. At(s, I) = [n \in 1..N |-> s[f[n]]]
  BY DEF At
<1> HIDE DEF rank, N
<1>7. \A n \in 1..N : f[n] \in I /\ rank(f[n]) = n - 1
  BY <1>5
<1>8. f \in [1..N -> I]
  BY <1>7
<1> HIDE DEF f
<1>9. DOMAIN At(s, I) = 1..N /\ \A n \in 1..N : At(s, I)[n] = s[f[n]]
  BY <1>6
<1>10. At(s, I) \in Seq(S)
  <2>1. At(s, I) \in [1..N -> S]
    BY <1>0, <1>6, <1>8
  <2> QED
    BY <1>1, <2>1
<1>11. ASSUME NEW m \in 1..N, NEW n \in 1..N, m < n PROVE f[m] < f[n]
  <2>1. f[m] \in I /\ f[n] \in I /\ rank(f[m]) = m - 1 /\ rank(f[n]) = n - 1
    BY <1>7
  <2>2. f[m] # f[n] /\ ~(rank(f[n]) < rank(f[m]))
    BY <1>11, <2>1
  <2> QED
    BY <1>0, <1>3, <2>1, <2>2
<1>12. ASSUME NEW i \in I PROVE \E n \in 1..N : f[n] = i
  <2>1. rank(i) \in Nat /\ rank(i) < N
    BY <1>2 DEF N
  <2>2. rank(i) + 1 \in 1..N /\ (rank(i) + 1) - 1 = rank(i)
    BY <1>1, <2>1
  <2>3. f[rank(i) + 1] \in I /\ rank(f[rank(i) + 1]) = rank(i)
    BY <1>7, <2>2
  <2> QED
    BY <1>4, <2>2, <2>3
<1>13. /\ \A m, n \in 1..N : m < n => f[m] < f[n]
       /\ \A i \in I : \E n \in 1..N : f[n] = i
  BY <1>11, <1>12
<1> DEFINE a == At(s, I)
<1>14. a \in Seq(S) /\ DOMAIN a = 1..N /\ \A n \in 1..N : a[n] = s[f[n]]
  BY <1>9, <1>10
<1> HIDE DEF a
<1>15. /\ f \in [DOMAIN a -> I]
       /\ \A n \in DOMAIN a : a[n] = s[f[n]]
       /\ \A m, n \in DOMAIN a : m < n => f[m] < f[n]
       /\ \A i \in I : \E n \in DOMAIN a : f[n] = i
  BY <1>8, <1>13, <1>14
<1> QED
  BY <1>14, <1>15 DEF a

\* A page's keys differ, and from those of other pages.
Once(ps) ==
  \A i, j \in DOMAIN ps : \A m \in DOMAIN ps[i].keys, n \in DOMAIN ps[j].keys :
    ps[i].keys[m] = ps[j].keys[n] => i = j /\ m = n

\* Pages, and what they hold.
LEMMA PageFacts ==
  ASSUME NEW ps \in Seq(Page)
  PROVE  /\ DOMAIN ps = 1..Len(ps) /\ Len(ps) \in Nat
         /\ \A i \in DOMAIN ps :
              /\ ps[i] \in Page /\ ps[i].keys \in Seq(ItemKeys)
              /\ DOMAIN ps[i].keys = 1..Len(ps[i].keys) /\ Len(ps[i].keys) \in Nat
              /\ ps[i].previous \in Cursors \cup {NoCursor}
              /\ ps[i].next \in Cursors \cup {NoCursor}
         /\ Held(ps) \subseteq ItemKeys
         /\ \A k : k \in Held(ps) <=>
              \E i \in DOMAIN ps : \E m \in DOMAIN ps[i].keys : ps[i].keys[m] = k
PROOF
<1>1. DOMAIN ps = 1..Len(ps) /\ Len(ps) \in Nat /\ \A i \in DOMAIN ps : ps[i] \in Page
  BY LenProperties
<1>2. ASSUME NEW i \in DOMAIN ps
      PROVE  /\ ps[i].keys \in Seq(ItemKeys)
             /\ ps[i].previous \in Cursors \cup {NoCursor}
             /\ ps[i].next \in Cursors \cup {NoCursor}
  <2>1. ps[i] \in Page
    BY <1>1
  <2> QED
    BY <2>1 DEF Page
<1>3. ASSUME NEW i \in DOMAIN ps
      PROVE  /\ DOMAIN ps[i].keys = 1..Len(ps[i].keys) /\ Len(ps[i].keys) \in Nat
             /\ \A m \in DOMAIN ps[i].keys : ps[i].keys[m] \in ItemKeys
  BY <1>2, LenProperties
<1>4. ASSUME NEW k
      PROVE  k \in Held(ps) <=>
               \E i \in DOMAIN ps : \E m \in DOMAIN ps[i].keys : ps[i].keys[m] = k
  <2>1. ASSUME k \in Held(ps)
        PROVE  \E i \in DOMAIN ps : \E m \in DOMAIN ps[i].keys : ps[i].keys[m] = k
    <3>1. PICK x \in Spots(ps) : k = KeyAt(ps, x)
      BY <2>1 DEF Held
    <3>2. PICK i \in DOMAIN ps : x \in {i} \X DOMAIN ps[i].keys
      BY <3>1 DEF Spots
    <3>3. x[1] = i /\ x[2] \in DOMAIN ps[i].keys
      BY <3>2
    <3> QED
      BY <3>1, <3>3 DEF KeyAt
  <2>2. ASSUME NEW i \in DOMAIN ps, NEW m \in DOMAIN ps[i].keys, ps[i].keys[m] = k
        PROVE  k \in Held(ps)
    <3>1. <<i, m>> \in {i} \X DOMAIN ps[i].keys
      OBVIOUS
    <3>2. <<i, m>> \in Spots(ps)
      BY <3>1 DEF Spots
    <3>3. KeyAt(ps, <<i, m>>) = k
      BY <2>2 DEF KeyAt
    <3> QED
      BY <3>2, <3>3 DEF Held
  <2> QED
    BY <2>1, <2>2
<1>5. Held(ps) \subseteq ItemKeys
  BY <1>3, <1>4
<1> QED
  BY <1>1, <1>2, <1>3, <1>4, <1>5

\* The places of the items.
LEMMA SpotFacts ==
  ASSUME NEW ps \in Seq(Page)
  PROVE  /\ IsFiniteSet(Spots(ps)) /\ ItemCount(ps) \in Nat
         /\ ItemCount(ps) = 0 <=> Held(ps) = {}
         /\ \A x : x \in Spots(ps) <=>
              \E i \in DOMAIN ps : \E m \in DOMAIN ps[i].keys : x = <<i, m>>
PROOF
<1> DEFINE row(i) == {i} \X DOMAIN ps[i].keys
           rows == {row(i) : i \in DOMAIN ps}
           g == [i \in DOMAIN ps |-> row(i)]
<1>1. ASSUME NEW i \in DOMAIN ps PROVE IsFiniteSet(row(i))
  <2>1. DOMAIN ps[i].keys = 1..Len(ps[i].keys) /\ Len(ps[i].keys) \in Nat
    BY PageFacts
  <2>2. IsFiniteSet(DOMAIN ps[i].keys)
    <3>1. Len(ps[i].keys) \in Int
      BY <2>1
    <3>2. IsFiniteSet(1..Len(ps[i].keys))
      BY <3>1, FS_Interval
    <3> QED
      BY <2>1, <3>2
  <2>3. IsFiniteSet({i})
    BY FS_Singleton
  <2> QED
    BY <2>2, <2>3, FS_Product
<1>2. IsFiniteSet(DOMAIN ps)
  BY PageFacts, FS_Interval
<1>3. g \in Surjection(DOMAIN ps, rows)
  BY DEF Surjection
<1>4. IsFiniteSet(rows)
  <2> HIDE DEF g, rows
  <2> QED
    BY <1>2, <1>3, FS_Surjection
<1>5. Spots(ps) = UNION rows
  BY DEF Spots
<1>6. IsFiniteSet(Spots(ps))
  <2>1. \A r \in rows : IsFiniteSet(r)
    BY <1>1
  <2> HIDE DEF rows
  <2> QED
    BY <1>4, <1>5, <2>1, FS_UNION
<1>7. ASSUME NEW x
      PROVE  x \in Spots(ps) <=> \E i \in DOMAIN ps : \E m \in DOMAIN ps[i].keys : x = <<i, m>>
  <2>1. ASSUME x \in Spots(ps)
        PROVE  \E i \in DOMAIN ps : \E m \in DOMAIN ps[i].keys : x = <<i, m>>
    <3>1. PICK i \in DOMAIN ps : x \in {i} \X DOMAIN ps[i].keys
      BY <2>1 DEF Spots
    <3>2. x[1] = i /\ x[2] \in DOMAIN ps[i].keys /\ x = <<x[1], x[2]>>
      BY <3>1
    <3> QED
      BY <3>2
  <2>2. ASSUME NEW i \in DOMAIN ps, NEW m \in DOMAIN ps[i].keys, x = <<i, m>>
        PROVE  x \in Spots(ps)
    BY <2>2 DEF Spots
  <2> QED
    BY <2>1, <2>2
<1>8. ItemCount(ps) \in Nat /\ (ItemCount(ps) = 0 <=> Spots(ps) = {})
  BY <1>6, FS_CardinalityType, FS_EmptySet DEF ItemCount
<1>9. Spots(ps) = {} <=> Held(ps) = {}
  BY DEF Held
<1> QED
  BY <1>6, <1>7, <1>8, <1>9

\* Pages without repeated keys have as many items as keys.
LEMMA OnceCounts ==
  ASSUME NEW ps \in Seq(Page), Once(ps)
  PROVE  IsFiniteSet(Held(ps)) /\ ItemCount(ps) = Cardinality(Held(ps))
PROOF
<1> DEFINE h == [x \in Spots(ps) |-> KeyAt(ps, x)]
<1>1. \A x \in Spots(ps) : /\ x = <<x[1], x[2]>> /\ x[1] \in DOMAIN ps
                           /\ x[2] \in DOMAIN ps[x[1]].keys
  BY SpotFacts
<1>2. ASSUME NEW x \in Spots(ps), NEW y \in Spots(ps), KeyAt(ps, x) = KeyAt(ps, y) PROVE x = y
  BY <1>1, <1>2 DEF Once, KeyAt
<1>3. h \in Surjection(Spots(ps), Held(ps))
  BY DEF Surjection, Held
<1>4. h \in Injection(Spots(ps), Held(ps))
  BY <1>2 DEF Injection, IsInjective, Held
<1>5. IsFiniteSet(Spots(ps))
  BY SpotFacts
<1> HIDE DEF h
<1> QED
  BY <1>3, <1>4, <1>5, FS_Surjection DEF ItemCount

\* Fewer keys are fewer items.
LEMMA FewerKeys ==
  ASSUME NEW ps \in Seq(Page), Once(ps), NEW qs \in Seq(Page), Once(qs), Held(qs) \subseteq Held(ps)
  PROVE  ItemCount(qs) <= ItemCount(ps)
PROOF
<1>1. /\ IsFiniteSet(Held(ps)) /\ ItemCount(ps) = Cardinality(Held(ps))
      /\ ItemCount(qs) = Cardinality(Held(qs))
  BY OnceCounts
<1> QED
  BY <1>1, FS_Subset

\* While pages continue each other each holds the records of a part, in their order, and the
\* parts follow each other; what is missing the application touched (T).  The cursors are
\* where the parts begin and end.
Laid(ps, T, from, to) ==
  /\ from \in [DOMAIN ps -> Cursors] /\ to \in [DOMAIN ps -> Cursors]
  /\ \A i \in DOMAIN ps : /\ from[i] <= to[i]
                          /\ ps[i].previous \in {from[i], NoCursor}
                          /\ ps[i].next \in {to[i], NoCursor}
  /\ \A i, j \in DOMAIN ps : i < j => to[i] <= from[j]
  /\ \A i \in DOMAIN ps : \A m \in DOMAIN ps[i].keys : ps[i].keys[m] \in (1..Records) \ T =>
       from[i] < ps[i].keys[m] /\ ps[i].keys[m] <= to[i]
  /\ \A i \in DOMAIN ps : \A m, n \in DOMAIN ps[i].keys :
       m < n /\ {ps[i].keys[m], ps[i].keys[n]} \subseteq (1..Records) \ T =>
         ps[i].keys[m] < ps[i].keys[n]
  /\ \A k \in (1..Records) \ T : \A i, j \in DOMAIN ps : from[i] < k /\ k <= to[j] => k \in Held(ps)

\* qs are some of the pages ps, in their order.
Among(qs, ps, f) ==
  /\ f \in [DOMAIN qs -> DOMAIN ps]
  /\ \A i \in DOMAIN qs : qs[i] = ps[f[i]]
  /\ \A i, j \in DOMAIN qs : i < j => f[i] < f[j]

\* Some of the pages hold some of their keys.
LEMMA AmongOnce ==
  ASSUME NEW ps \in Seq(Page), NEW qs \in Seq(Page), NEW f, Among(qs, ps, f)
  PROVE  Held(qs) \subseteq Held(ps) /\ (Once(ps) => Once(qs))
PROOF
<1>1. ASSUME NEW k \in Held(qs) PROVE k \in Held(ps)
  <2>1. PICK i \in DOMAIN qs : \E m \in DOMAIN qs[i].keys : qs[i].keys[m] = k
    BY PageFacts
  <2>2. f[i] \in DOMAIN ps /\ qs[i] = ps[f[i]]
    BY DEF Among
  <2> QED
    BY <2>1, <2>2, PageFacts
<1>2. ASSUME Once(ps) PROVE Once(qs)
  <2> SUFFICES ASSUME NEW i \in DOMAIN qs, NEW j \in DOMAIN qs,
                      NEW m \in DOMAIN qs[i].keys, NEW n \in DOMAIN qs[j].keys,
                      qs[i].keys[m] = qs[j].keys[n]
               PROVE  i = j /\ m = n
    BY DEF Once
  <2>1. /\ f[i] \in DOMAIN ps /\ qs[i] = ps[f[i]] /\ f[j] \in DOMAIN ps /\ qs[j] = ps[f[j]]
        /\ i < j => f[i] < f[j]
        /\ j < i => f[j] < f[i]
    BY DEF Among
  <2>2. f[i] = f[j] /\ m = n
    BY <1>2, <2>1 DEF Once
  <2>3. i \in Nat /\ j \in Nat /\ f[i] \in Nat /\ f[j] \in Nat
    <3>1. DOMAIN qs = 1..Len(qs) /\ DOMAIN ps = 1..Len(ps)
      BY PageFacts
    <3> QED
      BY <2>1, <3>1
  <2> QED
    BY <2>1, <2>2, <2>3
<1> QED
  BY <1>1, <1>2

\* Some of the pages continue each other, when nothing that is held goes between them.
LEMMA AmongLaid ==
  ASSUME NEW ps \in Seq(Page), NEW qs \in Seq(Page), NEW f, Among(qs, ps, f),
         NEW T, NEW from, NEW to, Laid(ps, T, from, to),
         \A k \in Held(ps) : \A i, j \in DOMAIN qs :
           k \in (1..Records) \ T /\ from[f[i]] < k /\ k <= to[f[j]] => k \in Held(qs)
  PROVE  Laid(qs, T, [i \in DOMAIN qs |-> from[f[i]]], [i \in DOMAIN qs |-> to[f[i]]])
PROOF
<1> DEFINE b == [i \in DOMAIN qs |-> from[f[i]]]
           e == [i \in DOMAIN qs |-> to[f[i]]]
<1>1. \A i \in DOMAIN qs : f[i] \in DOMAIN ps /\ qs[i] = ps[f[i]] /\ b[i] = from[f[i]] /\ e[i] = to[f[i]]
  BY DEF Among
<1>2. b \in [DOMAIN qs -> Cursors] /\ e \in [DOMAIN qs -> Cursors]
  BY <1>1 DEF Laid
<1> HIDE DEF b, e
<1>3. \A i \in DOMAIN qs : /\ b[i] <= e[i]
                           /\ qs[i].previous \in {b[i], NoCursor}
                           /\ qs[i].next \in {e[i], NoCursor}
  BY <1>1 DEF Laid
<1>4. \A i, j \in DOMAIN qs : i < j => e[i] <= b[j]
  BY <1>1 DEF Laid, Among
<1>5. \A i \in DOMAIN qs : \A m \in DOMAIN qs[i].keys : qs[i].keys[m] \in (1..Records) \ T =>
        b[i] < qs[i].keys[m] /\ qs[i].keys[m] <= e[i]
  BY <1>1 DEF Laid
<1>6. \A i \in DOMAIN qs : \A m, n \in DOMAIN qs[i].keys :
        m < n /\ {qs[i].keys[m], qs[i].keys[n]} \subseteq (1..Records) \ T =>
          qs[i].keys[m] < qs[i].keys[n]
  BY <1>1 DEF Laid
<1>7. ASSUME NEW k \in (1..Records) \ T, NEW i \in DOMAIN qs, NEW j \in DOMAIN qs, b[i] < k, k <= e[j]
      PROVE  k \in Held(qs)
  <2>1. k \in Held(ps)
    BY <1>1, <1>7 DEF Laid
  <2> QED
    BY <1>1, <1>7, <2>1
<1> QED
  BY <1>2, <1>3, <1>4, <1>5, <1>6, <1>7 DEF Laid, b, e

\* pruneEmptyInteriorPages keeps the pages at the ends and all that is held.
LEMMA PrunedFacts ==
  ASSUME NEW ps \in Seq(Page)
  PROVE  LET qs == PruneEmptyInterior(ps) IN
         /\ qs \in Seq(Page) /\ Held(qs) = Held(ps)
         /\ ps = <<>> <=> qs = <<>>
         /\ \E f : /\ Among(qs, ps, f)
                   /\ ps # <<>> => f[1] = 1 /\ f[Len(qs)] = Len(ps)
PROOF
<1> DEFINE I == {i \in DOMAIN ps : ps[i].keys # <<>> \/ i = 1 \/ i = Len(ps)}
           qs == PruneEmptyInterior(ps)
<1>1. qs = At(ps, I)
  BY DEF PruneEmptyInterior
<1>2. I \in SUBSET DOMAIN ps
  OBVIOUS
<1>3. qs \in Seq(Page)
  <2> HIDE DEF I, qs
  <2> QED
    BY <1>1, <1>2, AtFacts
<1>4. PICK f \in [DOMAIN qs -> I] :
        /\ \A n \in DOMAIN qs : qs[n] = ps[f[n]]
        /\ \A m, n \in DOMAIN qs : m < n => f[m] < f[n]
        /\ \A i \in I : \E n \in DOMAIN qs : f[n] = i
  <2> HIDE DEF I, qs
  <2> QED
    BY <1>1, <1>2, AtFacts
<1> HIDE DEF qs
<1>5. Among(qs, ps, f)
  BY <1>4 DEF Among
<1>6. /\ DOMAIN qs = 1..Len(qs) /\ Len(qs) \in Nat /\ DOMAIN ps = 1..Len(ps) /\ Len(ps) \in Nat
  BY <1>3, PageFacts
<1>7. ps # <<>> => qs # <<>> /\ f[1] = 1 /\ f[Len(qs)] = Len(ps)
  <2> SUFFICES ASSUME ps # <<>> PROVE qs # <<>> /\ f[1] = 1 /\ f[Len(qs)] = Len(ps)
    OBVIOUS
  <2>1. Len(ps) >= 1
    BY <1>6, EmptySeq
  <2>2. 1 \in I /\ Len(ps) \in I
    BY <1>6, <2>1
  <2>3. PICK n \in DOMAIN qs : f[n] = 1
    BY <1>4, <2>2
  <2>4. PICK m \in DOMAIN qs : f[m] = Len(ps)
    BY <1>4, <2>2
  <2>5. /\ Len(qs) >= 1 /\ 1 \in DOMAIN qs /\ Len(qs) \in DOMAIN qs
        /\ n = 1 \/ 1 < n
        /\ m = Len(qs) \/ m < Len(qs)
    BY <1>6, <2>3, <2>4
  <2>6. f[1] \in 1..Len(ps) /\ f[Len(qs)] \in 1..Len(ps)
    BY <1>4, <1>6, <2>5
  <2>7. f[1] = 1
    BY <1>4, <1>6, <2>3, <2>5, <2>6
  <2>8. f[Len(qs)] = Len(ps)
    BY <1>4, <1>6, <2>4, <2>5, <2>6
  <2>9. qs # <<>>
    BY <2>5
  <2> QED
    BY <2>7, <2>8, <2>9
<1>8. ps = <<>> => qs = <<>>
  <2> SUFFICES ASSUME ps = <<>> PROVE qs = <<>>
    OBVIOUS
  <2>1. DOMAIN qs = {}
    BY <1>4
  <2> QED
    BY <1>3, <1>6, <2>1, EmptySeq
<1>9. ASSUME NEW k \in Held(ps) PROVE k \in Held(qs)
  <2>1. PICK i \in DOMAIN ps : \E m \in DOMAIN ps[i].keys : ps[i].keys[m] = k
    BY PageFacts
  <2>2. ps[i].keys # <<>>
    BY <2>1
  <2>3. PICK n \in DOMAIN qs : f[n] = i
    BY <1>4, <2>2
  <2>4. qs[n] = ps[i]
    BY <1>4, <2>3
  <2> QED
    BY <1>3, <2>1, <2>4, PageFacts
<1>10. Held(qs) = Held(ps)
  BY <1>3, <1>5, <1>9, AmongOnce
<1> QED
  BY <1>3, <1>5, <1>7, <1>8, <1>10 DEF qs

\* t are the elements of s that are not in ks, in their order.
Shortened(t, s, ks) ==
  \E g \in [DOMAIN t -> DOMAIN s] :
    /\ \A n \in DOMAIN t : t[n] = s[g[n]] /\ s[g[n]] \notin ks
    /\ \A m, n \in DOMAIN t : m < n => g[m] < g[n]
    /\ \A m \in DOMAIN s : s[m] \notin ks => \E n \in DOMAIN t : g[n] = m

\* What is left of a page's keys.
LEMMA ShortenedFacts ==
  ASSUME NEW s \in Seq(ItemKeys), NEW ks
  PROVE  LET a == At(s, {m \in DOMAIN s : s[m] \notin ks}) IN
         a \in Seq(ItemKeys) /\ Shortened(a, s, ks)
PROOF
<1> DEFINE I == {m \in DOMAIN s : s[m] \notin ks}
           a == At(s, I)
<1>1. \A m : m \in I <=> m \in DOMAIN s /\ s[m] \notin ks
  OBVIOUS
<1>2. I \in SUBSET DOMAIN s
  OBVIOUS
<1> HIDE DEF I
<1>3. /\ a \in Seq(ItemKeys)
      /\ \E f \in [DOMAIN a -> I] :
           /\ \A n \in DOMAIN a : a[n] = s[f[n]]
           /\ \A m, n \in DOMAIN a : m < n => f[m] < f[n]
           /\ \A i \in I : \E n \in DOMAIN a : f[n] = i
  BY <1>2, AtFacts
<1> HIDE DEF a
<1>4. PICK f \in [DOMAIN a -> I] :
        /\ \A n \in DOMAIN a : a[n] = s[f[n]]
        /\ \A m, n \in DOMAIN a : m < n => f[m] < f[n]
        /\ \A i \in I : \E n \in DOMAIN a : f[n] = i
  BY <1>3
<1>5. /\ f \in [DOMAIN a -> DOMAIN s]
      /\ \A n \in DOMAIN a : a[n] = s[f[n]] /\ s[f[n]] \notin ks
      /\ \A m, n \in DOMAIN a : m < n => f[m] < f[n]
      /\ \A m \in DOMAIN s : s[m] \notin ks => \E n \in DOMAIN a : f[n] = m
  BY <1>1, <1>4
<1>6. a \in Seq(ItemKeys) /\ Shortened(a, s, ks)
  BY <1>3, <1>5 DEF Shortened
<1> QED
  BY <1>6 DEF a, I

\* removeKeys takes the keys out of every page, and moves nothing.
LEMMA RemovedFacts ==
  ASSUME NEW ps \in Seq(Page), NEW ks
  PROVE  LET qs == RemoveKeys(ps, ks) IN
         /\ qs \in Seq(Page) /\ Len(qs) = Len(ps)
         /\ \A i \in DOMAIN qs : qs[i].previous = ps[i].previous /\ qs[i].next = ps[i].next
         /\ Held(qs) = Held(ps) \ ks
         /\ Once(ps) => Once(qs)
         /\ \A T, from, to : Laid(ps, T, from, to) => Laid(qs, T \cup ks, from, to)
PROOF
<1> DEFINE left(i) == {m \in DOMAIN ps[i].keys : ps[i].keys[m] \notin ks}
           qs == RemoveKeys(ps, ks)
<1>1. DOMAIN ps = 1..Len(ps) /\ Len(ps) \in Nat
  BY PageFacts
<1>2. /\ DOMAIN qs = DOMAIN ps
      /\ qs = [i \in 1..Len(ps) |-> [ps[i] EXCEPT !.keys = At(ps[i].keys, left(i))]]
  BY <1>1 DEF RemoveKeys
<1>3. ASSUME NEW i \in DOMAIN ps
      PROVE  /\ qs[i].previous = ps[i].previous /\ qs[i].next = ps[i].next
             /\ qs[i] \in Page
             /\ Shortened(qs[i].keys, ps[i].keys, ks)
  <2>1. ps[i] \in Page /\ ps[i].keys \in Seq(ItemKeys)
    BY PageFacts
  <2> DEFINE a == At(ps[i].keys, left(i))
  <2>2. a \in Seq(ItemKeys) /\ Shortened(a, ps[i].keys, ks)
    <3> HIDE DEF a
    <3> QED
      BY <2>1, ShortenedFacts DEF a
  <2>3. qs[i] = [ps[i] EXCEPT !.keys = a]
    BY <1>1, <1>2
  <2> HIDE DEF qs, a
  <2>4. qs[i] = [keys |-> a, previous |-> ps[i].previous, next |-> ps[i].next]
    BY <2>1, <2>3 DEF Page
  <2> QED
    BY <2>1, <2>2, <2>4 DEF Page
<1> HIDE DEF qs
<1>4. qs \in Seq(Page) /\ Len(qs) = Len(ps)
  <2>1. qs \in [1..Len(ps) -> Page]
    BY <1>1, <1>2, <1>3
  <2> QED
    BY <1>1, <2>1
<1>5. \A i \in DOMAIN qs : qs[i].previous = ps[i].previous /\ qs[i].next = ps[i].next
  BY <1>2, <1>3
<1>6. Held(qs) = Held(ps) \ ks
  <2>1. ASSUME NEW k \in Held(qs) PROVE k \in Held(ps) \ ks
    <3>1. PICK i \in DOMAIN qs : \E m \in DOMAIN qs[i].keys : qs[i].keys[m] = k
      BY <1>4, PageFacts
    <3>2. Shortened(qs[i].keys, ps[i].keys, ks)
      BY <1>2, <1>3
    <3>3. PICK m \in DOMAIN ps[i].keys : ps[i].keys[m] = k /\ k \notin ks
      BY <3>1, <3>2 DEF Shortened
    <3> QED
      BY <1>2, <3>3, PageFacts
  <2>2. ASSUME NEW k \in Held(ps), k \notin ks PROVE k \in Held(qs)
    <3>1. PICK i \in DOMAIN ps : \E m \in DOMAIN ps[i].keys : ps[i].keys[m] = k
      BY PageFacts
    <3>2. PICK m \in DOMAIN qs[i].keys : qs[i].keys[m] = k
      BY <1>3, <2>2, <3>1 DEF Shortened
    <3> QED
      BY <1>2, <1>4, <3>2, PageFacts
  <2> QED
    BY <2>1, <2>2
<1>7. ASSUME Once(ps) PROVE Once(qs)
  <2> SUFFICES ASSUME NEW i \in DOMAIN qs, NEW j \in DOMAIN qs,
                      NEW m \in DOMAIN qs[i].keys, NEW n \in DOMAIN qs[j].keys,
                      qs[i].keys[m] = qs[j].keys[n]
               PROVE  i = j /\ m = n
    BY DEF Once
  <2>0. /\ i \in DOMAIN ps /\ Shortened(qs[i].keys, ps[i].keys, ks)
        /\ j \in DOMAIN ps /\ Shortened(qs[j].keys, ps[j].keys, ks)
    BY <1>2, <1>3
  <2>1. PICK g \in [DOMAIN qs[i].keys -> DOMAIN ps[i].keys] :
          /\ \A l \in DOMAIN qs[i].keys : qs[i].keys[l] = ps[i].keys[g[l]]
          /\ \A l, o \in DOMAIN qs[i].keys : l < o => g[l] < g[o]
    BY <2>0 DEF Shortened
  <2>2. PICK h \in [DOMAIN qs[j].keys -> DOMAIN ps[j].keys] :
          \A l \in DOMAIN qs[j].keys : qs[j].keys[l] = ps[j].keys[h[l]]
    BY <2>0 DEF Shortened
  <2>3. i = j
    BY <1>7, <2>0, <2>1, <2>2 DEF Once
  <2>4. qs[i].keys[n] = ps[i].keys[g[n]] /\ qs[i].keys[m] = ps[i].keys[g[m]] /\ n \in DOMAIN qs[i].keys
    BY <2>1, <2>3
  <2>5. g[m] = g[n]
    BY <1>7, <2>0, <2>1, <2>3, <2>4 DEF Once
  <2>6. m \in Nat /\ n \in Nat /\ g[m] \in Nat /\ g[n] \in Nat
    <3>1. /\ DOMAIN qs[i].keys = 1..Len(qs[i].keys)
          /\ DOMAIN ps[i].keys = 1..Len(ps[i].keys)
      BY <1>2, <1>4, PageFacts
    <3> QED
      BY <2>1, <2>4, <3>1
  <2> QED
    BY <2>1, <2>3, <2>4, <2>5, <2>6
<1>8. ASSUME NEW T, NEW from, NEW to, Laid(ps, T, from, to) PROVE Laid(qs, T \cup ks, from, to)
  <2>1. /\ from \in [DOMAIN qs -> Cursors] /\ to \in [DOMAIN qs -> Cursors]
        /\ \A i \in DOMAIN qs : /\ from[i] <= to[i]
                                /\ qs[i].previous \in {from[i], NoCursor}
                                /\ qs[i].next \in {to[i], NoCursor}
        /\ \A i, j \in DOMAIN qs : i < j => to[i] <= from[j]
    BY <1>2, <1>5, <1>8 DEF Laid
  <2>2. ASSUME NEW i \in DOMAIN qs, NEW m \in DOMAIN qs[i].keys,
               qs[i].keys[m] \in (1..Records) \ (T \cup ks)
        PROVE  from[i] < qs[i].keys[m] /\ qs[i].keys[m] <= to[i]
    <3>0. Shortened(qs[i].keys, ps[i].keys, ks)
      BY <1>2, <1>3
    <3>1. PICK l \in DOMAIN ps[i].keys : ps[i].keys[l] = qs[i].keys[m]
      BY <3>0 DEF Shortened
    <3> QED
      BY <1>2, <1>8, <2>2, <3>1 DEF Laid
  <2>3. ASSUME NEW i \in DOMAIN qs, NEW m \in DOMAIN qs[i].keys, NEW n \in DOMAIN qs[i].keys,
               m < n, {qs[i].keys[m], qs[i].keys[n]} \subseteq (1..Records) \ (T \cup ks)
        PROVE  qs[i].keys[m] < qs[i].keys[n]
    <3>0. Shortened(qs[i].keys, ps[i].keys, ks)
      BY <1>2, <1>3
    <3>1. PICK g \in [DOMAIN qs[i].keys -> DOMAIN ps[i].keys] :
            /\ \A l \in DOMAIN qs[i].keys : qs[i].keys[l] = ps[i].keys[g[l]]
            /\ \A l, o \in DOMAIN qs[i].keys : l < o => g[l] < g[o]
      BY <3>0 DEF Shortened
    <3>2. /\ g[m] \in DOMAIN ps[i].keys /\ g[n] \in DOMAIN ps[i].keys /\ g[m] < g[n]
          /\ qs[i].keys[m] = ps[i].keys[g[m]] /\ qs[i].keys[n] = ps[i].keys[g[n]]
      BY <2>3, <3>1
    <3>3. {ps[i].keys[g[m]], ps[i].keys[g[n]]} \subseteq (1..Records) \ T
      BY <2>3, <3>2
    <3> QED
      BY <1>2, <1>8, <3>2, <3>3 DEF Laid
  <2>4. ASSUME NEW k \in (1..Records) \ (T \cup ks), NEW i \in DOMAIN qs, NEW j \in DOMAIN qs,
               from[i] < k, k <= to[j]
        PROVE  k \in Held(qs)
    <3>1. k \in Held(ps)
      BY <1>2, <1>8, <2>4 DEF Laid
    <3> QED
      BY <1>6, <3>1
  <2> QED
    BY <2>1, <2>2, <2>3, <2>4 DEF Laid
<1> QED
  BY <1>4, <1>5, <1>6, <1>7, <1>8 DEF qs

\* f applies the step n times to v.
Iterates(f, V, step, v, n) ==
  f \in [0..n -> V] /\ f[0] = v /\ \A m \in 1..n : f[m] = step[f[m - 1]]

\* A function can be applied any number of times.
LEMMA IterationExists ==
  ASSUME NEW V, NEW step \in [V -> V], NEW v \in V, NEW N \in Nat
  PROVE  \E f : Iterates(f, V, step, v, N)
PROOF
<1> DEFINE Works(f, n) == f \in [0..n -> V] /\ f[0] = v /\ \A m \in 1..n : f[m] = step[f[m - 1]]
           Bad == {n \in Nat : ~\E f : Works(f, n)}
<1>1. SUFFICES ASSUME Bad # {} PROVE FALSE
  <2>1. N \notin Bad
    BY <1>1
  <2>2. PICK f : Works(f, N)
    BY <2>1
  <2> QED
    BY <2>2 DEF Iterates
<1>2. PICK n \in Bad : \A m \in Bad : n <= m
  <2>1. Bad \in SUBSET Nat
    OBVIOUS
  <2> HIDE DEF Bad
  <2> QED
    BY <1>1, <2>1, LeastNumber
<1>3. n # 0
  <2>1. Works([i \in 0..0 |-> v], 0)
    OBVIOUS
  <2> QED
    BY <1>2, <2>1
<1>4. n \in Nat /\ n - 1 \in Nat /\ n - 1 \notin Bad
  <2>1. n \in Nat
    OBVIOUS
  <2> HIDE DEF Bad
  <2> QED
    BY <1>2, <1>3, <2>1
<1>5. PICK f : Works(f, n - 1)
  BY <1>4
<1> DEFINE g == [i \in 0..n |-> IF i < n THEN f[i] ELSE step[f[n - 1]]]
<1>6. \A i \in 0..(n - 1) : f[i] \in V /\ g[i] = f[i]
  BY <1>4, <1>5
<1>7. n - 1 \in 0..(n - 1) /\ n \in 0..n /\ 0 \in 0..(n - 1)
  BY <1>4
<1>8. g[n] = step[f[n - 1]] /\ g[n] = step[g[n - 1]] /\ g[n] \in V
  <2>1. g[n - 1] = f[n - 1] /\ f[n - 1] \in V
    BY <1>6, <1>7
  <2>2. g[n] = step[f[n - 1]]
    BY <1>4, <1>7
  <2> HIDE DEF g
  <2> QED
    BY <2>1, <2>2
<1>9. \A i \in 0..n : i \in 0..(n - 1) \/ i = n
  BY <1>4
<1>10. g \in [0..n -> V]
  BY <1>6, <1>8, <1>9
<1> HIDE DEF g
<1>11. ASSUME NEW m \in 1..n PROVE g[m] = step[g[m - 1]]
  <2>1. m = n \/ (m \in 1..(n - 1) /\ m \in 0..(n - 1) /\ m - 1 \in 0..(n - 1))
    BY <1>4
  <2>2. CASE m = n
    BY <1>8, <2>2
  <2>3. CASE m \in 1..(n - 1) /\ m \in 0..(n - 1) /\ m - 1 \in 0..(n - 1)
    BY <1>5, <1>6, <2>3
  <2> QED
    BY <2>1, <2>2, <2>3
<1>12. Works(g, n)
  BY <1>5, <1>6, <1>7, <1>10, <1>11
<1> QED
  BY <1>2, <1>12

LaidOut(ps, T) == \E from, to : Laid(ps, T, from, to)

\* The anchor is held, or else k at the end that was loaded.
Rooted(ps, e, a, k) ==
  \/ a \in Held(ps)
  \/ \E i \in DOMAIN ps : /\ i = (IF e = "previous" THEN 1 ELSE Len(ps))
                          /\ \E m \in DOMAIN ps[i].keys : ps[i].keys[m] = k

\* What eviction keeps of pages ps in qs.
Remains(qs, ps, e, a) ==
  /\ qs \in Seq(Page) /\ (qs = <<>> <=> ps = <<>>)
  /\ Held(qs) \subseteq Held(ps) /\ (Once(ps) => Once(qs))
  /\ \A T : LaidOut(ps, T) => LaidOut(qs, T)
  /\ \A k : Rooted(ps, e, a, k) => Rooted(qs, e, a, k)

\* Pruning keeps all that eviction keeps.
LEMMA PrunedRemains ==
  ASSUME NEW ps \in Seq(Page), NEW e, NEW a
  PROVE  Remains(PruneEmptyInterior(ps), ps, e, a)
PROOF
<1> DEFINE qs == PruneEmptyInterior(ps)
<1>1. /\ qs \in Seq(Page) /\ Held(qs) = Held(ps) /\ (ps = <<>> <=> qs = <<>>)
      /\ \E f : Among(qs, ps, f) /\ (ps # <<>> => f[1] = 1 /\ f[Len(qs)] = Len(ps))
  BY PrunedFacts
<1> HIDE DEF qs
<1>2. PICK f : Among(qs, ps, f) /\ (ps # <<>> => f[1] = 1 /\ f[Len(qs)] = Len(ps))
  BY <1>1
<1>3. Once(ps) => Once(qs)
  BY <1>1, <1>2, AmongOnce
<1>4. ASSUME NEW T, LaidOut(ps, T) PROVE LaidOut(qs, T)
  <2>1. PICK from, to : Laid(ps, T, from, to)
    BY <1>4 DEF LaidOut
  <2> QED
    BY <1>1, <1>2, <2>1, AmongLaid DEF LaidOut
<1>5. ASSUME NEW k, Rooted(ps, e, a, k) PROVE Rooted(qs, e, a, k)
  <2>1. CASE a \in Held(ps)
    BY <1>1, <2>1 DEF Rooted
  <2>2. CASE a \notin Held(ps)
    <3>1. PICK i \in DOMAIN ps : /\ i = (IF e = "previous" THEN 1 ELSE Len(ps))
                                 /\ \E m \in DOMAIN ps[i].keys : ps[i].keys[m] = k
      BY <1>5, <2>2 DEF Rooted
    <3>2. ps # <<>> /\ qs # <<>>
      BY <1>1, <3>1
    <3>3. Len(qs) \in Nat \ {0} /\ DOMAIN qs = 1..Len(qs)
      BY <1>1, <3>2, EmptySeq, PageFacts
    <3> DEFINE j == IF e = "previous" THEN 1 ELSE Len(qs)
    <3>4. j \in DOMAIN qs /\ f[j] = i
      BY <1>2, <3>1, <3>2, <3>3
    <3>5. qs[j] = ps[i]
      BY <1>2, <3>4 DEF Among
    <3> QED
      BY <3>1, <3>4, <3>5 DEF Rooted
  <2> QED
    BY <2>1, <2>2
<1> QED
  BY <1>1, <1>3, <1>4, <1>5 DEF Remains, qs

\* One turn of evict's loop: a page less, or the budget is kept.
LEMMA TrimmedFacts ==
  ASSUME NEW ps \in Seq(Page), NEW e, NEW a
  PROVE  LET qs == Trimmed(ps, e, a) IN
         /\ Remains(qs, ps, e, a)
         /\ IF OverBudget(ps) THEN Len(qs) = Len(ps) - 1 ELSE qs = ps
PROOF
<1> DEFINE qs == Trimmed(ps, e, a)
<1>1. CASE ~OverBudget(ps)
  <2>1. qs = ps
    BY <1>1 DEF Trimmed
  <2> QED
    BY <1>1, <2>1 DEF Remains
<1>2. CASE OverBudget(ps)
  <2>1. DOMAIN ps = 1..Len(ps) /\ Len(ps) \in Nat /\ Len(ps) > 1 /\ ps # <<>>
    BY <1>2, PageFacts DEF OverBudget
  <2> DEFINE d == IF EvictionEdge(ps, e, a) = "previous" THEN 1 ELSE 0
             f == [i \in 1..(Len(ps) - 1) |-> i + d]
  <2>2. /\ qs \in Seq(Page) /\ Len(qs) = Len(ps) - 1
        /\ \A i \in 1..(Len(ps) - 1) : qs[i] = ps[i + d]
    <3>1. CASE EvictionEdge(ps, e, a) = "previous"
      <4>1. qs = Tail(ps)
        BY <1>2, <3>1 DEF Trimmed
      <4> QED
        BY <2>1, <3>1, <4>1, HeadTailProperties
    <3>2. CASE EvictionEdge(ps, e, a) # "previous"
      <4>1. qs = SubSeq(ps, 1, Len(ps) - 1)
        BY <1>2, <3>2 DEF Trimmed
      <4>2. \A i \in 1..(Len(ps) - 1) : ps[i] \in Page
        BY <2>1, PageFacts
      <4>3. /\ qs \in Seq(Page) /\ Len(qs) = Len(ps) - 1
            /\ \A i \in 1..((Len(ps) - 1) - 1 + 1) : qs[i] = ps[1 + i - 1]
        BY <2>1, <4>1, <4>2, SubSeqProperties
      <4> QED
        BY <2>1, <3>2, <4>3
    <3> QED
      BY <3>1, <3>2
  <2> HIDE DEF qs
  <2>3. d \in 0..1 /\ DOMAIN qs = 1..(Len(ps) - 1)
    BY <2>2, PageFacts
  <2>4. Among(qs, ps, f)
    <3> HIDE DEF d
    <3> QED
      BY <2>1, <2>2, <2>3 DEF Among
  <2>5. Held(qs) \subseteq Held(ps) /\ (Once(ps) => Once(qs))
    BY <2>2, <2>4, AmongOnce
  <2>6. ASSUME NEW T, LaidOut(ps, T) PROVE LaidOut(qs, T)
    <3>1. PICK from, to : Laid(ps, T, from, to)
      BY <2>6 DEF LaidOut
    <3>2. ASSUME NEW k \in Held(ps), NEW i \in DOMAIN qs, NEW j \in DOMAIN qs,
                 k \in (1..Records) \ T, from[f[i]] < k, k <= to[f[j]]
          PROVE  k \in Held(qs)
      <4>1. PICK l \in DOMAIN ps : \E m \in DOMAIN ps[l].keys : ps[l].keys[m] = k
        BY PageFacts
      <4>2. from[l] < k /\ k <= to[l]
        BY <3>1, <3>2, <4>1 DEF Laid
      <4>3. /\ f[i] = i + d /\ f[j] = j + d /\ f[i] \in DOMAIN ps /\ f[j] \in DOMAIN ps
            /\ i \in 1..(Len(ps) - 1) /\ j \in 1..(Len(ps) - 1)
        BY <2>1, <2>3
      <4>4. \A n \in DOMAIN ps : from[n] \in Nat /\ to[n] \in Nat
        BY <3>1 DEF Laid, Cursors
      <4>5. k \in Nat
        BY <3>2
      <4>6. ~(l < f[i])
        <5>1. l < f[i] => to[l] <= from[f[i]]
          BY <3>1, <4>3 DEF Laid
        <5> HIDE DEF f
        <5> QED
          BY <3>2, <4>2, <4>3, <4>4, <4>5, <5>1
      <4>7. ~(f[j] < l)
        <5>1. f[j] < l => to[f[j]] <= from[l]
          BY <3>1, <4>3 DEF Laid
        <5> HIDE DEF f
        <5> QED
          BY <3>2, <4>2, <4>3, <4>4, <4>5, <5>1
      <4>8. l - d \in DOMAIN qs /\ f[l - d] = l
        <5> HIDE DEF d
        <5>1. l \in Nat /\ l - d \in 1..(Len(ps) - 1)
          BY <2>1, <2>3, <4>3, <4>6, <4>7
        <5> QED
          BY <2>3, <5>1
      <4>9. qs[l - d] = ps[l]
        BY <2>4, <4>8 DEF Among
      <4> QED
        BY <2>2, <4>1, <4>8, <4>9, PageFacts
    <3> HIDE DEF f, d
    <3>3. Laid(qs, T, [i \in DOMAIN qs |-> from[f[i]]], [i \in DOMAIN qs |-> to[f[i]]])
      BY <2>2, <2>4, <3>1, <3>2, AmongLaid
    <3> QED
      BY <3>3 DEF LaidOut
  <2>7. ASSUME NEW k, Rooted(ps, e, a, k) PROVE Rooted(qs, e, a, k)
    <3>1. \A i \in DOMAIN ps : i - d \in DOMAIN qs => qs[i - d] = ps[i]
      <4> HIDE DEF d
      <4> QED
        BY <2>1, <2>2, <2>3
    <3>2. CASE a \in Held(ps)
      <4>1. AnchorPages(ps, a) # {}
        BY <3>2, PageFacts DEF AnchorPages
      <4>2. PICK i \in AnchorPages(ps, a) :
              EvictionEdge(ps, e, a) = IF i - 1 = Len(ps) - 1 - (i - 1)
                                       THEN Opposite(e)
                                       ELSE IF i - 1 > Len(ps) - 1 - (i - 1) THEN "previous" ELSE "next"
        BY <4>1 DEF EvictionEdge
      <4>3. i \in DOMAIN ps /\ \E m \in DOMAIN ps[i].keys : ps[i].keys[m] = a
        BY <4>2 DEF AnchorPages
      <4>5. i - d \in DOMAIN qs
        <5>0. Len(ps) \in Nat
          BY <2>1
        <5>1. i \in Nat /\ i >= 1 /\ i <= Len(ps)
          BY <2>1, <4>3
        <5>2. CASE i = 1
          <6>1. ~(i - 1 = Len(ps) - 1 - (i - 1)) /\ ~(i - 1 > Len(ps) - 1 - (i - 1))
            BY <2>1, <5>1, <5>2
          <6>2. d = 0
            BY <4>2, <6>1
          <6> QED
            BY <2>1, <2>3, <5>2, <6>2
        <5>3. CASE i = Len(ps)
          <6>1. ~(i - 1 = Len(ps) - 1 - (i - 1)) /\ i - 1 > Len(ps) - 1 - (i - 1)
            BY <2>1, <5>3
          <6>2. d = 1
            BY <4>2, <6>1
          <6> QED
            BY <2>1, <2>3, <5>3, <6>2
        <5>4. CASE i # 1 /\ i # Len(ps)
          <6>1. i - 0 \in 1..(Len(ps) - 1) /\ i - 1 \in 1..(Len(ps) - 1)
            BY <5>0, <5>1, <5>4
          <6>2. d = 0 \/ d = 1
            OBVIOUS
          <6> HIDE DEF d
          <6> QED
            BY <2>3, <6>1, <6>2
        <5> QED
          BY <5>2, <5>3, <5>4
      <4>6. qs[i - d] = ps[i]
        BY <3>1, <4>3, <4>5
      <4>7. a \in Held(qs)
        BY <2>2, <4>3, <4>5, <4>6, PageFacts
      <4> QED
        BY <4>7 DEF Rooted
    <3>3. CASE a \notin Held(ps)
      <4>1. AnchorPages(ps, a) = {}
        BY <3>3, PageFacts DEF AnchorPages
      <4>2. EvictionEdge(ps, e, a) = Opposite(e)
        BY <4>1 DEF EvictionEdge
      <4>3. PICK i \in DOMAIN ps : /\ i = (IF e = "previous" THEN 1 ELSE Len(ps))
                                   /\ \E m \in DOMAIN ps[i].keys : ps[i].keys[m] = k
        BY <2>7, <3>3 DEF Rooted
      <4>4. /\ i - d = (IF e = "previous" THEN 1 ELSE Len(qs))
            /\ i - d \in DOMAIN qs
        <5>1. CASE e = "previous"
          <6>1. d = 0
            BY <4>2, <5>1 DEF Opposite
          <6> QED
            BY <2>1, <2>3, <4>3, <5>1, <6>1
        <5>2. CASE e # "previous"
          <6>1. d = 1
            BY <4>2, <5>2 DEF Opposite
          <6> QED
            BY <2>1, <2>2, <2>3, <4>3, <5>2, <6>1
        <5> QED
          BY <5>1, <5>2
      <4>5. qs[i - d] = ps[i]
        BY <3>1, <4>3, <4>4
      <4> HIDE DEF d
      <4> QED
        BY <4>3, <4>4, <4>5 DEF Rooted
    <3> QED
      BY <3>2, <3>3
  <2>8. qs # <<>>
    BY <2>1, <2>2
  <2> QED
    BY <1>2, <2>1, <2>2, <2>5, <2>6, <2>7, <2>8 DEF Remains, qs
<1> QED
  BY <1>1, <1>2

\* What two turns keep is kept by both together.
LEMMA RemainsAgain ==
  ASSUME NEW ps, NEW qs, NEW rs, NEW e, NEW a, Remains(qs, ps, e, a), Remains(rs, qs, e, a)
  PROVE  Remains(rs, ps, e, a)
BY DEF Remains

\* evict ends within the budget.
LEMMA EvictedFacts ==
  ASSUME NEW ps \in Seq(Page), NEW e, NEW a
  PROVE  Remains(Evicted(ps, e, a), ps, e, a) /\ ~OverBudget(Evicted(ps, e, a))
PROOF
<1> DEFINE kept == PruneEmptyInterior(ps)
           N == Len(kept)
           step == [qs \in Seq(Page) |-> Trimmed(qs, e, a)]
           rest[n \in 0..N] == IF n = 0 THEN kept ELSE Trimmed(rest[n - 1], e, a)
<1>1. Remains(kept, ps, e, a) /\ kept \in Seq(Page) /\ N \in Nat
  <2>1. Remains(kept, ps, e, a)
    BY PrunedRemains
  <2> HIDE DEF kept
  <2>2. kept \in Seq(Page)
    BY <2>1 DEF Remains
  <2> QED
    BY <2>1, <2>2, LenProperties
<1>2. Evicted(ps, e, a) = rest[N]
  BY DEF Evicted
<1> HIDE DEF kept, N
<1>3. step \in [Seq(Page) -> Seq(Page)]
  BY TrimmedFacts DEF Remains
<1>4. PICK f \in [0..N -> Seq(Page)] : f[0] = kept /\ \A n \in 1..N : f[n] = step[f[n - 1]]
  <2> DEFINE V == Seq(Page)
  <2>1. step \in [V -> V] /\ kept \in V /\ N \in Nat
    BY <1>1, <1>3
  <2> HIDE DEF step, V
  <2>2. \E f : Iterates(f, V, step, kept, N)
    BY <2>1, IterationExists
  <2> QED
    BY <2>2 DEF V, Iterates
<1>5. \A n \in 1..N : f[n - 1] \in Seq(Page) /\ f[n] = Trimmed(f[n - 1], e, a)
  <2>1. \A n \in 1..N : n - 1 \in 0..N
    BY <1>1
  <2>2. \A n \in 1..N : f[n - 1] \in Seq(Page) /\ f[n] = step[f[n - 1]]
    BY <1>4, <2>1
  <2> QED
    BY <2>2
<1>6. f = [n \in 0..N |-> IF n = 0 THEN kept ELSE Trimmed(f[n - 1], e, a)]
  <2>1. \A n \in 0..N : f[n] = IF n = 0 THEN kept ELSE Trimmed(f[n - 1], e, a)
    BY <1>1, <1>4, <1>5
  <2> QED
    BY <1>4, <2>1
<1>7. rest = [n \in 0..N |-> IF n = 0 THEN kept ELSE Trimmed(rest[n - 1], e, a)]
  BY <1>6
<1> HIDE DEF rest
<1>8. rest[0] = kept /\ \A n \in 1..N : n - 1 \in 0..N /\ rest[n] = Trimmed(rest[n - 1], e, a)
  BY <1>1, <1>7
<1> DEFINE Fits(n) == /\ Remains(rest[n], ps, e, a)
                      /\ OverBudget(rest[n]) => Len(rest[n]) <= N - n
           Bad == {n \in 0..N : ~Fits(n)}
<1>9. Bad = {}
  <2> SUFFICES ASSUME Bad # {} PROVE FALSE
    OBVIOUS
  <2>1. PICK n \in Bad : \A m \in Bad : n <= m
    <3>1. Bad \in SUBSET Nat
      BY <1>1
    <3> HIDE DEF Bad
    <3> QED
      BY <3>1, LeastNumber
  <2>2. n \in 0..N /\ ~Fits(n)
    BY <2>1
  <2>3. n # 0
    <3>1. Fits(0)
      <4>1. N <= N - 0
        BY <1>1
      <4> QED
        BY <1>1, <1>8, <4>1 DEF N
    <3> QED
      BY <2>2, <3>1
  <2>4. n \in 1..N /\ n - 1 \in 0..N
    BY <1>1, <2>2, <2>3
  <2>5. Fits(n - 1)
    <3>1. n - 1 \notin Bad
      <4> HIDE DEF Bad
      <4> QED
        BY <1>1, <2>1, <2>4
    <3> QED
      BY <2>4, <3>1
  <2>6. rest[n - 1] \in Seq(Page)
    BY <2>5 DEF Remains
  <2>7. /\ Remains(rest[n], rest[n - 1], e, a)
        /\ IF OverBudget(rest[n - 1]) THEN Len(rest[n]) = Len(rest[n - 1]) - 1
           ELSE rest[n] = rest[n - 1]
    BY <1>8, <2>4, <2>6, TrimmedFacts
  <2>8. Remains(rest[n], ps, e, a)
    BY <2>5, <2>7, RemainsAgain
  <2>9. ASSUME OverBudget(rest[n]) PROVE Len(rest[n]) <= N - n
    <3>1. OverBudget(rest[n - 1])
      BY <2>7, <2>9
    <3>2. Len(rest[n - 1]) <= N - (n - 1) /\ Len(rest[n]) = Len(rest[n - 1]) - 1
      BY <2>5, <2>7, <3>1
    <3>3. Len(rest[n - 1]) \in Nat
      BY <2>6, LenProperties
    <3> QED
      BY <1>1, <2>4, <3>2, <3>3
  <2> QED
    BY <2>2, <2>8, <2>9
<1>10. N \in 0..N /\ Fits(N)
  <2>1. N \in 0..N
    BY <1>1
  <2> HIDE DEF Fits
  <2>2. \A n \in 0..N : Fits(n)
    BY <1>9
  <2> QED
    BY <2>1, <2>2
<1>11. ~OverBudget(rest[N])
  <2>1. Len(rest[N]) \in Nat
    BY <1>10, LenProperties DEF Remains
  <2> SUFFICES ASSUME OverBudget(rest[N]) PROVE FALSE
    OBVIOUS
  <2>2. Len(rest[N]) <= N - N /\ Len(rest[N]) > 1
    BY <1>10 DEF OverBudget
  <2> QED
    BY <1>1, <2>1, <2>2
<1> QED
  BY <1>2, <1>10, <1>11

\* What is no longer touched must not be missing.
LEMMA TouchedLaid ==
  ASSUME NEW ps \in Seq(Page), NEW T, NEW from, NEW to, Laid(ps, T, from, to), NEW U,
         \A k \in T \ U : /\ k \notin Held(ps)
                          /\ \A i, j \in DOMAIN ps : ~(from[i] < k /\ k <= to[j])
  PROVE  Laid(ps, U, from, to)
PROOF
<1>1. ASSUME NEW i \in DOMAIN ps, NEW m \in DOMAIN ps[i].keys, ps[i].keys[m] \in (1..Records) \ U
      PROVE  ps[i].keys[m] \in (1..Records) \ T
  <2>1. ps[i].keys[m] \in Held(ps)
    BY PageFacts
  <2> QED
    BY <1>1, <2>1
<1>2. \A i \in DOMAIN ps : \A m \in DOMAIN ps[i].keys : ps[i].keys[m] \in (1..Records) \ U =>
        from[i] < ps[i].keys[m] /\ ps[i].keys[m] <= to[i]
  BY <1>1 DEF Laid
<1>3. ASSUME NEW i \in DOMAIN ps, NEW m \in DOMAIN ps[i].keys, NEW n \in DOMAIN ps[i].keys,
             m < n, {ps[i].keys[m], ps[i].keys[n]} \subseteq (1..Records) \ U
      PROVE  ps[i].keys[m] < ps[i].keys[n]
  <2>1. {ps[i].keys[m], ps[i].keys[n]} \subseteq (1..Records) \ T
    BY <1>1, <1>3
  <2> QED
    BY <1>3, <2>1 DEF Laid
<1>4. ASSUME NEW k \in (1..Records) \ U, NEW i \in DOMAIN ps, NEW j \in DOMAIN ps,
             from[i] < k, k <= to[j]
      PROVE  k \in Held(ps)
  BY <1>4 DEF Laid
<1>5. /\ from \in [DOMAIN ps -> Cursors] /\ to \in [DOMAIN ps -> Cursors]
      /\ \A i \in DOMAIN ps : /\ from[i] <= to[i]
                              /\ ps[i].previous \in {from[i], NoCursor}
                              /\ ps[i].next \in {to[i], NoCursor}
      /\ \A i, j \in DOMAIN ps : i < j => to[i] <= from[j]
  BY DEF Laid
<1> QED
  BY <1>2, <1>3, <1>4, <1>5 DEF Laid

\* A page of the provider.
LEMMA PartFacts ==
  ASSUME NEW a \in Cursors, NEW b \in Cursors, a <= b, NEW p, p = Part(a, b)
  PROVE  /\ p \in Page /\ <<p>> \in Seq(Page) /\ Once(<<p>>)
         /\ Held(<<p>>) = KeysOf(p) /\ KeysOf(p) = {k \in 1..Records : a < k /\ k <= b}
         /\ p.previous \in {a, NoCursor} /\ p.next \in {b, NoCursor}
         /\ p.previous \in Cursors \cup {NoCursor} /\ p.next \in Cursors \cup {NoCursor}
         /\ \A T : Laid(<<p>>, T, [i \in {1} |-> a], [i \in {1} |-> b])
PROOF
<1>0. Records \in Nat /\ a \in 0..Records /\ b \in 0..Records /\ a \in Nat /\ b \in Nat /\ b - a \in Nat
  BY CollectionAssumption DEF Cursors
<1> DEFINE s == [i \in 1..(b - a) |-> a + i]
<1>1. /\ p.keys = s /\ p.previous \in {a, NoCursor} /\ p.next \in {b, NoCursor}
      /\ p = [keys |-> p.keys, previous |-> p.previous, next |-> p.next]
  BY DEF Part
<1>2. \A i \in 1..(b - a) : a + i \in 1..Records /\ a < a + i /\ a + i <= b
  BY <1>0
<1>3. s \in Seq(ItemKeys) /\ DOMAIN s = 1..(b - a) /\ \A m \in DOMAIN s : s[m] = a + m
  <2>1. s \in [1..(b - a) -> ItemKeys]
    BY <1>2 DEF ItemKeys
  <2> QED
    BY <1>0, <2>1
<1> HIDE DEF s
<1>4. p.previous \in Cursors \cup {NoCursor} /\ p.next \in Cursors \cup {NoCursor}
  BY <1>1
<1>5. p \in Page
  BY <1>1, <1>3, <1>4 DEF Page
<1> DEFINE ps == <<p>>
<1>6. ps \in Seq(Page) /\ DOMAIN ps = {1} /\ ps[1] = p
  BY <1>5
<1> HIDE DEF ps
<1>7. KeysOf(p) = {k \in 1..Records : a < k /\ k <= b}
  <2>1. ASSUME NEW k \in KeysOf(p) PROVE k \in 1..Records /\ a < k /\ k <= b
    <3>1. PICK m \in DOMAIN s : k = s[m]
      BY <1>1, <2>1 DEF KeysOf
    <3> QED
      BY <1>2, <1>3, <3>1
  <2>2. ASSUME NEW k \in 1..Records, a < k, k <= b PROVE k \in KeysOf(p)
    <3>1. k - a \in 1..(b - a) /\ a + (k - a) = k
      BY <1>0, <2>2
    <3>2. k - a \in DOMAIN s /\ s[k - a] = k
      BY <1>3, <3>1
    <3> QED
      BY <1>1, <3>2 DEF KeysOf
  <2> QED
    BY <2>1, <2>2
<1>8. Held(ps) = KeysOf(p)
  BY <1>6, PageFacts DEF KeysOf
<1>9. Once(ps)
  <2>1. ASSUME NEW m \in DOMAIN s, NEW n \in DOMAIN s, s[m] = s[n] PROVE m = n
    <3>1. a + m = a + n /\ m \in Nat /\ n \in Nat
      BY <1>3, <2>1
    <3> QED
      BY <1>0, <3>1
  <2> QED
    BY <1>1, <1>6, <2>1 DEF Once
<1>10. ASSUME NEW T PROVE Laid(ps, T, [i \in {1} |-> a], [i \in {1} |-> b])
  <2> DEFINE from == [i \in {1} |-> a]
             to == [i \in {1} |-> b]
  <2>1. from \in [{1} -> Cursors] /\ to \in [{1} -> Cursors] /\ from[1] = a /\ to[1] = b
    OBVIOUS
  <2> HIDE DEF from, to
  <2>2. \A m \in DOMAIN p.keys : a < p.keys[m] /\ p.keys[m] <= b
    BY <1>1, <1>2, <1>3
  <2>3. \A m, n \in DOMAIN p.keys : m < n => p.keys[m] < p.keys[n]
    BY <1>0, <1>1, <1>3
  <2>4. \A k \in 1..Records : a < k /\ k <= b => k \in Held(ps)
    BY <1>7, <1>8
  <2> QED
    BY <1>0, <1>1, <1>6, <2>1, <2>2, <2>3, <2>4 DEF Laid, from, to
<1> QED
  BY <1>1, <1>4, <1>5, <1>6, <1>7, <1>8, <1>9, <1>10 DEF ps

\* Pages before others.
LEMMA JoinedFacts ==
  ASSUME NEW xs \in Seq(Page), NEW ys \in Seq(Page)
  PROVE  LET qs == xs \o ys IN
         /\ qs \in Seq(Page) /\ Held(qs) = Held(xs) \cup Held(ys)
         /\ Len(qs) = Len(xs) + Len(ys)
         /\ Once(xs) /\ Once(ys) /\ Held(xs) \cap Held(ys) = {} => Once(qs)
         /\ \A T, bx, ex, by, ey :
              /\ Laid(xs, T, bx, ex) /\ Laid(ys, T, by, ey)
              /\ xs # <<>> /\ ys # <<>> /\ ex[Len(xs)] = by[1]
              => LaidOut(qs, T)
PROOF
<1> DEFINE qs == xs \o ys
<1>1. /\ DOMAIN xs = 1..Len(xs) /\ Len(xs) \in Nat /\ DOMAIN ys = 1..Len(ys) /\ Len(ys) \in Nat
  BY PageFacts
<1>2. /\ qs \in Seq(Page) /\ Len(qs) = Len(xs) + Len(ys)
      /\ \A i \in 1..(Len(xs) + Len(ys)) : qs[i] = IF i <= Len(xs) THEN xs[i] ELSE ys[i - Len(xs)]
  BY ConcatProperties
<1> HIDE DEF qs
<1>3. DOMAIN qs = 1..(Len(xs) + Len(ys))
  BY <1>2, LenProperties
<1>4. \A i \in DOMAIN xs : i \in DOMAIN qs /\ qs[i] = xs[i]
  BY <1>1, <1>2, <1>3
<1>5. \A i \in DOMAIN ys : i + Len(xs) \in DOMAIN qs /\ qs[i + Len(xs)] = ys[i]
  BY <1>1, <1>2, <1>3
<1>6. ASSUME NEW i \in DOMAIN qs
      PROVE  \/ i \in DOMAIN xs /\ qs[i] = xs[i]
             \/ i > Len(xs) /\ i - Len(xs) \in DOMAIN ys /\ qs[i] = ys[i - Len(xs)]
  BY <1>1, <1>2, <1>3
<1>7. Held(qs) = Held(xs) \cup Held(ys)
  <2>1. ASSUME NEW k \in Held(qs) PROVE k \in Held(xs) \cup Held(ys)
    <3>1. PICK i \in DOMAIN qs : \E m \in DOMAIN qs[i].keys : qs[i].keys[m] = k
      BY <1>2, PageFacts
    <3>2. CASE i \in DOMAIN xs /\ qs[i] = xs[i]
      BY <3>1, <3>2, PageFacts
    <3>3. CASE i - Len(xs) \in DOMAIN ys /\ qs[i] = ys[i - Len(xs)]
      BY <3>1, <3>3, PageFacts
    <3> QED
      BY <1>6, <3>2, <3>3
  <2>2. ASSUME NEW k \in Held(xs) PROVE k \in Held(qs)
    <3>1. PICK i \in DOMAIN xs : \E m \in DOMAIN xs[i].keys : xs[i].keys[m] = k
      BY PageFacts
    <3>2. i \in DOMAIN qs /\ qs[i] = xs[i]
      BY <1>4
    <3> QED
      BY <1>2, <3>1, <3>2, PageFacts
  <2>3. ASSUME NEW k \in Held(ys) PROVE k \in Held(qs)
    <3>1. PICK i \in DOMAIN ys : \E m \in DOMAIN ys[i].keys : ys[i].keys[m] = k
      BY PageFacts
    <3>2. i + Len(xs) \in DOMAIN qs /\ qs[i + Len(xs)] = ys[i]
      BY <1>5
    <3> QED
      BY <1>2, <3>1, <3>2, PageFacts
  <2> QED
    BY <2>1, <2>2, <2>3
<1>8. ASSUME Once(xs), Once(ys), Held(xs) \cap Held(ys) = {} PROVE Once(qs)
  <2> SUFFICES ASSUME NEW i \in DOMAIN qs, NEW j \in DOMAIN qs,
                      NEW m \in DOMAIN qs[i].keys, NEW n \in DOMAIN qs[j].keys,
                      qs[i].keys[m] = qs[j].keys[n]
               PROVE  i = j /\ m = n
    BY DEF Once
  <2>1. i \in DOMAIN xs /\ qs[i] = xs[i] => qs[i].keys[m] \in Held(xs)
    BY PageFacts
  <2>2. j \in DOMAIN xs /\ qs[j] = xs[j] => qs[j].keys[n] \in Held(xs)
    BY PageFacts
  <2>3. i - Len(xs) \in DOMAIN ys /\ qs[i] = ys[i - Len(xs)] => qs[i].keys[m] \in Held(ys)
    BY PageFacts
  <2>4. j - Len(xs) \in DOMAIN ys /\ qs[j] = ys[j - Len(xs)] => qs[j].keys[n] \in Held(ys)
    BY PageFacts
  <2>5. CASE i \in DOMAIN xs /\ qs[i] = xs[i]
    <3>1. j \in DOMAIN xs /\ qs[j] = xs[j]
      BY <1>6, <1>8, <2>1, <2>4, <2>5
    <3> QED
      BY <1>8, <2>5, <3>1 DEF Once
  <2>6. CASE i - Len(xs) \in DOMAIN ys /\ qs[i] = ys[i - Len(xs)]
    <3>1. j - Len(xs) \in DOMAIN ys /\ qs[j] = ys[j - Len(xs)]
      BY <1>6, <1>8, <2>2, <2>3, <2>6
    <3>2. i - Len(xs) = j - Len(xs) /\ m = n
      BY <1>8, <2>6, <3>1 DEF Once
    <3> QED
      BY <1>1, <1>3, <3>2
  <2> QED
    BY <1>6, <2>5, <2>6
<1>9. ASSUME NEW T, NEW bx, NEW ex, NEW by, NEW ey, Laid(xs, T, bx, ex), Laid(ys, T, by, ey),
             xs # <<>>, ys # <<>>, ex[Len(xs)] = by[1]
      PROVE  LaidOut(qs, T)
  <2>0. Len(xs) >= 1 /\ Len(ys) >= 1
    BY <1>1, <1>9, EmptySeq
  <2> DEFINE from == [i \in DOMAIN qs |-> IF i <= Len(xs) THEN bx[i] ELSE by[i - Len(xs)]]
             to == [i \in DOMAIN qs |-> IF i <= Len(xs) THEN ex[i] ELSE ey[i - Len(xs)]]
             Left(i) == i \in DOMAIN xs /\ qs[i] = xs[i] /\ from[i] = bx[i] /\ to[i] = ex[i]
             Right(i) == /\ i > Len(xs) /\ i - Len(xs) \in DOMAIN ys /\ qs[i] = ys[i - Len(xs)]
                         /\ from[i] = by[i - Len(xs)] /\ to[i] = ey[i - Len(xs)]
  <2>1. ASSUME NEW i \in DOMAIN qs PROVE Left(i) \/ Right(i)
    <3>1. CASE i \in DOMAIN xs /\ qs[i] = xs[i]
      BY <1>1, <3>1
    <3>2. CASE i > Len(xs) /\ i - Len(xs) \in DOMAIN ys /\ qs[i] = ys[i - Len(xs)]
      BY <1>1, <1>3, <3>2
    <3> QED
      BY <1>6, <3>1, <3>2
  <2>2. from = [i \in DOMAIN qs |-> from[i]] /\ to = [i \in DOMAIN qs |-> to[i]]
    OBVIOUS
  <2> HIDE DEF from, to
  <2>3. /\ \A i \in DOMAIN xs : bx[i] \in Cursors /\ ex[i] \in Cursors
        /\ \A i \in DOMAIN ys : by[i] \in Cursors /\ ey[i] \in Cursors
    BY <1>9 DEF Laid
  <2>4. \A i \in DOMAIN qs : from[i] \in Cursors /\ to[i] \in Cursors
    BY <2>1, <2>3
  <2>5. from \in [DOMAIN qs -> Cursors] /\ to \in [DOMAIN qs -> Cursors]
    BY <2>2, <2>4
  <2>6. ASSUME NEW i \in DOMAIN qs
        PROVE  /\ from[i] <= to[i]
               /\ qs[i].previous \in {from[i], NoCursor}
               /\ qs[i].next \in {to[i], NoCursor}
    BY <1>9, <2>1 DEF Laid
  <2>7. /\ \A i \in DOMAIN xs : bx[i] \in Nat /\ ex[i] \in Nat
        /\ \A i \in DOMAIN ys : by[i] \in Nat /\ ey[i] \in Nat
    <3>1. \A c \in Cursors : c \in Nat
      BY CollectionAssumption DEF Cursors
    <3> QED
      BY <2>3, <3>1
  <2>8. \A i \in DOMAIN xs : ex[i] <= by[1]
    <3>1. Len(xs) \in DOMAIN xs
      BY <1>1, <2>0
    <3>2. ASSUME NEW i \in DOMAIN xs, i # Len(xs) PROVE ex[i] <= ex[Len(xs)]
      <4>1. i < Len(xs)
        BY <1>1, <3>2
      <4>2. ex[i] <= bx[Len(xs)] /\ bx[Len(xs)] <= ex[Len(xs)]
        BY <1>9, <3>1, <4>1 DEF Laid
      <4> QED
        BY <2>7, <3>1, <4>2
    <3> QED
      BY <1>9, <2>7, <3>1, <3>2
  <2>9. \A i \in DOMAIN ys : by[1] <= by[i]
    <3>1. 1 \in DOMAIN ys
      BY <1>1, <2>0
    <3>2. ASSUME NEW i \in DOMAIN ys, i # 1 PROVE by[1] <= by[i]
      <4>1. 1 < i
        BY <1>1, <3>2
      <4>2. by[1] <= ey[1] /\ ey[1] <= by[i]
        BY <1>9, <3>1, <4>1 DEF Laid
      <4> QED
        BY <2>7, <3>1, <4>2
    <3> QED
      BY <2>7, <3>1, <3>2
  <2>10. ASSUME NEW i \in DOMAIN qs, NEW j \in DOMAIN qs, i < j PROVE to[i] <= from[j]
    <3>0. i \in Nat /\ j \in Nat
      BY <1>3
    <3>1. CASE Left(i) /\ Left(j)
      BY <1>9, <2>10, <3>1 DEF Laid
    <3>2. CASE Left(i) /\ Right(j)
      <4>1. ex[i] <= by[1] /\ by[1] <= by[j - Len(xs)]
        BY <2>8, <2>9, <3>2
      <4>2. 1 \in DOMAIN ys
        BY <1>1, <2>0
      <4>3. ex[i] \in Nat /\ by[1] \in Nat /\ by[j - Len(xs)] \in Nat
        BY <2>7, <3>2, <4>2
      <4> QED
        BY <3>2, <4>1, <4>3
    <3>3. CASE Right(i) /\ Right(j)
      <4>1. i - Len(xs) < j - Len(xs)
        BY <1>1, <2>10, <3>0
      <4> QED
        BY <1>9, <3>3, <4>1 DEF Laid
    <3>4. CASE Right(i) /\ Left(j)
      BY <1>1, <2>10, <3>0, <3>4
    <3> QED
      BY <2>1, <3>1, <3>2, <3>3, <3>4
  <2>11. ASSUME NEW i \in DOMAIN qs, NEW m \in DOMAIN qs[i].keys, qs[i].keys[m] \in (1..Records) \ T
         PROVE  from[i] < qs[i].keys[m] /\ qs[i].keys[m] <= to[i]
    <3>1. CASE Left(i)
      BY <1>9, <2>11, <3>1 DEF Laid
    <3>2. CASE Right(i)
      BY <1>9, <2>11, <3>2 DEF Laid
    <3> QED
      BY <2>1, <3>1, <3>2
  <2>12. ASSUME NEW i \in DOMAIN qs, NEW m \in DOMAIN qs[i].keys, NEW n \in DOMAIN qs[i].keys,
                m < n, {qs[i].keys[m], qs[i].keys[n]} \subseteq (1..Records) \ T
         PROVE  qs[i].keys[m] < qs[i].keys[n]
    <3>1. CASE Left(i)
      BY <1>9, <2>12, <3>1 DEF Laid
    <3>2. CASE Right(i)
      BY <1>9, <2>12, <3>2 DEF Laid
    <3> QED
      BY <2>1, <3>1, <3>2
  <2>13. ASSUME NEW k \in (1..Records) \ T, NEW i \in DOMAIN qs, NEW j \in DOMAIN qs,
                from[i] < k, k <= to[j]
         PROVE  k \in Held(qs)
    <3>1. CASE Left(i) /\ Left(j)
      <4>1. k \in Held(xs)
        BY <1>9, <2>13, <3>1 DEF Laid
      <4> QED
        BY <1>7, <4>1
    <3>2. CASE Right(i) /\ Right(j)
      <4>1. k \in Held(ys)
        BY <1>9, <2>13, <3>2 DEF Laid
      <4> QED
        BY <1>7, <4>1
    <3>3. CASE Left(i) /\ Right(j)
      <4>0. Len(xs) \in DOMAIN xs /\ 1 \in DOMAIN ys /\ k \in Nat /\ by[1] \in Nat
        BY <1>1, <2>0, <2>7
      <4>1. CASE k <= by[1]
        <5>1. k \in Held(xs)
          BY <1>9, <2>13, <3>3, <4>0, <4>1 DEF Laid
        <5> QED
          BY <1>7, <5>1
      <4>2. CASE by[1] < k
        <5>1. k \in Held(ys)
          BY <1>9, <2>13, <3>3, <4>0, <4>2 DEF Laid
        <5> QED
          BY <1>7, <5>1
      <4> QED
        BY <4>0, <4>1, <4>2
    <3>4. CASE Right(i) /\ Left(j)
      <4>1. ex[j] <= by[1] /\ by[1] <= by[i - Len(xs)] /\ by[i - Len(xs)] < k /\ k <= ex[j]
        BY <2>8, <2>9, <2>13, <3>4
      <4>2. 1 \in DOMAIN ys
        BY <1>1, <2>0
      <4>3. ex[j] \in Nat /\ by[1] \in Nat /\ by[i - Len(xs)] \in Nat /\ k \in Nat
        BY <2>7, <3>4, <4>2
      <4> QED
        BY <4>1, <4>3
    <3> QED
      BY <2>1, <3>1, <3>2, <3>3, <3>4
  <2>14. Laid(qs, T, from, to)
    BY <2>5, <2>6, <2>10, <2>11, <2>12, <2>13 DEF Laid
  <2> QED
    BY <2>14 DEF LaidOut
<1> QED
  BY <1>2, <1>7, <1>8, <1>9 DEF qs

\* A page that was loaded goes with those that are held; items that come again move to it.
LEMMA MergedFacts ==
  ASSUME pages \in Seq(Page), NEW a \in Cursors, NEW b \in Cursors, a <= b,
         NEW p, p = Part(a, b), NEW d \in Directions
  PROVE  LET ms == Merged(d, p) IN
         /\ ms \in Seq(Page) /\ ms # <<>> /\ (Once(pages) => Once(ms))
         /\ d \notin Edges => \A T : LaidOut(ms, T)
         /\ d = "next" /\ EdgeCursor(pages, "next") = a
            => \A T : LaidOut(pages, T) => LaidOut(ms, T \ KeysOf(p))
         /\ d = "previous" /\ EdgeCursor(pages, "previous") = b
            => \A T : LaidOut(pages, T) => LaidOut(ms, T \ KeysOf(p))
PROOF
<1> DEFINE ks == KeysOf(p)
           others == RemoveKeys(pages, ks)
           one == <<p>>
           ms == Merged(d, p)
           bp == [i \in {1} |-> a]
           ep == [i \in {1} |-> b]
<1>0. Records \in Nat /\ (\A c \in Cursors : c \in Nat /\ c # NoCursor) /\ a \in Nat /\ b \in Nat
  BY CollectionAssumption DEF Cursors, NoCursor
<1>1. /\ one \in Seq(Page) /\ Once(one) /\ Held(one) = ks
      /\ ks = {k \in 1..Records : a < k /\ k <= b}
      /\ \A T : Laid(one, T, bp, ep)
      /\ one # <<>> /\ Len(one) = 1
      /\ bp[1] = a /\ ep[1] = b
  BY PartFacts
<1>2. /\ others \in Seq(Page) /\ Len(others) = Len(pages)
      /\ Held(others) = Held(pages) \ ks
      /\ Once(pages) => Once(others)
      /\ \A T, from, to : Laid(pages, T, from, to) => Laid(others, T \cup ks, from, to)
  BY RemovedFacts
<1>3. ms = (CASE d = "next" -> Append(others, p) [] d = "previous" -> one \o others [] OTHER -> one)
  BY DEF Merged
<1>4. p \in Page
  BY PartFacts
<1>5. Append(others, p) = others \o one
  <2> HIDE DEF others
  <2> QED
    BY <1>2, <1>4, AppendIsConcat
<1> HIDE DEF others, one, ms, bp, ep, ks
<1>6. CASE d = "next"
  <2>1. ms = others \o one
    BY <1>3, <1>5, <1>6
  <2>2. /\ ms \in Seq(Page) /\ Len(ms) = Len(others) + Len(one)
        /\ Once(others) /\ Once(one) /\ Held(others) \cap Held(one) = {} => Once(ms)
        /\ \A T, bx, ex, by, ey :
              /\ Laid(others, T, bx, ex) /\ Laid(one, T, by, ey)
              /\ others # <<>> /\ one # <<>> /\ ex[Len(others)] = by[1]
              => LaidOut(ms, T)
    BY <1>1, <1>2, <2>1, JoinedFacts
  <2>3. ms # <<>>
    <3>1. Len(others) \in Nat
      BY <1>2, LenProperties
    <3>2. Len(ms) # 0
      BY <1>1, <2>2, <3>1
    <3> QED
      BY <3>2
  <2>4. ASSUME EdgeCursor(pages, "next") = a, NEW T, LaidOut(pages, T) PROVE LaidOut(ms, T \ ks)
    <3>1. pages # <<>> /\ pages[Len(pages)].next = a
      BY <1>0, <2>4 DEF EdgeCursor
    <3>2. PICK from, to : Laid(pages, T, from, to)
      BY <2>4 DEF LaidOut
    <3>3. DOMAIN pages = 1..Len(pages) /\ Len(pages) \in Nat /\ Len(pages) >= 1
      BY <3>1, PageFacts, EmptySeq
    <3>4. to[Len(pages)] = a
      <4>1. Len(pages) \in DOMAIN pages
        BY <3>3
      <4> QED
        BY <1>0, <3>1, <3>2, <4>1 DEF Laid
    <3>5. Laid(others, T \cup ks, from, to)
      BY <1>2, <3>2
    <3>6. others # <<>> /\ DOMAIN others = DOMAIN pages
      <4>1. DOMAIN others = 1..Len(others)
        BY <1>2, PageFacts
      <4> QED
        BY <1>2, <3>3, <4>1
    <3>7. \A j \in DOMAIN pages : to[j] <= a
      <4>1. \A j \in DOMAIN pages : from[j] \in Nat /\ to[j] \in Nat
        BY <1>0, <3>2 DEF Laid
      <4>2. ASSUME NEW j \in DOMAIN pages, j # Len(pages) PROVE to[j] <= a
        <5>1. j < Len(pages) /\ Len(pages) \in DOMAIN pages
          BY <3>3, <4>2
        <5>2. to[j] <= from[Len(pages)] /\ from[Len(pages)] <= to[Len(pages)]
          BY <3>2, <5>1 DEF Laid
        <5> QED
          BY <3>4, <4>1, <5>1, <5>2
      <4> QED
        BY <1>0, <3>4, <4>2
    <3>8. ASSUME NEW k \in (T \cup ks) \ (T \ ks)
          PROVE  /\ k \notin Held(others)
                 /\ \A i, j \in DOMAIN others : ~(from[i] < k /\ k <= to[j])
      <4>1. k \in ks /\ k \in Nat /\ a < k
        BY <1>1, <3>8
      <4>2. \A j \in DOMAIN pages : to[j] \in Nat
        BY <1>0, <3>2 DEF Laid
      <4>3. \A j \in DOMAIN pages : ~(k <= to[j])
        BY <1>0, <3>7, <4>1, <4>2
      <4> QED
        BY <1>2, <3>6, <4>1, <4>3
    <3>9. Laid(others, T \ ks, from, to)
      BY <1>2, <3>5, <3>8, TouchedLaid
    <3>10. Laid(one, T \ ks, bp, ep) /\ to[Len(others)] = bp[1]
      BY <1>1, <1>2, <3>4
    <3> QED
      BY <1>1, <2>2, <3>6, <3>9, <3>10
  <2>5. Once(pages) => Once(ms)
    BY <1>1, <1>2, <2>2
  <2> QED
    BY <1>6, <2>2, <2>3, <2>4, <2>5 DEF ms, ks, Edges
<1>7. CASE d = "previous"
  <2>1. ms = one \o others
    BY <1>3, <1>7
  <2>2. /\ ms \in Seq(Page) /\ Len(ms) = Len(one) + Len(others)
        /\ Once(one) /\ Once(others) /\ Held(one) \cap Held(others) = {} => Once(ms)
        /\ \A T, bx, ex, by, ey :
              /\ Laid(one, T, bx, ex) /\ Laid(others, T, by, ey)
              /\ one # <<>> /\ others # <<>> /\ ex[Len(one)] = by[1]
              => LaidOut(ms, T)
    BY <1>1, <1>2, <2>1, JoinedFacts
  <2>3. ms # <<>>
    <3>1. Len(others) \in Nat
      BY <1>2, LenProperties
    <3>2. Len(ms) # 0
      BY <1>1, <2>2, <3>1
    <3> QED
      BY <3>2
  <2>4. ASSUME EdgeCursor(pages, "previous") = b, NEW T, LaidOut(pages, T) PROVE LaidOut(ms, T \ ks)
    <3>1. pages # <<>> /\ Head(pages).previous = b
      BY <1>0, <2>4 DEF EdgeCursor
    <3>2. PICK from, to : Laid(pages, T, from, to)
      BY <2>4 DEF LaidOut
    <3>3. DOMAIN pages = 1..Len(pages) /\ Len(pages) \in Nat /\ Len(pages) >= 1
      BY <3>1, PageFacts, EmptySeq
    <3>4. from[1] = b
      <4>1. 1 \in DOMAIN pages /\ Head(pages) = pages[1]
        BY <3>1, <3>3
      <4> QED
        BY <1>0, <3>1, <3>2, <4>1 DEF Laid
    <3>5. Laid(others, T \cup ks, from, to)
      BY <1>2, <3>2
    <3>6. others # <<>> /\ DOMAIN others = DOMAIN pages
      <4>1. DOMAIN others = 1..Len(others)
        BY <1>2, PageFacts
      <4> QED
        BY <1>2, <3>3, <4>1
    <3>7. \A j \in DOMAIN pages : b <= from[j]
      <4>1. \A j \in DOMAIN pages : from[j] \in Nat /\ to[j] \in Nat
        BY <1>0, <3>2 DEF Laid
      <4>2. ASSUME NEW j \in DOMAIN pages, j # 1 PROVE b <= from[j]
        <5>1. 1 < j /\ 1 \in DOMAIN pages
          BY <3>3, <4>2
        <5>2. from[1] <= to[1] /\ to[1] <= from[j]
          BY <3>2, <5>1 DEF Laid
        <5> QED
          BY <3>4, <4>1, <5>1, <5>2
      <4> QED
        BY <1>0, <3>4, <4>2
    <3>8. ASSUME NEW k \in (T \cup ks) \ (T \ ks)
          PROVE  /\ k \notin Held(others)
                 /\ \A i, j \in DOMAIN others : ~(from[i] < k /\ k <= to[j])
      <4>1. k \in ks /\ k \in Nat /\ k <= b
        BY <1>1, <3>8
      <4>2. \A j \in DOMAIN pages : from[j] \in Nat
        BY <1>0, <3>2 DEF Laid
      <4>3. \A j \in DOMAIN pages : ~(from[j] < k)
        BY <1>0, <3>7, <4>1, <4>2
      <4> QED
        BY <1>2, <3>6, <4>1, <4>3
    <3>9. Laid(others, T \ ks, from, to)
      BY <1>2, <3>5, <3>8, TouchedLaid
    <3>10. Laid(one, T \ ks, bp, ep) /\ ep[Len(one)] = from[1]
      BY <1>1, <1>2, <3>4
    <3> QED
      BY <1>1, <2>2, <3>6, <3>9, <3>10
  <2>5. Once(pages) => Once(ms)
    BY <1>1, <1>2, <2>2
  <2> QED
    BY <1>7, <2>2, <2>3, <2>4, <2>5 DEF ms, ks, Edges
<1>8. CASE d \notin Edges
  <2>1. ms = one
    BY <1>3, <1>8 DEF Edges
  <2>2. \A T : LaidOut(ms, T)
    BY <1>1, <2>1 DEF LaidOut
  <2> QED
    BY <1>1, <1>8, <2>1, <2>2 DEF ms, Edges
<1> QED
  BY <1>6, <1>7, <1>8 DEF Edges

\* t are the elements of s, in their order, and k.
Grown(t, s, k) ==
  \E g \in [DOMAIN t -> Nat] :
    /\ \A m \in DOMAIN t : \/ g[m] = 0 /\ t[m] = k
                           \/ g[m] \in DOMAIN s /\ t[m] = s[g[m]]
    /\ \A m, n \in DOMAIN t : g[m] = g[n] => m = n
    /\ \A m, n \in DOMAIN t : m < n /\ g[m] # 0 /\ g[n] # 0 => g[m] < g[n]
    /\ \A l \in DOMAIN s : \E m \in DOMAIN t : g[m] = l
    /\ \E m \in DOMAIN t : g[m] = 0

\* An item at either end of a page.
LEMMA GrownFacts ==
  ASSUME NEW s \in Seq(ItemKeys), NEW k \in ItemKeys
  PROVE  /\ <<k>> \o s \in Seq(ItemKeys) /\ Grown(<<k>> \o s, s, k)
         /\ Append(s, k) \in Seq(ItemKeys) /\ Grown(Append(s, k), s, k)
PROOF
<1>1. DOMAIN s = 1..Len(s) /\ Len(s) \in Nat
  BY LenProperties
<1>2. <<k>> \o s \in Seq(ItemKeys) /\ Grown(<<k>> \o s, s, k)
  <2> DEFINE t == <<k>> \o s
             g == [m \in 1..(Len(s) + 1) |-> m - 1]
  <2>1. <<k>> \in Seq(ItemKeys) /\ Len(<<k>>) = 1 /\ <<k>>[1] = k
    OBVIOUS
  <2>2. /\ t \in Seq(ItemKeys) /\ Len(t) = 1 + Len(s)
        /\ \A i \in 1..(1 + Len(s)) : t[i] = IF i <= 1 THEN <<k>>[i] ELSE s[i - 1]
    BY <2>1, ConcatProperties
  <2> HIDE DEF t
  <2>3. DOMAIN t = 1..(Len(s) + 1)
    BY <1>1, <2>2, LenProperties
  <2>4. /\ g \in [DOMAIN t -> Nat]
        /\ \A m \in DOMAIN t : g[m] = m - 1
    BY <1>1, <2>3
  <2> HIDE DEF g
  <2>5. \A m \in DOMAIN t : \/ g[m] = 0 /\ t[m] = k
                            \/ g[m] \in DOMAIN s /\ t[m] = s[g[m]]
    BY <1>1, <2>1, <2>2, <2>3, <2>4
  <2>6. \A m, n \in DOMAIN t : g[m] = g[n] => m = n
    BY <1>1, <2>3, <2>4
  <2>7. \A m, n \in DOMAIN t : m < n /\ g[m] # 0 /\ g[n] # 0 => g[m] < g[n]
    BY <1>1, <2>3, <2>4
  <2>8. \A l \in DOMAIN s : \E m \in DOMAIN t : g[m] = l
    <3> SUFFICES ASSUME NEW l \in DOMAIN s PROVE \E m \in DOMAIN t : g[m] = l
      OBVIOUS
    <3>1. l + 1 \in DOMAIN t /\ g[l + 1] = l
      BY <1>1, <2>3, <2>4
    <3> QED
      BY <3>1
  <2>9. 1 \in DOMAIN t /\ g[1] = 0
    BY <1>1, <2>3, <2>4
  <2> QED
    BY <2>2, <2>4, <2>5, <2>6, <2>7, <2>8, <2>9 DEF Grown, t
<1>3. Append(s, k) \in Seq(ItemKeys) /\ Grown(Append(s, k), s, k)
  <2> DEFINE t == Append(s, k)
             g == [m \in 1..(Len(s) + 1) |-> IF m = Len(s) + 1 THEN 0 ELSE m]
  <2>1. /\ t \in Seq(ItemKeys) /\ Len(t) = Len(s) + 1
        /\ \A i \in 1..Len(s) : t[i] = s[i]
        /\ t[Len(s) + 1] = k
    BY AppendProperties
  <2> HIDE DEF t
  <2>2. DOMAIN t = 1..(Len(s) + 1)
    BY <1>1, <2>1, LenProperties
  <2>3. /\ g \in [DOMAIN t -> Nat]
        /\ \A m \in DOMAIN t : g[m] = IF m = Len(s) + 1 THEN 0 ELSE m
    BY <1>1, <2>2
  <2> HIDE DEF g
  <2>4. \A m \in DOMAIN t : \/ g[m] = 0 /\ t[m] = k
                            \/ g[m] \in DOMAIN s /\ t[m] = s[g[m]]
    BY <1>1, <2>1, <2>2, <2>3
  <2>5. \A m, n \in DOMAIN t : g[m] = g[n] => m = n
    BY <1>1, <2>2, <2>3
  <2>6. \A m, n \in DOMAIN t : m < n /\ g[m] # 0 /\ g[n] # 0 => g[m] < g[n]
    BY <1>1, <2>2, <2>3
  <2>7. \A l \in DOMAIN s : l \in DOMAIN t /\ g[l] = l
    BY <1>1, <2>2, <2>3
  <2>8. Len(s) + 1 \in DOMAIN t /\ g[Len(s) + 1] = 0
    BY <1>1, <2>2, <2>3
  <2> QED
    BY <2>1, <2>3, <2>4, <2>5, <2>6, <2>7, <2>8 DEF Grown, t
<1> QED
  BY <1>2, <1>3

WithKeys(ps, j, t) == [ps EXCEPT ![j].keys = t]

\* An item of the application in one of the pages.
LEMMA GrownPage ==
  ASSUME NEW os \in Seq(Page), NEW k \in Drafts, k \notin Held(os),
         NEW j \in DOMAIN os, NEW t \in Seq(ItemKeys), Grown(t, os[j].keys, k),
         NEW qs, qs = WithKeys(os, j, t)
  PROVE  /\ qs \in Seq(Page) /\ Len(qs) = Len(os)
         /\ k \in Held(qs) /\ \E m \in DOMAIN qs[j].keys : qs[j].keys[m] = k
         /\ Once(os) => Once(qs)
         /\ \A T : LaidOut(os, T) => LaidOut(qs, T)
         /\ \A i \in DOMAIN os : qs[i].previous = os[i].previous /\ qs[i].next = os[i].next
PROOF
<1>1. /\ DOMAIN os = 1..Len(os) /\ Len(os) \in Nat
      /\ \A i \in DOMAIN os : os[i] \in Page
  BY PageFacts
<1>2. DOMAIN qs = DOMAIN os /\ \A i \in DOMAIN os : i # j => qs[i] = os[i]
  BY DEF WithKeys
<1>3. qs[j] = [os[j] EXCEPT !.keys = t]
  BY DEF WithKeys
<1>4. qs[j] = [keys |-> t, previous |-> os[j].previous, next |-> os[j].next] /\ qs[j] \in Page
  BY <1>1, <1>3 DEF Page
<1>5. qs \in Seq(Page) /\ Len(qs) = Len(os)
  <2>1. \A i \in DOMAIN os : qs[i] \in Page
    BY <1>1, <1>2, <1>4
  <2>2. qs = [i \in 1..Len(os) |-> qs[i]]
    BY <1>1 DEF WithKeys
  <2>3. qs \in [1..Len(os) -> Page]
    BY <1>1, <2>1, <2>2
  <2> QED
    BY <1>1, <2>3
<1>6. \A i \in DOMAIN os : qs[i].previous = os[i].previous /\ qs[i].next = os[i].next
  BY <1>2, <1>4
<1>7. PICK g \in [DOMAIN t -> Nat] :
        /\ \A m \in DOMAIN t : \/ g[m] = 0 /\ t[m] = k
                               \/ g[m] \in DOMAIN os[j].keys /\ t[m] = os[j].keys[g[m]]
        /\ \A m, n \in DOMAIN t : g[m] = g[n] => m = n
        /\ \A m, n \in DOMAIN t : m < n /\ g[m] # 0 /\ g[n] # 0 => g[m] < g[n]
        /\ \A l \in DOMAIN os[j].keys : \E m \in DOMAIN t : g[m] = l
        /\ \E m \in DOMAIN t : g[m] = 0
  BY DEF Grown
<1>8. \A l \in DOMAIN os[j].keys : l \in Nat /\ l # 0 /\ os[j].keys[l] # k
  <2>1. DOMAIN os[j].keys = 1..Len(os[j].keys) /\ Len(os[j].keys) \in Nat
    BY PageFacts
  <2>2. \A l \in DOMAIN os[j].keys : os[j].keys[l] \in Held(os)
    BY PageFacts
  <2> QED
    BY <2>1, <2>2
<1>9. \E m \in DOMAIN qs[j].keys : qs[j].keys[m] = k
  <2>1. PICK m \in DOMAIN t : g[m] = 0
    BY <1>7
  <2>2. t[m] = k
    BY <1>7, <1>8, <2>1
  <2> QED
    BY <1>4, <2>2
<1> HIDE DEF Page
<1>10. k \in Held(qs)
  BY <1>2, <1>5, <1>9, PageFacts
\* a key is the new one, or one of those before, at a place of its own
<1>11. ASSUME NEW i \in DOMAIN qs, NEW m \in DOMAIN qs[i].keys, qs[i].keys[m] # k
       PROVE  \E l \in DOMAIN os[i].keys : /\ qs[i].keys[m] = os[i].keys[l]
                                           /\ l = IF i = j THEN g[m] ELSE m
  <2>1. CASE i = j
    BY <1>4, <1>7, <1>11, <2>1
  <2>2. CASE i # j
    BY <1>2, <2>2
  <2> QED
    BY <2>1, <2>2
<1>12. ASSUME NEW i \in DOMAIN qs, NEW m \in DOMAIN qs[i].keys, qs[i].keys[m] = k
       PROVE  i = j /\ g[m] = 0 /\ m \in DOMAIN t
  <2>1. i = j
    <3> SUFFICES ASSUME i # j PROVE FALSE
      OBVIOUS
    <3>1. qs[i] = os[i] /\ i \in DOMAIN os
      BY <1>2
    <3>2. k \in Held(os)
      BY <1>12, <3>1, PageFacts
    <3> QED
      BY <3>2
  <2> QED
    BY <1>4, <1>7, <1>8, <1>12, <2>1
<1>13. ASSUME Once(os) PROVE Once(qs)
  <2> SUFFICES ASSUME NEW i \in DOMAIN qs, NEW h \in DOMAIN qs,
                      NEW m \in DOMAIN qs[i].keys, NEW n \in DOMAIN qs[h].keys,
                      qs[i].keys[m] = qs[h].keys[n]
               PROVE  i = h /\ m = n
    BY DEF Once
  <2>1. CASE qs[i].keys[m] = k
    <3>1. i = j /\ g[m] = 0 /\ m \in DOMAIN t
      BY <1>12, <2>1
    <3>2. h = j /\ g[n] = 0 /\ n \in DOMAIN t
      BY <1>12, <2>1
    <3> QED
      BY <1>7, <3>1, <3>2
  <2>2. CASE qs[i].keys[m] # k
    <3>1. PICK l \in DOMAIN os[i].keys : /\ qs[i].keys[m] = os[i].keys[l]
                                         /\ l = IF i = j THEN g[m] ELSE m
      BY <1>11, <2>2
    <3>2. PICK o \in DOMAIN os[h].keys : /\ qs[h].keys[n] = os[h].keys[o]
                                         /\ o = IF h = j THEN g[n] ELSE n
      BY <1>11, <2>2
    <3>3. i = h /\ l = o
      <4>1. i \in DOMAIN os /\ h \in DOMAIN os
        BY <1>2
      <4>2. os[i].keys[l] = os[h].keys[o]
        BY <3>1, <3>2
      <4> QED
        BY <1>13, <4>1, <4>2 DEF Once
    <3>4. CASE i = j
      <4>1. m \in DOMAIN t /\ n \in DOMAIN t /\ g[m] = g[n]
        BY <1>4, <3>1, <3>2, <3>3, <3>4
      <4> QED
        BY <1>7, <3>3, <4>1
    <3>5. CASE i # j
      BY <3>1, <3>2, <3>3, <3>5
    <3> QED
      BY <3>4, <3>5
  <2> QED
    BY <2>1, <2>2
<1>14. ASSUME NEW T, LaidOut(os, T) PROVE LaidOut(qs, T)
  <2>1. PICK from, to : Laid(os, T, from, to)
    BY <1>14 DEF LaidOut
  <2>2. k \notin 1..Records
    BY CollectionAssumption
  <2>3. /\ from \in [DOMAIN qs -> Cursors] /\ to \in [DOMAIN qs -> Cursors]
        /\ \A i \in DOMAIN qs : /\ from[i] <= to[i]
                                /\ qs[i].previous \in {from[i], NoCursor}
                                /\ qs[i].next \in {to[i], NoCursor}
        /\ \A i, h \in DOMAIN qs : i < h => to[i] <= from[h]
    BY <1>2, <1>6, <2>1 DEF Laid
  <2>4. ASSUME NEW i \in DOMAIN qs, NEW m \in DOMAIN qs[i].keys, qs[i].keys[m] \in (1..Records) \ T
        PROVE  from[i] < qs[i].keys[m] /\ qs[i].keys[m] <= to[i]
    <3>1. PICK l \in DOMAIN os[i].keys : qs[i].keys[m] = os[i].keys[l]
      BY <1>11, <2>2, <2>4
    <3> QED
      BY <1>2, <2>1, <2>4, <3>1 DEF Laid
  <2>5. ASSUME NEW i \in DOMAIN qs, NEW m \in DOMAIN qs[i].keys, NEW n \in DOMAIN qs[i].keys,
               m < n, {qs[i].keys[m], qs[i].keys[n]} \subseteq (1..Records) \ T
        PROVE  qs[i].keys[m] < qs[i].keys[n]
    <3>0. qs[i].keys[m] # k /\ qs[i].keys[n] # k
      BY <2>2, <2>5
    <3>1. PICK l \in DOMAIN os[i].keys : /\ qs[i].keys[m] = os[i].keys[l]
                                         /\ l = IF i = j THEN g[m] ELSE m
      BY <1>11, <3>0
    <3>2. PICK o \in DOMAIN os[i].keys : /\ qs[i].keys[n] = os[i].keys[o]
                                         /\ o = IF i = j THEN g[n] ELSE n
      BY <1>11, <3>0
    <3>3. l < o
      <4>1. CASE i = j
        <5>1. m \in DOMAIN t /\ n \in DOMAIN t /\ g[m] # 0 /\ g[n] # 0 /\ l = g[m] /\ o = g[n]
          BY <1>4, <1>8, <3>1, <3>2, <4>1
        <5> QED
          BY <1>7, <2>5, <5>1
      <4>2. CASE i # j
        BY <2>5, <3>1, <3>2, <4>2
      <4> QED
        BY <4>1, <4>2
    <3>4. {os[i].keys[l], os[i].keys[o]} \subseteq (1..Records) \ T
      BY <2>5, <3>1, <3>2
    <3> QED
      BY <1>2, <2>1, <3>1, <3>2, <3>3, <3>4 DEF Laid
  <2>6. ASSUME NEW x \in (1..Records) \ T, NEW i \in DOMAIN qs, NEW h \in DOMAIN qs,
               from[i] < x, x <= to[h]
        PROVE  x \in Held(qs)
    <3>1. x \in Held(os)
      BY <1>2, <2>1, <2>6 DEF Laid
    <3>2. PICK o \in DOMAIN os : \E l \in DOMAIN os[o].keys : os[o].keys[l] = x
      BY <3>1, PageFacts
    <3>3. \E m \in DOMAIN qs[o].keys : qs[o].keys[m] = x
      <4>1. CASE o = j
        <5>1. PICK l \in DOMAIN os[j].keys : os[j].keys[l] = x
          BY <3>2, <4>1
        <5>2. PICK m \in DOMAIN t : g[m] = l
          BY <1>7
        <5>3. t[m] = x
          BY <1>7, <1>8, <5>1, <5>2
        <5> QED
          BY <1>4, <4>1, <5>3
      <4>2. CASE o # j
        BY <1>2, <3>2, <4>2
      <4> QED
        BY <4>1, <4>2
    <3> QED
      BY <1>2, <1>5, <3>3, PageFacts
  <2>7. Laid(qs, T, from, to)
    <3>1. \A i \in DOMAIN qs : \A m \in DOMAIN qs[i].keys : qs[i].keys[m] \in (1..Records) \ T =>
            from[i] < qs[i].keys[m] /\ qs[i].keys[m] <= to[i]
      BY <2>4
    <3>2. \A i \in DOMAIN qs : \A m, n \in DOMAIN qs[i].keys :
            m < n /\ {qs[i].keys[m], qs[i].keys[n]} \subseteq (1..Records) \ T =>
              qs[i].keys[m] < qs[i].keys[n]
      BY <2>5
    <3>3. \A x \in (1..Records) \ T : \A i, h \in DOMAIN qs :
            from[i] < x /\ x <= to[h] => x \in Held(qs)
      BY <2>6
    <3> QED
      BY <2>3, <3>1, <3>2, <3>3 DEF Laid
  <2> QED
    BY <2>7 DEF LaidOut
<1> QED
  BY <1>5, <1>6, <1>9, <1>10, <1>13, <1>14

\* The load at an end of the pages goes on from there, unless an insert evicted the page.
EdgeStays ==
  active.direction \in Edges =>
    active.cursor # NoCursor /\ (~overtaken => active.cursor = EdgeCursor(pages, active.direction))

\* What every operation keeps.
CollectionInv ==
  /\ CollectionTypeOK
  /\ Once(pages)
  /\ ~OverBudget(pages)
  /\ anchor # NoKey => anchor \in Held(pages)
  /\ StatusTellsContent
  /\ EdgeStays
  /\ ~strayed /\ ~skipped => LaidOut(pages, touched)

\* The pages while they do not change.
LEMMA SamePages ==
  ASSUME CollectionInv, UNCHANGED pages
  PROVE  /\ pages' \in Seq(Page) /\ Once(pages') /\ ~OverBudget(pages')
         /\ ItemCount(pages') = ItemCount(pages) /\ Held(pages') = Held(pages)
         /\ \A T : LaidOut(pages', T) <=> LaidOut(pages, T)
         /\ \A e : EdgeCursor(pages', e) = EdgeCursor(pages, e)
BY DEF CollectionInv, CollectionTypeOK

\* The invariant holds at first: there are no pages.
LEMMA CollectionStarts == CollectionInit => CollectionInv
PROOF
<1> SUFFICES ASSUME CollectionInit PROVE CollectionInv
  OBVIOUS
<1>1. pages = <<>> /\ pages \in Seq(Page) /\ DOMAIN pages = {} /\ Len(pages) = 0
  BY DEF CollectionInit
<1>2. CollectionTypeOK
  <2>1. MaxGenerations \in Nat /\ NoLoad \notin calls /\ calls \subseteq PageTickets
    BY CollectionAssumption DEF CollectionInit
  <2> QED
    <3>1. 0 \in 0..MaxGenerations /\ consumed \in [Edges -> SUBSET Cursors]
      BY <2>1 DEF CollectionInit
    <3>2. {strayed, overtaken, skipped, wronged} \subseteq BOOLEAN /\ stale \in BOOLEAN
      BY DEF CollectionInit
    <3>3. /\ status \in {"idle", "loading", "ready", "empty", "refreshing", "error", "stale-error",
                        "cancelled"}
          /\ active \in PageTickets \cup {NoLoad} /\ (active # NoLoad => active \in calls)
          /\ errors \subseteq Edges \cup {"whole"} /\ generation \in 0..MaxGenerations
          /\ anchor \in ItemKeys \cup {NoKey} /\ touched \subseteq ItemKeys
      BY <3>1 DEF CollectionInit
    <3> QED
      BY <1>1, <2>1, <3>1, <3>2, <3>3 DEF CollectionTypeOK
<1>3. Once(pages) /\ ~OverBudget(pages)
  BY <1>1 DEF Once, OverBudget
<1>4. ItemCount(pages) = 0
  <2>1. Held(pages) = {}
    BY <1>1, PageFacts
  <2> QED
    BY <1>1, <2>1, SpotFacts
<1>5. StatusTellsContent
  BY <1>4 DEF CollectionInit, StatusTellsContent
<1>6. EdgeStays
  BY DEF CollectionInit, EdgeStays, NoLoad, Edges
<1>7. LaidOut(pages, touched)
  <2>1. Laid(pages, touched, pages, pages)
    BY <1>1 DEF Laid
  <2> QED
    BY <2>1 DEF LaidOut
<1> QED
  BY <1>2, <1>3, <1>5, <1>6, <1>7 DEF CollectionInv, CollectionInit

\* A load under way is neither the absent one nor of the direction "none".
LEMMA TicketShapes ==
  ASSUME CollectionInv
  PROVE  /\ generation \in Nat /\ MaxGenerations \in Nat /\ generation <= MaxGenerations
         /\ active # NoLoad => active \in PageTickets /\ active.direction \in Directions
                               /\ active.cursor \in Cursors \cup {NoCursor}
         /\ active = NoLoad => active.direction = "none"
         /\ pages \in Seq(Page) /\ ItemCount(pages) \in Nat
PROOF
<1>1. MaxGenerations \in Nat /\ CollectionTypeOK
  BY CollectionAssumption DEF CollectionInv
<1>2. generation \in Nat /\ generation <= MaxGenerations
  BY <1>1 DEF CollectionTypeOK
<1>3. active \in PageTickets \cup {NoLoad}
  BY <1>1 DEF CollectionTypeOK
<1>4. active # NoLoad => active \in PageTickets /\ active.direction \in Directions
                               /\ active.cursor \in Cursors \cup {NoCursor}
  BY <1>3 DEF PageTickets
<1>5. active = NoLoad => active.direction = "none"
  BY DEF NoLoad
<1>6. pages \in Seq(Page)
  BY <1>1 DEF CollectionTypeOK
<1> QED
  BY <1>1, <1>2, <1>4, <1>5, <1>6, SpotFacts

\* A load that begins leaves the pages alone, and is recorded with the cursor it goes on from.
LEMMA BeginKeepsPages ==
  ASSUME CollectionInv, NEW d \in Directions, NEW c \in Cursors \cup {NoCursor}, Begin(d, c)
  PROVE  CollectionInv'
PROOF
<1>1. /\ active = NoLoad /\ generation < MaxGenerations /\ generation' = generation + 1
      /\ active' = [direction |-> d, cursor |-> c, generation |-> generation + 1]
      /\ calls' = calls \cup {active'} /\ errors' = errors \ {Scope(d)}
      /\ UNCHANGED pages /\ UNCHANGED stale /\ UNCHANGED anchor /\ UNCHANGED consumed
      /\ UNCHANGED touched /\ UNCHANGED strayed /\ UNCHANGED overtaken /\ UNCHANGED skipped
      /\ UNCHANGED wronged
      /\ d \in Edges => c = EdgeCursor(pages, d) /\ c # NoCursor
  <2>1. d \in Edges => c = EdgeCursor(pages, d) /\ c # NoCursor
    BY DEF Begin, Edges
  <2> QED
    BY <2>1 DEF Begin, history
<1>2. /\ d = "initial" => status' = "loading"
      /\ d = "refresh" => status' = "refreshing"
      /\ d \in Edges => status' = status
  BY DEF Begin, Edges
<1>3. d \in Edges \/ d = "initial" \/ d = "refresh"
  BY DEF Directions
<1>4. generation' \in 1..MaxGenerations /\ generation' \in 0..MaxGenerations
  BY <1>1, TicketShapes
<1>5. active' \in PageTickets /\ active'.direction = d /\ active'.cursor = c
  BY <1>1, <1>4 DEF PageTickets
<1>6. CollectionTypeOK'
  <2>1. status' \in {"idle", "loading", "ready", "empty", "refreshing", "error", "stale-error",
                     "cancelled"}
    BY <1>2, <1>3 DEF CollectionInv, CollectionTypeOK
  <2> QED
    BY <1>1, <1>4, <1>5, <2>1 DEF CollectionInv, CollectionTypeOK
<1>7. StatusTellsContent'
  <2>1. status \notin {"loading", "refreshing"}
    BY <1>1, TicketShapes DEF CollectionInv, StatusTellsContent
  <2>2. CASE d \in Edges
    BY <1>1, <1>2, <2>1, <2>2 DEF CollectionInv, StatusTellsContent
  <2>3. CASE d = "initial" \/ d = "refresh"
    BY <1>2, <1>5, <2>3 DEF StatusTellsContent
  <2> QED
    BY <1>3, <2>2, <2>3
<1>8. EdgeStays'
  BY <1>1, <1>5 DEF EdgeStays
<1> QED
  BY <1>1, <1>6, <1>7, <1>8 DEF CollectionInv

\* A load that fails leaves the pages alone.
LEMMA FailKeeps ==
  ASSUME CollectionInv, active # NoLoad, Fail(active), calls' \subseteq calls, wronged' \in BOOLEAN
  PROVE  CollectionInv'
PROOF
<1>1. /\ active' = NoLoad /\ overtaken' = FALSE /\ errors' = errors \cup {Scope(active.direction)}
      /\ status' = IF active.direction \in Edges THEN status
                   ELSE IF ItemCount(pages) = 0 THEN "error" ELSE "stale-error"
      /\ UNCHANGED pages /\ UNCHANGED generation /\ UNCHANGED stale /\ UNCHANGED anchor
      /\ UNCHANGED consumed /\ UNCHANGED touched /\ UNCHANGED strayed /\ UNCHANGED skipped
  BY DEF Fail
<1>2. active'.direction = "none"
  BY <1>1 DEF NoLoad
<1>3. CollectionTypeOK'
  BY <1>1 DEF CollectionInv, CollectionTypeOK, Scope
<1>4. StatusTellsContent'
  <2>1. CASE active.direction \in Edges
    <3>1. status \notin {"loading", "refreshing"}
      BY <2>1 DEF CollectionInv, StatusTellsContent, Edges
    <3> QED
      BY <1>1, <2>1, <3>1 DEF CollectionInv, StatusTellsContent
  <2>2. CASE active.direction \notin Edges
    <3>1. status' = IF ItemCount(pages) = 0 THEN "error" ELSE "stale-error"
      BY <1>1, <2>2
    <3>2. ItemCount(pages) \in Nat /\ ItemCount(pages') = ItemCount(pages)
      BY <1>1, TicketShapes
    <3> QED
      BY <3>1, <3>2 DEF StatusTellsContent
  <2> QED
    BY <2>1, <2>2
<1>5. EdgeStays'
  BY <1>2 DEF EdgeStays, Edges
<1> QED
  BY <1>1, <1>3, <1>4, <1>5 DEF CollectionInv

\* The provider's answers are parts of its records; what continues a load begins or ends at
\* its cursor.
LEMMA ContinuationFacts ==
  /\ \A p \in Parts : \E a, b \in Cursors : a <= b /\ p = Part(a, b)
  /\ \A t \in PageTickets : \E a, b \in Cursors :
       /\ a <= b /\ Continuation(t) = Part(a, b)
       /\ t.direction = "next" /\ t.cursor # NoCursor => a = t.cursor
       /\ t.direction = "previous" /\ t.cursor # NoCursor => b = t.cursor
PROOF
<1>1. Records \in Nat /\ PageItems \in Nat /\ Cursors = 0..Records
  BY CollectionAssumption DEF Cursors
<1>2. ASSUME NEW p \in Parts PROVE \E a, b \in Cursors : a <= b /\ p = Part(a, b)
  <2>1. PICK x \in Cursors \X Cursors : x[1] <= x[2] /\ p = Part(x[1], x[2])
    BY DEF Parts
  <2>2. x[1] \in Cursors /\ x[2] \in Cursors
    BY <2>1
  <2> QED
    BY <2>1, <2>2
<1>3. ASSUME NEW t \in PageTickets
      PROVE  \E a, b \in Cursors :
               /\ a <= b /\ Continuation(t) = Part(a, b)
               /\ t.direction = "next" /\ t.cursor # NoCursor => a = t.cursor
               /\ t.direction = "previous" /\ t.cursor # NoCursor => b = t.cursor
  <2> DEFINE from == IF t.cursor = NoCursor THEN 0 ELSE t.cursor
             low == IF from > PageItems THEN from - PageItems ELSE 0
             high == IF from + PageItems < Records THEN from + PageItems ELSE Records
  <2>1. t.cursor \in Cursors \cup {NoCursor}
    BY DEF PageTickets
  <2>2. from \in Cursors
    BY <1>1, <2>1
  <2>3. t.cursor # NoCursor => from = t.cursor
    OBVIOUS
  <2>4. Continuation(t) = IF t.direction = "previous" THEN Part(low, from) ELSE Part(from, high)
    BY DEF Continuation
  <2> HIDE DEF from
  <2>5. low \in Cursors /\ low <= from /\ high \in Cursors /\ from <= high
    BY <1>1, <2>2
  <2> HIDE DEF low, high
  <2>6. CASE t.direction = "previous"
    BY <2>2, <2>3, <2>4, <2>5, <2>6
  <2>7. CASE t.direction # "previous"
    BY <2>2, <2>3, <2>4, <2>5, <2>7
  <2> QED
    BY <2>6, <2>7
<1> QED
  BY <1>2, <1>3

\* evict leaves the pages sound, and the anchor where it is if its item stays.
LEMMA EvictKeeps ==
  ASSUME NEW ps \in Seq(Page), Once(ps), NEW e, NEW a \in ItemKeys \cup {NoKey}, Evict(ps, e, a)
  PROVE  /\ pages' \in Seq(Page) /\ Once(pages') /\ ~OverBudget(pages')
         /\ anchor' \in ItemKeys \cup {NoKey} /\ (anchor' # NoKey => anchor' \in Held(pages'))
         /\ Remains(pages', ps, e, a)
PROOF
<1>1. pages' = Evicted(ps, e, a) /\ anchor' = IF a \in Held(pages') THEN a ELSE NoKey
  BY DEF Evict
<1>2. Remains(pages', ps, e, a) /\ ~OverBudget(pages')
  BY <1>1, EvictedFacts
<1> QED
  BY <1>1, <1>2 DEF Remains

\* A page that is accepted: it is merged at its end, and evict restores the budget.
LEMMA AcceptKeeps ==
  ASSUME CollectionInv, active # NoLoad, NEW p, p \in Parts \/ p = Continuation(active),
         AcceptPage(active, p), calls' \subseteq calls, wronged' \in BOOLEAN
  PROVE  CollectionInv'
PROOF
<1> DEFINE t == active
           d == active.direction
           ms == Merged(d, p)
<1>1. /\ Evict(ms, d, anchor)
      /\ consumed' = IF d \in Edges THEN [consumed EXCEPT ![d] = @ \cup {active.cursor}]
                     ELSE [e \in Edges |-> {}]
      /\ active' = NoLoad /\ errors' = {} /\ stale' = FALSE
      /\ status' = IF ItemCount(pages') = 0 THEN "empty" ELSE "ready"
      /\ touched' = IF d \in Edges THEN touched \ KeysOf(p) ELSE {}
      /\ strayed' = (p # Continuation(active) \/ (d \in Edges /\ strayed))
      /\ skipped' = (d \in Edges /\ (overtaken \/ skipped))
      /\ overtaken' = FALSE /\ generation' = generation
  BY DEF AcceptPage
<1>2. /\ active \in PageTickets /\ d \in Directions /\ active.cursor \in Cursors \cup {NoCursor}
      /\ pages \in Seq(Page)
  BY TicketShapes
<1>3. Once(pages) /\ anchor \in ItemKeys \cup {NoKey}
  BY DEF CollectionInv, CollectionTypeOK
<1>4. PICK a \in Cursors, b \in Cursors :
        /\ a <= b /\ p = Part(a, b)
        /\ p = Continuation(active) /\ active.cursor # NoCursor =>
             (d = "next" => a = active.cursor) /\ (d = "previous" => b = active.cursor)
  <2>1. CASE p = Continuation(active)
    BY <1>2, <2>1, ContinuationFacts
  <2>2. CASE p # Continuation(active)
    <3>1. p \in Parts
      BY <2>2
    <3> QED
      BY <2>2, <3>1, ContinuationFacts
  <2> QED
    BY <2>1, <2>2
<1>5. /\ ms \in Seq(Page) /\ Once(ms)
      /\ d \notin Edges => \A T : LaidOut(ms, T)
      /\ d = "next" /\ EdgeCursor(pages, "next") = a
         => \A T : LaidOut(pages, T) => LaidOut(ms, T \ KeysOf(p))
      /\ d = "previous" /\ EdgeCursor(pages, "previous") = b
         => \A T : LaidOut(pages, T) => LaidOut(ms, T \ KeysOf(p))
  BY <1>2, <1>3, <1>4, MergedFacts
<1> HIDE DEF ms
<1>6. /\ pages' \in Seq(Page) /\ Once(pages') /\ ~OverBudget(pages')
      /\ anchor' \in ItemKeys \cup {NoKey} /\ (anchor' # NoKey => anchor' \in Held(pages'))
      /\ \A T : LaidOut(ms, T) => LaidOut(pages', T)
  BY <1>1, <1>3, <1>5, EvictKeeps DEF Remains
<1>7. CollectionTypeOK'
  <2>1. consumed' \in [Edges -> SUBSET Cursors]
    <3>1. CASE d \in Edges
      <4>1. active.cursor \in Cursors \cup {NoCursor} /\ consumed \in [Edges -> SUBSET Cursors]
        BY <1>2 DEF CollectionInv, CollectionTypeOK
      <4>2. active.cursor # NoCursor
        BY <3>1 DEF CollectionInv, EdgeStays
      <4> QED
        BY <1>1, <3>1, <4>1, <4>2
    <3>2. CASE d \notin Edges
      BY <1>1, <3>2
    <3> QED
      BY <3>1, <3>2
  <2>2. touched' \subseteq ItemKeys /\ generation' \in 0..MaxGenerations
        /\ {strayed', skipped', overtaken', wronged'} \subseteq BOOLEAN /\ calls' \subseteq PageTickets
    BY <1>1 DEF CollectionInv, CollectionTypeOK
  <2>3. status' \in {"idle", "loading", "ready", "empty", "refreshing", "error", "stale-error",
                     "cancelled"}
    BY <1>1
  <2> QED
    BY <1>1, <1>6, <2>1, <2>2, <2>3 DEF CollectionTypeOK
<1>8. StatusTellsContent'
  <2>1. ItemCount(pages') \in Nat
    BY <1>6, SpotFacts
  <2> QED
    BY <1>1, <2>1 DEF StatusTellsContent
<1>9. EdgeStays'
  <2>1. active'.direction = "none"
    BY <1>1 DEF NoLoad
  <2> QED
    BY <2>1 DEF EdgeStays, Edges
<1>10. ASSUME ~strayed', ~skipped' PROVE LaidOut(pages', touched')
  <2>1. p = Continuation(active)
    BY <1>1, <1>10
  <2>2. CASE d \in Edges
    <3>1. ~strayed /\ ~skipped /\ ~overtaken
      BY <1>1, <1>10, <2>2
    <3>2. active.cursor = EdgeCursor(pages, d) /\ active.cursor # NoCursor
      BY <2>2, <3>1 DEF CollectionInv, EdgeStays
    <3>3. LaidOut(pages, touched)
      BY <3>1 DEF CollectionInv
    <3>4. LaidOut(ms, touched \ KeysOf(p))
      <4>1. CASE d = "next"
        BY <1>4, <1>5, <2>1, <3>2, <3>3, <4>1
      <4>2. CASE d = "previous"
        BY <1>4, <1>5, <2>1, <3>2, <3>3, <4>2
      <4> QED
        BY <2>2, <4>1, <4>2 DEF Edges
    <3> QED
      BY <1>1, <1>6, <2>2, <3>4
  <2>3. CASE d \notin Edges
    BY <1>1, <1>5, <1>6, <2>3
  <2> QED
    BY <2>2, <2>3
<1> QED
  BY <1>6, <1>7, <1>8, <1>9, <1>10 DEF CollectionInv

\* An answer to a ticket that is no longer the active one changes nothing.
LEMMA StaleKeeps ==
  ASSUME CollectionInv, NEW t, t # active, Arrives(t), UNCHANGED OtherThanCalls
  PROVE  CollectionInv'
PROOF
<1>1. /\ calls' = calls \ {t}
      /\ UNCHANGED status /\ UNCHANGED pages /\ UNCHANGED active /\ UNCHANGED errors
      /\ UNCHANGED generation /\ UNCHANGED stale /\ UNCHANGED anchor /\ UNCHANGED consumed
      /\ UNCHANGED touched /\ UNCHANGED strayed /\ UNCHANGED overtaken /\ UNCHANGED skipped
      /\ UNCHANGED wronged
  BY DEF Arrives, OtherThanCalls, history
<1>2. CollectionTypeOK'
  BY <1>1 DEF CollectionInv, CollectionTypeOK
<1>3. StatusTellsContent' /\ EdgeStays'
  BY <1>1 DEF CollectionInv, StatusTellsContent, EdgeStays
<1> QED
  BY <1>1, <1>2, <1>3 DEF CollectionInv

\* A ticket that is active has been given out.
LEMMA ActiveCalled ==
  ASSUME CollectionInv, active \in calls
  PROVE  active # NoLoad /\ active \in PageTickets
PROOF
<1>1. active \in PageTickets
  BY DEF CollectionInv, CollectionTypeOK
<1>2. active.direction \in Directions
  BY <1>1 DEF PageTickets
<1>3. active.direction # "none"
  BY <1>2 DEF Directions, Edges
<1> QED
  BY <1>1, <1>3 DEF NoLoad

\* An answer with a page.
LEMMA ResolveKeeps ==
  ASSUME CollectionInv, NEW t \in calls, NEW p \in Parts, Resolve(t, p)
  PROVE  CollectionInv'
PROOF
<1>1. calls' = calls \ {t} /\ calls' \subseteq calls /\ Arrives(t)
  BY DEF Resolve, Arrives
<1>2. CASE t # active
  BY <1>1, <1>2, StaleKeeps DEF Resolve
<1>3. CASE t = active
  <2>1. active # NoLoad
    BY <1>3, ActiveCalled
  <2>2. strayed \in BOOLEAN /\ wronged \in BOOLEAN
    BY DEF CollectionInv, CollectionTypeOK
  <2>3. CASE Cycle(t, p)
    <3>1. Fail(t) /\ wronged' = (wronged \/ (p = Continuation(t) /\ ~strayed))
      BY <1>3, <2>3 DEF Resolve
    <3>2. wronged' \in BOOLEAN
      BY <2>2, <3>1
    <3> QED
      BY <1>1, <1>3, <2>1, <3>1, <3>2, FailKeeps
  <2>4. CASE ~Cycle(t, p)
    <3>1. AcceptPage(t, p) /\ wronged' = wronged
      BY <1>3, <2>4 DEF Resolve
    <3> QED
      BY <1>1, <1>3, <2>1, <2>2, <3>1, AcceptKeeps
  <2> QED
    BY <2>3, <2>4
<1> QED
  BY <1>2, <1>3

\* An answer with an error.
LEMMA RejectKeeps ==
  ASSUME CollectionInv, NEW t \in calls, Reject(t)
  PROVE  CollectionInv'
PROOF
<1>1. calls' = calls \ {t} /\ calls' \subseteq calls /\ Arrives(t)
  BY DEF Reject, Arrives
<1>2. CASE t # active
  BY <1>1, <1>2, StaleKeeps DEF Reject
<1>3. CASE t = active
  <2>1. active # NoLoad
    BY <1>3, ActiveCalled
  <2>2. wronged' \in BOOLEAN /\ Fail(active)
    BY <1>3 DEF Reject, CollectionInv, CollectionTypeOK
  <2> QED
    BY <1>1, <2>1, <2>2, FailKeeps
<1> QED
  BY <1>2, <1>3

\* A load that is cancelled: its ticket is no longer the active one.
LEMMA CancelKeeps ==
  ASSUME CollectionInv, Cancel
  PROVE  CollectionInv'
PROOF
<1>1. /\ active' = NoLoad /\ overtaken' = FALSE
      /\ generation' = generation + 1 /\ generation < MaxGenerations
      /\ status' = IF ItemCount(pages) = 0 THEN "cancelled" ELSE "ready"
      /\ UNCHANGED pages /\ UNCHANGED errors /\ UNCHANGED stale /\ UNCHANGED anchor
      /\ UNCHANGED consumed /\ UNCHANGED calls /\ UNCHANGED touched /\ UNCHANGED strayed
      /\ UNCHANGED skipped /\ UNCHANGED wronged
  BY DEF Cancel
<1>2. generation' \in 0..MaxGenerations
  BY <1>1, TicketShapes
<1>3. CollectionTypeOK'
  BY <1>1, <1>2 DEF CollectionInv, CollectionTypeOK
<1>4. StatusTellsContent'
  <2>1. ItemCount(pages) \in Nat /\ ItemCount(pages') = ItemCount(pages)
    BY <1>1, TicketShapes
  <2> QED
    BY <1>1, <2>1 DEF StatusTellsContent
<1>5. EdgeStays'
  <2>1. active'.direction = "none"
    BY <1>1 DEF NoLoad
  <2> QED
    BY <2>1 DEF EdgeStays, Edges
<1> QED
  BY <1>1, <1>3, <1>4, <1>5 DEF CollectionInv

\* All pages are dropped, and the load under way with them.
LEMMA ResetKeeps ==
  ASSUME CollectionInv, ResetPages
  PROVE  CollectionInv'
PROOF
<1>1. /\ generation < MaxGenerations /\ generation' = generation + 1
      /\ status' = "idle" /\ pages' = <<>> /\ active' = NoLoad /\ errors' = {}
      /\ stale' = FALSE /\ anchor' = NoKey /\ consumed' = [e \in Edges |-> {}]
      /\ touched' = {} /\ strayed' = FALSE /\ overtaken' = FALSE /\ skipped' = FALSE
      /\ UNCHANGED calls /\ UNCHANGED wronged
  BY DEF ResetPages
<1>2. pages' \in Seq(Page) /\ DOMAIN pages' = {} /\ Len(pages') = 0
  BY <1>1
<1>3. generation' \in 0..MaxGenerations
  BY <1>1, TicketShapes
<1>4. CollectionTypeOK'
  <2>1. consumed' \in [Edges -> SUBSET Cursors]
    BY <1>1
  <2>2. {strayed', overtaken', skipped', wronged'} \subseteq BOOLEAN
    BY <1>1 DEF CollectionInv, CollectionTypeOK
  <2> QED
    BY <1>1, <1>2, <1>3, <2>1, <2>2 DEF CollectionInv, CollectionTypeOK
<1>5. Once(pages') /\ ~OverBudget(pages')
  BY <1>2 DEF Once, OverBudget
<1>6. StatusTellsContent'
  <2>1. Held(pages') = {}
    BY <1>2, PageFacts
  <2>2. ItemCount(pages') = 0
    BY <1>2, <2>1, SpotFacts
  <2> QED
    BY <1>1, <2>2 DEF StatusTellsContent
<1>7. EdgeStays'
  <2>1. active'.direction = "none"
    BY <1>1 DEF NoLoad
  <2> QED
    BY <2>1 DEF EdgeStays, Edges
<1>8. LaidOut(pages', touched')
  <2>1. Laid(pages', touched', pages', pages')
    BY <1>1, <1>2 DEF Laid
  <2> QED
    BY <2>1 DEF LaidOut
<1> QED
  BY <1>1, <1>4, <1>5, <1>6, <1>7, <1>8 DEF CollectionInv

\* The anchor moves to an item that is held, and content is marked as stale.
LEMMA MarkKeeps ==
  ASSUME CollectionInv, Invalidate \/ \E k \in ItemKeys \cup {NoKey} : SetAnchor(k)
  PROVE  CollectionInv'
PROOF
<1>1. /\ UNCHANGED status /\ UNCHANGED pages /\ UNCHANGED active /\ UNCHANGED errors
      /\ UNCHANGED generation /\ UNCHANGED consumed /\ UNCHANGED calls
      /\ UNCHANGED touched /\ UNCHANGED strayed /\ UNCHANGED overtaken /\ UNCHANGED skipped
      /\ UNCHANGED wronged
      /\ stale' \in {TRUE, stale}
      /\ anchor' = anchor \/ (anchor' \in ItemKeys \cup {NoKey} /\ anchor' \in Held(pages) \cup {NoKey})
  BY DEF Invalidate, SetAnchor, history
<1>2. CollectionTypeOK'
  BY <1>1 DEF CollectionInv, CollectionTypeOK
<1>3. StatusTellsContent' /\ EdgeStays'
  BY <1>1 DEF CollectionInv, StatusTellsContent, EdgeStays
<1>4. anchor' # NoKey => anchor' \in Held(pages')
  BY <1>1 DEF CollectionInv
<1> QED
  BY <1>1, <1>2, <1>3, <1>4 DEF CollectionInv

\* Pruned pages are not more.
LEMMA PrunedLength ==
  ASSUME NEW ps \in Seq(Page)
  PROVE  Len(PruneEmptyInterior(ps)) \in Nat /\ Len(PruneEmptyInterior(ps)) <= Len(ps)
PROOF
<1> DEFINE I == {i \in DOMAIN ps : ps[i].keys # <<>> \/ i = 1 \/ i = Len(ps)}
<1>1. At(ps, I) \in Seq(Page) /\ PruneEmptyInterior(ps) = At(ps, I)
  BY AtFacts DEF PruneEmptyInterior
<1>2. DOMAIN At(ps, I) = 1..Cardinality(I)
  BY DEF At
<1>3. IsFiniteSet(1..Len(ps)) /\ Cardinality(1..Len(ps)) = Len(ps) /\ DOMAIN ps = 1..Len(ps)
      /\ Len(ps) \in Nat
  <2>1. Len(ps) \in Nat /\ Len(ps) \in Int /\ DOMAIN ps = 1..Len(ps) /\ 1 \in Int
    OBVIOUS
  <2>2. IsFiniteSet(1..Len(ps)) /\ Cardinality(1..Len(ps)) = IF 1 > Len(ps) THEN 0 ELSE Len(ps) - 1 + 1
    BY <2>1, FS_Interval
  <2> QED
    BY <2>1, <2>2
<1>4. IsFiniteSet(I) /\ Cardinality(I) <= Len(ps) /\ Cardinality(I) \in Nat
  BY <1>3, FS_Subset, FS_CardinalityType
<1> HIDE DEF I
<1>5. Len(At(ps, I)) = Cardinality(I)
  BY <1>1, <1>2, <1>4
<1> QED
  BY <1>1, <1>4, <1>5

\* Pages without the item k.
LEMMA WithoutItem ==
  ASSUME NEW ps \in Seq(Page), Once(ps), NEW k
  PROVE  LET os == PruneEmptyInterior(RemoveKeys(ps, {k})) IN
         /\ os \in Seq(Page) /\ Once(os) /\ Held(os) = Held(ps) \ {k}
         /\ ~OverBudget(ps) => ~OverBudget(os)
         /\ \A e : EdgeCursor(os, e) = EdgeCursor(ps, e)
         /\ \A T : LaidOut(ps, T) => LaidOut(os, T \cup {k})
PROOF
<1> DEFINE rs == RemoveKeys(ps, {k})
           os == PruneEmptyInterior(rs)
<1>1. /\ rs \in Seq(Page) /\ Len(rs) = Len(ps) /\ Held(rs) = Held(ps) \ {k} /\ Once(rs)
      /\ \A i \in DOMAIN rs : rs[i].previous = ps[i].previous /\ rs[i].next = ps[i].next
      /\ \A T, from, to : Laid(ps, T, from, to) => Laid(rs, T \cup {k}, from, to)
  BY RemovedFacts
<1> HIDE DEF rs
<1>2. /\ os \in Seq(Page) /\ Held(os) = Held(rs)
      /\ rs = <<>> <=> os = <<>>
  BY <1>1, PrunedFacts
<1>3. PICK f : Among(os, rs, f) /\ (rs # <<>> => f[1] = 1 /\ f[Len(os)] = Len(rs))
  BY <1>1, PrunedFacts
<1>4. Remains(os, rs, "next", k)
  BY <1>1, PrunedRemains
<1>5. Once(os)
  BY <1>1, <1>4 DEF Remains
<1>6. Len(os) \in Nat /\ Len(os) <= Len(rs)
  BY <1>1, PrunedLength
<1> HIDE DEF os
<1>7. ItemCount(os) <= ItemCount(ps) /\ ItemCount(os) \in Nat /\ ItemCount(ps) \in Nat
  BY <1>1, <1>2, <1>5, FewerKeys, SpotFacts
<1>8. ASSUME ~OverBudget(ps) PROVE ~OverBudget(os)
  <2>1. MaxPages \in Nat /\ MaxItems \in Nat /\ Len(ps) \in Nat
    BY CollectionAssumption
  <2> QED
    BY <1>1, <1>6, <1>7, <1>8, <2>1 DEF OverBudget
<1>9. ASSUME NEW e PROVE EdgeCursor(os, e) = EdgeCursor(ps, e)
  <2>1. CASE ps = <<>>
    <3>1. Len(rs) = 0
      BY <1>1, <2>1
    <3>2. rs = <<>>
      BY <1>1, <3>1
    <3> QED
      BY <1>2, <2>1, <3>2 DEF EdgeCursor
  <2>2. CASE ps # <<>>
    <3>1. Len(ps) > 0 /\ Len(ps) \in Nat
      BY <2>2
    <3>2. rs # <<>> /\ os # <<>>
      BY <1>1, <1>2, <3>1
    <3>3. Len(os) > 0
      BY <1>2, <3>2
    <3>4. 1 \in DOMAIN os /\ Len(os) \in DOMAIN os /\ 1 \in DOMAIN rs /\ Len(rs) \in DOMAIN rs
      BY <1>1, <1>2, <1>6, <3>1, <3>3
    <3>5. os[1] = rs[1] /\ os[Len(os)] = rs[Len(rs)]
      BY <1>3, <3>2, <3>4 DEF Among
    <3>6. os[1].previous = ps[1].previous /\ os[Len(os)].next = ps[Len(ps)].next
      BY <1>1, <3>4, <3>5
    <3>7. Head(os) = os[1] /\ Head(ps) = ps[1]
      OBVIOUS
    <3> QED
      BY <2>2, <3>2, <3>6, <3>7 DEF EdgeCursor
  <2> QED
    BY <2>1, <2>2
<1>10. ASSUME NEW T, LaidOut(ps, T) PROVE LaidOut(os, T \cup {k})
  <2>1. LaidOut(rs, T \cup {k})
    BY <1>1, <1>10 DEF LaidOut
  <2> QED
    BY <1>4, <2>1 DEF Remains
<1> QED
  BY <1>1, <1>2, <1>5, <1>8, <1>9, <1>10 DEF rs, os

\* An item that is removed leaves a gap the application made, and no page moves.
LEMMA RemoveKeeps ==
  ASSUME CollectionInv, NEW k \in ItemKeys, RemoveItem(k)
  PROVE  CollectionInv'
PROOF
<1>1. /\ pages' = PruneEmptyInterior(RemoveKeys(pages, {k}))
      /\ anchor' = AnchorWithout(k)
      /\ status' = IF ItemCount(pages') = 0 THEN "empty" ELSE "ready"
      /\ touched' = touched \cup {k}
      /\ UNCHANGED active /\ UNCHANGED errors /\ UNCHANGED generation /\ UNCHANGED stale
      /\ UNCHANGED consumed /\ UNCHANGED calls /\ UNCHANGED strayed /\ UNCHANGED overtaken
      /\ UNCHANGED skipped /\ UNCHANGED wronged
  BY DEF RemoveItem
<1>2. pages \in Seq(Page) /\ Once(pages)
  BY DEF CollectionInv, CollectionTypeOK
<1>3. /\ pages' \in Seq(Page) /\ Once(pages') /\ Held(pages') = Held(pages) \ {k}
      /\ ~OverBudget(pages) => ~OverBudget(pages')
      /\ \A e : EdgeCursor(pages', e) = EdgeCursor(pages, e)
      /\ \A T : LaidOut(pages, T) => LaidOut(pages', T \cup {k})
  BY <1>1, <1>2, WithoutItem
<1>4. anchor' \in ItemKeys \cup {NoKey} /\ (anchor' # NoKey => anchor' \in Held(pages'))
  BY <1>1, <1>3 DEF AnchorWithout, CollectionInv, CollectionTypeOK
<1>5. CollectionTypeOK'
  <2>1. status' \in {"idle", "loading", "ready", "empty", "refreshing", "error", "stale-error",
                     "cancelled"}
    BY <1>1
  <2> QED
    BY <1>1, <1>3, <1>4, <2>1 DEF CollectionInv, CollectionTypeOK
<1>6. StatusTellsContent'
  <2>1. ItemCount(pages') \in Nat
    BY <1>3, SpotFacts
  <2> QED
    BY <1>1, <2>1 DEF StatusTellsContent
<1>7. EdgeStays'
  BY <1>1, <1>3 DEF CollectionInv, EdgeStays
<1> QED
  BY <1>1, <1>3, <1>4, <1>5, <1>6, <1>7 DEF CollectionInv

\* A page that holds only an item of the application.
LEMMA DraftPage ==
  ASSUME NEW k \in Drafts, NEW q, q = [keys |-> <<k>>, previous |-> NoCursor, next |-> NoCursor]
  PROVE  /\ <<q>> \in Seq(Page) /\ Once(<<q>>) /\ \A T : LaidOut(<<q>>, T)
         /\ Len(<<q>>) = 1 /\ 1 \in DOMAIN <<q>>
         /\ \E m \in DOMAIN <<q>>[1].keys : <<q>>[1].keys[m] = k
PROOF
<1>1. Records \in Nat /\ 0 \in Cursors /\ k \notin 1..Records
  BY CollectionAssumption DEF Cursors
<1>2. <<k>> \in Seq(ItemKeys) /\ DOMAIN <<k>> = {1} /\ <<k>>[1] = k
  BY DEF ItemKeys
<1>3. q \in Page /\ q.keys = <<k>> /\ q.previous = NoCursor /\ q.next = NoCursor
  BY <1>2 DEF Page
<1> HIDE DEF NoCursor
<1>4. <<q>> \in Seq(Page) /\ DOMAIN <<q>> = {1} /\ <<q>>[1] = q /\ Len(<<q>>) = 1
  BY <1>3
<1>5. Once(<<q>>)
  BY <1>2, <1>3, <1>4 DEF Once
<1>6. ASSUME NEW T PROVE LaidOut(<<q>>, T)
  <2> DEFINE z == [i \in {1} |-> 0]
             ps == <<q>>
  <2>1. z \in [{1} -> Cursors] /\ z[1] = 0
    BY <1>1
  <2>2. DOMAIN ps = {1} /\ ps[1].keys = <<k>> /\ ps[1].previous = NoCursor /\ ps[1].next = NoCursor
    BY <1>3, <1>4
  <2> HIDE DEF z, ps
  <2>3. \A i, j \in DOMAIN ps : ~(i < j)
    BY <2>2
  <2>4. \A i \in DOMAIN ps : \A m \in DOMAIN ps[i].keys : ps[i].keys[m] \notin 1..Records
    BY <1>1, <1>2, <2>2
  <2>5. \A n \in 1..Records : ~(0 < n /\ n <= 0)
    OBVIOUS
  <2>6. \A i \in DOMAIN ps : z[i] = 0 /\ z[i] <= z[i]
    BY <2>1, <2>2
  <2>7. \A n \in (1..Records) \ T : \A i, j \in DOMAIN ps : ~(z[i] < n /\ n <= z[j])
    BY <2>5, <2>6
  <2>8. Laid(ps, T, z, z)
    BY <2>1, <2>2, <2>3, <2>4, <2>6, <2>7 DEF Laid
  <2> QED
    BY <2>8 DEF LaidOut, ps
<1> QED
  BY <1>2, <1>3, <1>4, <1>5, <1>6

\* The pages with an item of the application at an end.
Drafted(os, k, e) ==
  IF os = <<>> THEN <<[keys |-> <<k>>, previous |-> NoCursor, next |-> NoCursor]>>
  ELSE IF e = "previous" THEN [os EXCEPT ![1].keys = <<k>> \o @]
  ELSE [os EXCEPT ![Len(os)].keys = Append(@, k)]

\* They hold it there, and continue each other as before.
LEMMA DraftedFacts ==
  ASSUME NEW os \in Seq(Page), Once(os), NEW k \in Drafts, k \notin Held(os), NEW e \in Edges,
         NEW a,
         NEW ps, ps = Drafted(os, k, e)
  PROVE  /\ ps \in Seq(Page) /\ Once(ps) /\ Rooted(ps, e, a, k)
         /\ \A T : LaidOut(os, T) => LaidOut(ps, T)
PROOF
<1>1. CASE os = <<>>
  <2> DEFINE q == [keys |-> <<k>>, previous |-> NoCursor, next |-> NoCursor]
  <2>1. ps = <<q>>
    BY <1>1 DEF Drafted
  <2> HIDE DEF q
  <2>2. /\ <<q>> \in Seq(Page) /\ Once(<<q>>) /\ (\A T : LaidOut(<<q>>, T))
        /\ Len(<<q>>) = 1 /\ 1 \in DOMAIN <<q>>
        /\ \E m \in DOMAIN <<q>>[1].keys : <<q>>[1].keys[m] = k
    BY DraftPage DEF q
  <2> QED
    BY <2>1, <2>2 DEF Rooted
<1>2. CASE os # <<>>
  <2>0. k \in ItemKeys
    BY DEF ItemKeys
  <2>1. 1 \in DOMAIN os /\ Len(os) \in DOMAIN os /\ Len(os) \in Nat
    BY <1>2
  <2>2. CASE e = "previous"
    <3> DEFINE t == <<k>> \o os[1].keys
    <3>1. t \in Seq(ItemKeys) /\ Grown(t, os[1].keys, k)
      BY <2>0, <2>1, PageFacts, GrownFacts
    <3>2. ps = WithKeys(os, 1, t)
      BY <1>2, <2>2 DEF WithKeys, Drafted
    <3> HIDE DEF t
    <3>3. /\ ps \in Seq(Page) /\ Len(ps) = Len(os)
          /\ \E m \in DOMAIN ps[1].keys : ps[1].keys[m] = k
          /\ Once(os) => Once(ps)
          /\ \A T : LaidOut(os, T) => LaidOut(ps, T)
      BY <2>1, <3>1, <3>2, GrownPage
    <3>4. 1 \in DOMAIN ps
      BY <2>1, <3>3
    <3> QED
      BY <2>2, <3>3, <3>4 DEF Rooted
  <2>3. CASE e # "previous"
    <3> DEFINE l == Len(os)
               t == Append(os[l].keys, k)
    <3>1. t \in Seq(ItemKeys) /\ Grown(t, os[l].keys, k)
      BY <2>0, <2>1, PageFacts, GrownFacts
    <3>2. ps = WithKeys(os, l, t)
      BY <1>2, <2>3 DEF WithKeys, Drafted
    <3> HIDE DEF t
    <3>3. /\ ps \in Seq(Page) /\ Len(ps) = l
          /\ \E m \in DOMAIN ps[l].keys : ps[l].keys[m] = k
          /\ Once(os) => Once(ps)
          /\ \A T : LaidOut(os, T) => LaidOut(ps, T)
      BY <2>1, <3>1, <3>2, GrownPage
    <3>4. l \in DOMAIN ps
      BY <2>1, <3>3
    <3> QED
      BY <2>3, <3>3, <3>4 DEF Rooted
  <2> QED
    BY <2>2, <2>3
<1> QED
  BY <1>1, <1>2

\* An item is inserted at an end, where it was removed from if it was held, and evict restores
\* the budget around the anchor.
LEMMA InsertKeeps ==
  ASSUME CollectionInv, NEW k \in Drafts, NEW e \in Edges, InsertItem(k, e)
  PROVE  CollectionInv'
PROOF
<1> DEFINE os == IF k \in Held(pages) THEN PruneEmptyInterior(RemoveKeys(pages, {k})) ELSE pages
           ps == Drafted(os, k, e)
           a == AnchorWithout(k)
<1>1. /\ Evict(ps, e, a) /\ status' = "ready" /\ touched' = touched \cup {k}
      /\ overtaken' = (overtaken \/ /\ active.direction \in Edges
                                    /\ EdgeCursor(pages', active.direction) # active.cursor)
      /\ UNCHANGED active /\ UNCHANGED errors /\ UNCHANGED generation /\ UNCHANGED stale
      /\ UNCHANGED consumed /\ UNCHANGED calls /\ UNCHANGED strayed
      /\ UNCHANGED skipped /\ UNCHANGED wronged
  BY DEF InsertItem, Drafted
<1>2. pages \in Seq(Page) /\ Once(pages) /\ k \in ItemKeys
  BY DEF CollectionInv, CollectionTypeOK, ItemKeys
<1>3. /\ os \in Seq(Page) /\ Once(os) /\ k \notin Held(os)
      /\ \A T : LaidOut(pages, T) => LaidOut(os, T \cup {k})
  <2>1. CASE k \in Held(pages)
    BY <1>2, <2>1, WithoutItem
  <2>2. CASE k \notin Held(pages)
    <3>1. ASSUME NEW T, LaidOut(pages, T) PROVE LaidOut(pages, T \cup {k})
      <4>1. PICK from, to : Laid(pages, T, from, to)
        BY <3>1 DEF LaidOut
      <4>2. Laid(pages, T \cup {k}, from, to)
        BY <1>2, <4>1, TouchedLaid
      <4> QED
        BY <4>2 DEF LaidOut
    <3> QED
      BY <1>2, <2>2, <3>1
  <2> QED
    BY <2>1, <2>2
<1> HIDE DEF os
<1>4. /\ ps \in Seq(Page) /\ Once(ps) /\ Rooted(ps, e, a, k)
      /\ \A T : LaidOut(os, T) => LaidOut(ps, T)
  BY <1>3, DraftedFacts
<1> HIDE DEF ps
<1>5. a \in ItemKeys \cup {NoKey}
  BY DEF AnchorWithout, CollectionInv, CollectionTypeOK
<1> HIDE DEF a
<1>6. /\ pages' \in Seq(Page) /\ Once(pages') /\ ~OverBudget(pages')
      /\ anchor' \in ItemKeys \cup {NoKey} /\ (anchor' # NoKey => anchor' \in Held(pages'))
      /\ Remains(pages', ps, e, a)
  BY <1>1, <1>4, <1>5, EvictKeeps
<1>7. Rooted(pages', e, a, k)
  BY <1>4, <1>6 DEF Remains
<1>8. ItemCount(pages') > 0
  <2>1. Held(pages') # {}
    BY <1>6, <1>7, PageFacts DEF Rooted
  <2> QED
    BY <1>6, <2>1, SpotFacts
<1>9. CollectionTypeOK'
  <2>1. overtaken' \in BOOLEAN /\ touched' \subseteq ItemKeys
    BY <1>1, <1>2 DEF CollectionInv, CollectionTypeOK
  <2> QED
    BY <1>1, <1>6, <2>1 DEF CollectionInv, CollectionTypeOK
<1>10. StatusTellsContent'
  BY <1>1, <1>8 DEF StatusTellsContent
<1>11. EdgeStays'
  BY <1>1 DEF CollectionInv, EdgeStays
<1>12. ~strayed' /\ ~skipped' => LaidOut(pages', touched')
  BY <1>1, <1>3, <1>4, <1>6 DEF CollectionInv, Remains
<1> QED
  BY <1>6, <1>9, <1>10, <1>11, <1>12 DEF CollectionInv

\* No operation breaks it.
LEMMA CollectionStep == CollectionInv /\ [CollectionNext]_collectionVars => CollectionInv'
PROOF
<1> SUFFICES ASSUME CollectionInv, [CollectionNext]_collectionVars PROVE CollectionInv'
  OBVIOUS
<1>1. ASSUME NEW d \in Directions, NEW c \in Cursors \cup {NoCursor}, Begin(d, c)
      PROVE  CollectionInv'
  BY <1>1, BeginKeepsPages
<1>2. ASSUME NEW t \in calls, Reject(t) PROVE CollectionInv'
  BY <1>2, RejectKeeps
<1>3. ASSUME NEW t \in calls, NEW p \in Parts, Resolve(t, p) PROVE CollectionInv'
  BY <1>3, ResolveKeeps
<1>4. ASSUME Cancel PROVE CollectionInv'
  BY <1>4, CancelKeeps
<1>5. ASSUME Invalidate \/ \E k \in ItemKeys \cup {NoKey} : SetAnchor(k) PROVE CollectionInv'
  BY <1>5, MarkKeeps
<1>6. ASSUME ResetPages PROVE CollectionInv'
  BY <1>6, ResetKeeps
<1>7. ASSUME NEW k \in ItemKeys, RemoveItem(k) PROVE CollectionInv'
  BY <1>7, RemoveKeeps
<1>8. ASSUME NEW k \in Drafts, NEW e \in Edges, InsertItem(k, e) PROVE CollectionInv'
  BY <1>8, InsertKeeps
<1>9. ASSUME UNCHANGED collectionVars PROVE CollectionInv'
  <2>1. /\ UNCHANGED status /\ UNCHANGED pages /\ UNCHANGED active /\ UNCHANGED errors
        /\ UNCHANGED generation /\ UNCHANGED stale /\ UNCHANGED anchor /\ UNCHANGED consumed
        /\ UNCHANGED calls /\ UNCHANGED touched /\ UNCHANGED strayed /\ UNCHANGED overtaken
        /\ UNCHANGED skipped /\ UNCHANGED wronged
    BY <1>9 DEF collectionVars
  <2>2. CollectionTypeOK'
    BY <2>1 DEF CollectionInv, CollectionTypeOK
  <2>3. StatusTellsContent' /\ EdgeStays'
    BY <2>1 DEF CollectionInv, StatusTellsContent, EdgeStays
  <2> QED
    BY <2>1, <2>2, <2>3 DEF CollectionInv
<1> QED
  BY <1>1, <1>2, <1>3, <1>4, <1>5, <1>6, <1>7, <1>8, <1>9 DEF CollectionNext

\* Pages that are laid out continue each other.
LEMMA LaidContinues ==
  ASSUME CollectionInv
  PROVE  KeysOnce /\ RecordsContinue
PROOF
<1>1. pages \in Seq(Page) /\ Once(pages)
  BY DEF CollectionInv, CollectionTypeOK
<1>2. KeysOnce
  <2> SUFFICES ASSUME NEW x \in Spots(pages), NEW y \in Spots(pages),
                      KeyAt(pages, x) = KeyAt(pages, y)
               PROVE  x = y
    BY DEF KeysOnce
  <2>1. PICK i \in DOMAIN pages : \E m \in DOMAIN pages[i].keys : x = <<i, m>>
    BY <1>1, SpotFacts
  <2>2. PICK m \in DOMAIN pages[i].keys : x = <<i, m>>
    BY <2>1
  <2>3. PICK j \in DOMAIN pages : \E n \in DOMAIN pages[j].keys : y = <<j, n>>
    BY <1>1, SpotFacts
  <2>4. PICK n \in DOMAIN pages[j].keys : y = <<j, n>>
    BY <2>3
  <2>5. pages[i].keys[m] = pages[j].keys[n]
    BY <2>2, <2>4 DEF KeyAt
  <2>6. i = j /\ m = n
    BY <1>1, <2>5 DEF Once
  <2> QED
    BY <2>2, <2>4, <2>6
<1>3. RecordsContinue
  <2> SUFFICES ASSUME ~strayed, ~skipped, NEW x \in Spots(pages), NEW y \in Spots(pages),
                      Precedes(x, y), KeyAt(pages, x) \in Untouched, KeyAt(pages, y) \in Untouched
               PROVE  /\ KeyAt(pages, x) < KeyAt(pages, y)
                      /\ KeyAt(pages, x)..KeyAt(pages, y) \cap Untouched \subseteq Held(pages)
    BY DEF RecordsContinue
  <2> DEFINE U == (1..Records) \ touched
             k == KeyAt(pages, x)
             l == KeyAt(pages, y)
  <2>1. PICK i \in DOMAIN pages : \E m \in DOMAIN pages[i].keys : x = <<i, m>>
    BY <1>1, SpotFacts
  <2>2. PICK m \in DOMAIN pages[i].keys : x = <<i, m>>
    BY <2>1
  <2>3. PICK j \in DOMAIN pages : \E n \in DOMAIN pages[j].keys : y = <<j, n>>
    BY <1>1, SpotFacts
  <2>4. PICK n \in DOMAIN pages[j].keys : y = <<j, n>>
    BY <2>3
  <2>5. k = pages[i].keys[m] /\ l = pages[j].keys[n] /\ k \in U /\ l \in U
    BY <2>2, <2>4 DEF KeyAt, Untouched
  <2>6. i < j \/ (i = j /\ m < n)
    BY <2>2, <2>4 DEF Precedes
  <2>7. PICK from, to : Laid(pages, touched, from, to)
    BY DEF CollectionInv, LaidOut
  <2> HIDE DEF k, l
  <2>8. from[i] < k /\ k <= to[i] /\ from[j] < l /\ l <= to[j]
    BY <2>5, <2>7 DEF Laid
  <2>9. k \in Nat /\ l \in Nat /\ to[i] \in Nat /\ from[j] \in Nat /\ from[i] \in Nat /\ to[j] \in Nat
    <3>1. Cursors \subseteq Nat /\ U \subseteq Nat
      BY CollectionAssumption DEF Cursors
    <3>2. from \in [DOMAIN pages -> Cursors] /\ to \in [DOMAIN pages -> Cursors]
      BY <2>7 DEF Laid
    <3> QED
      BY <2>5, <3>1, <3>2
  <2>10. k < l
    <3>1. CASE i < j
      <4>1. to[i] <= from[j]
        BY <2>7, <3>1 DEF Laid
      <4> QED
        BY <2>8, <2>9, <4>1
    <3>2. CASE i = j /\ m < n
      BY <2>5, <2>7, <3>2 DEF Laid
    <3> QED
      BY <2>6, <3>1, <3>2
  <2>11. ASSUME NEW r \in k..l, r \in U PROVE r \in Held(pages)
    <3>1. from[i] < r /\ r <= to[j]
      BY <2>8, <2>9
    <3> QED
      BY <2>7, <2>11, <3>1 DEF Laid
  <2> QED
    BY <2>10, <2>11 DEF k, l, Untouched
<1> QED
  BY <1>2, <1>3

\* So the window is sound, and the records in it continue each other.
LEMMA CollectionInvHolds == CollectionInv => CollectionHolds /\ CollectionTypeOK
BY LaidContinues DEF CollectionInv, WindowIsSound, CollectionHolds

\* The pages of a collection keep to their budget, no key is twice in them, the anchor is
\* held, the status tells whether there are items, and while pages continue what is loaded
\* the records are in their order without gaps, whatever is loaded, inserted, removed,
\* cancelled and evicted (collection.luau).
THEOREM CollectionSound == CollectionSpec => []CollectionHolds
PROOF
<1>1. CollectionSpec => []CollectionInv
  BY CollectionStarts, CollectionStep, PTL DEF CollectionSpec
<1> QED
  BY <1>1, CollectionInvHolds, PTL

\* Its state is always of the types of the code.
THEOREM CollectionTypeCorrect == CollectionSpec => []CollectionTypeOK
PROOF
<1>1. CollectionSpec => []CollectionInv
  BY CollectionStarts, CollectionStep, PTL DEF CollectionSpec
<1> QED
  BY <1>1, CollectionInvHolds, PTL
-----------------------------------------------------------------------------
\* In a run of all of the SDK's states each does what it does by itself, or nothing.
THEOREM SdkStatesAreRun == SdkSpec => Spec /\ CollectionSpec /\ HistorySpec
PROOF
<1>1. SdkInit => Init /\ CollectionInit /\ HistoryInit
  BY DEF SdkInit
<1>2. ASSUME [SdkNext]_<<vars, collectionVars, historyVars, kind>>
      PROVE  [Next]_vars /\ [CollectionNext]_collectionVars /\ [HistoryNext]_historyVars
  BY <1>2 DEF SdkNext
<1> QED
  BY <1>1, <1>2, PTL DEF SdkSpec, Spec, CollectionSpec, HistorySpec

\* So together they keep to their types, for any number of features, requests, records, places
\* and moves.
THEOREM SdkTypeCorrect == SdkSpec => []SdkTypeOK
PROOF
<1>1. TypeOK /\ CollectionTypeOK /\ HistoryTypeOK => SdkTypeOK
  BY DEF SdkTypeOK
<1> QED
  BY <1>1, SdkStatesAreRun, AppTypeCorrect, CollectionTypeCorrect, HistoryTypeCorrect, PTL
=============================================================================
