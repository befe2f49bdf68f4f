----------------------------- MODULE HostRequests -----------------------------
(***************************************************************************)
(* Requests of the application to the host: the VM's request queue         *)
(* (platform/source-build/runtime/vm_wasm.cpp), the processRequests loops  *)
(* of platform/host/main.js, and the transports' deadlines                 *)
(* (platform/host/rpc-capabilities.mjs, content-capabilities.mjs).         *)
(*                                                                         *)
(* JavaScript runs a loop from one await to the next without interruption, *)
(* and a loop awaits only the handler of the request it took; hence one    *)
(* step runs a loop from one handler's answer to the next handler's call.  *)
(* Every UI event, media state and upload progress starts a loop of its    *)
(* own, and the queue of host events runs one after each event.            *)
(***************************************************************************)
EXTENDS Integers, Sequences, FiniteSets

CONSTANTS
  Loops,         \* processRequests calls that can be under way at once
  NoRequest,          \* a loop that is not under way
  Kinds,         \* request kinds, see below
  Deadline,      \* deadlineMs of a request
  InFlight,      \* inFlightRequests, of the VM and of the ledger
  MaxRequests,   \* bound on the requests the application makes
  MaxBurst,      \* bound on the requests one application turn makes
  MaxTime        \* bound on the clock

\* "rpc" and "upload" have a transport that aborts at the deadline, "plugin"
\* (storage, clipboard, file picker) has none, "timer" answers at once and its
\* answer is not passed to the application.
AllKinds == {"rpc", "upload", "plugin", "timer"}

Ids == 1..MaxRequests

ASSUME HostAssumption ==
  /\ NoRequest \notin Ids
  /\ Kinds \subseteq AllKinds
  /\ Deadline \in Nat \ {0} /\ InFlight \in Nat \ {0}
  /\ MaxRequests \in Nat /\ MaxBurst \in Nat /\ MaxTime \in Nat

VARIABLES
  now,       \* performance.now()
  made,      \* nextRequestId - 1 of the VM session
  kind,      \* kind of each request made
  requestQueue,     \* requestQueue: made and not yet taken
  slots,     \* pendingRequests of the VM session
  ledger,    \* deadlineAt of the requests in the host's ledger
  loop,      \* the request each loop awaits
  answer,    \* what the handler answered
  outcome,      \* what the application was told
  failed     \* showFailure was called

requestVars == <<now, made, kind, requestQueue, slots, ledger, loop, answer, outcome, failed>>

Answers == {"none", "ok", "error", "DEADLINE", "invalid"}

RequestsTypeOK ==
  /\ now \in Nat /\ made \in 0..MaxRequests
  /\ kind \in [Ids -> AllKinds \cup {"none"}]
  /\ requestQueue \in Seq(Ids) /\ slots \subseteq Ids /\ Cardinality(slots) <= InFlight
  /\ DOMAIN ledger \subseteq Ids /\ ledger \in [DOMAIN ledger -> Nat]
  /\ loop \in [Loops -> Ids \cup {NoRequest}]
  /\ answer \in [Ids -> Answers]
  /\ outcome \in [Ids -> Answers \cup {"unreported"}]
  /\ failed \in BOOLEAN

RequestsInit ==
  /\ now = 0 /\ made = 0
  /\ kind = [id \in Ids |-> "none"]
  /\ requestQueue = <<>> /\ slots = {}
  /\ ledger = [id \in {} |-> 0]
  /\ loop = [l \in Loops |-> NoRequest]
  /\ answer = [id \in Ids |-> "none"]
  /\ outcome = [id \in Ids |-> "none"]
  /\ failed = FALSE
-----------------------------------------------------------------------------
(* One turn of the application, and what follows it in the same step. *)

Handling == {loop[l] : l \in Loops} \ {NoRequest}
NewIds(n) == (made + 1)..(made + n)
Without(f, id) == [i \in DOMAIN f \ {id} |-> f[i]]

\* HostCapability.request: an application turn makes n requests, as long as
\* the VM has room; free slots are those of `held` that the turn leaves.
Requested(n, held) ==
  /\ n <= MaxBurst /\ made + n <= MaxRequests
  /\ Cardinality(held) + n <= InFlight
  /\ made' = made + n
  /\ slots' = held \cup NewIds(n)
  /\ \E k \in [NewIds(n) -> Kinds] :
       kind' = [id \in Ids |-> IF id \in NewIds(n) THEN k[id] ELSE kind[id]]

\* Faulty: a loop handles one request and ends.
NextTakenOnce(l, q, begun) ==
  /\ loop' = [loop EXCEPT ![l] = NoRequest]
  /\ requestQueue' = q
  /\ ledger' = begun

\* takeRequest and ledger.begin: the loop goes on with the oldest request of
\* q, if there is one, and awaits its handler
NextTaken(l, q, begun) ==
  IF q = <<>>
  THEN /\ loop' = [loop EXCEPT ![l] = NoRequest]
       /\ requestQueue' = q
       /\ ledger' = begun
  ELSE /\ loop' = [loop EXCEPT ![l] = Head(q)]
       /\ requestQueue' = Tail(q)
       /\ ledger' = [id \in DOMAIN begun \cup {Head(q)} |->
                       IF id = Head(q) THEN now + Deadline ELSE begun[id]]

Extended(q, n) == q \o [i \in 1..n |-> made + i]

\* An event is dispatched to the application and a loop is started.
DispatchEvent(l) ==
  /\ loop[l] = NoRequest
  /\ \E n \in 0..MaxBurst :
       Requested(n, slots) /\ NextTaken(l, Extended(requestQueue, n), ledger)
  /\ UNCHANGED <<now, answer, outcome, failed>>

\* The application raised, perhaps because the VM had no room for another
\* request: what it requested before that stays queued, no loop is started.
DispatchRaises ==
  /\ \E n \in 0..MaxBurst :
       Requested(n, slots) /\ requestQueue' = Extended(requestQueue, n)
  /\ failed' = TRUE
  /\ UNCHANGED <<now, ledger, loop, answer, outcome>>
-----------------------------------------------------------------------------
(* Handlers. *)

Awaited(id) == id \in Handling /\ answer[id] = "none"
HasDeadline(id) == kind[id] \in {"rpc", "upload"}

Answered(id, a) ==
  /\ Awaited(id)
  /\ answer' = [answer EXCEPT ![id] = a]
  /\ UNCHANGED <<now, made, kind, requestQueue, slots, ledger, loop, outcome, failed>>

HandlerOk(id) == Answered(id, "ok")

\* NETWORK, FORBIDDEN, VALIDATION, CANCELLED, ...
HandlerError(id) == kind[id] # "timer" /\ Answered(id, "error")

\* the answer breaks the protocol: a stored value over the string limit
HandlerInvalid(id) == kind[id] = "plugin" /\ Answered(id, "invalid")

\* the timer the transport armed after ledger.begin, for deadlineMs
HandlerDeadline(id) ==
  /\ Awaited(id) /\ HasDeadline(id) /\ now >= ledger[id]
  /\ Answered(id, "DEADLINE")
-----------------------------------------------------------------------------
(* A loop goes on when its handler answered. *)

Ready(l) == loop[l] # NoRequest /\ answer[loop[l]] # "none"
Overdue(id) == now >= ledger[id]

\* fail(): the loop ends with an error, other loops and the VM go on
StopLoop(l, left) ==
  /\ loop' = [loop EXCEPT ![l] = NoRequest]
  /\ ledger' = left
  /\ failed' = TRUE
  /\ UNCHANGED <<now, made, kind, requestQueue, slots, answer, outcome>>

\* host handler rejected request: before the ledger was asked
LoopRejects(l) ==
  /\ Ready(l) /\ answer[loop[l]] = "invalid"
  /\ StopLoop(l, ledger)

\* host ledger rejected response: DEADLINE
LoopOverdue(l) ==
  /\ Ready(l) /\ answer[loop[l]] # "invalid"
  /\ Overdue(loop[l])
  /\ StopLoop(l, Without(ledger, loop[l]))

InTime(l) == Ready(l) /\ answer[loop[l]] # "invalid" /\ ~Overdue(loop[l])

\* resolveRpc frees the slot and calls app.resolve, except for a timer
Tell(l) ==
  LET id == loop[l] IN
  outcome' = [outcome EXCEPT ![id] = IF kind[id] = "timer" THEN "unreported" ELSE answer[id]]

\* Faulty: resolveRpc keeps the slot of a request it resolved.
FreedKept(id) == slots

Freed(id) == slots \ {id}

LoopResolves(l) ==
  /\ InTime(l)
  /\ Tell(l)
  /\ \E n \in (IF kind[loop[l]] = "timer" THEN {0} ELSE 0..MaxBurst) :
       /\ Requested(n, Freed(loop[l]))
       /\ NextTaken(l, Extended(requestQueue, n), Without(ledger, loop[l]))
  /\ UNCHANGED <<now, answer, failed>>

\* app.resolve raised: the request is settled, the loop ends
LoopResolveRaises(l) ==
  /\ InTime(l) /\ kind[loop[l]] # "timer"
  /\ Tell(l)
  /\ \E n \in 0..MaxBurst :
       Requested(n, Freed(loop[l])) /\ requestQueue' = Extended(requestQueue, n)
  /\ loop' = [loop EXCEPT ![l] = NoRequest]
  /\ ledger' = Without(ledger, loop[l])
  /\ failed' = TRUE
  /\ UNCHANGED <<now, answer>>

Resume(l) == LoopRejects(l) \/ LoopOverdue(l) \/ LoopResolves(l) \/ LoopResolveRaises(l)

\* A timer's handler does not await anything: it answers before time passes.
Tick ==
  /\ now < MaxTime
  /\ \A id \in Handling : kind[id] # "timer"
  /\ now' = now + 1
  /\ UNCHANGED <<made, kind, requestQueue, slots, ledger, loop, answer, outcome, failed>>

RequestsNext ==
  \/ DispatchRaises \/ Tick
  \/ \E l \in Loops : DispatchEvent(l) \/ Resume(l)
  \/ \E id \in Ids : HandlerOk(id) \/ HandlerError(id) \/ HandlerInvalid(id)
                     \/ HandlerDeadline(id)

RequestsSpec == RequestsInit /\ [][RequestsNext]_requestVars

\* handlers answer, in whatever time, and the event loop resumes the loops
RequestsFairness ==
  /\ \A l \in Loops : WF_requestVars(Resume(l))
  /\ \A id \in Ids : WF_requestVars(HandlerOk(id))
-----------------------------------------------------------------------------
(* Properties. *)

\* However many loops run, the books agree with them.  Each request is handled
\* by one loop; the ledger holds the requests being handled, and after a failure
\* those whose handler broke the protocol, so ledger.begin never refuses one; and
\* the VM's slots, which limit the requests in flight, hold what is queued or
\* handled for as long as the host did not fail.
Queued == {requestQueue[i] : i \in 1..Len(requestQueue)}

BooksMirrorLoops ==
  /\ \A l, m \in Loops : l # m /\ loop[l] # NoRequest => loop[l] # loop[m]
  /\ Handling \subseteq DOMAIN ledger
  /\ \A id \in DOMAIN ledger \ Handling : failed /\ answer[id] = "invalid"
  /\ Queued \cup Handling \subseteq slots
  /\ ~failed => slots = Queued \cup Handling

\* An answer that came is either told to the application as it was given or
\* given up with an error on the page; it is never silently dropped.
AnswersAccounted ==
  \A id \in 1..made :
    answer[id] # "none" /\ id \notin Handling =>
      \/ outcome[id] = answer[id]
      \/ outcome[id] = "unreported" /\ kind[id] = "timer"
      \/ outcome[id] = "none" /\ failed

\* Requests, loops, books and answers agree, also when loops raise or fail half-way.
RequestsAccounted == BooksMirrorLoops /\ AnswersAccounted

\* Every request is told its outcome in the end, unless the host failed (the
\* application makes no more than MaxRequests, so there is a last one).
EveryRequestAnswered ==
  <>[](\A id \in 1..made : outcome[id] # "none" \/ failed)

\* "deadline ... reaches the bounded failure path": a loop whose transport
\* answered DEADLINE tells the application so.
DeadlineReachesApp ==
  [][\A l \in Loops :
       Ready(l) /\ answer[loop[l]] = "DEADLINE" /\ loop'[l] # loop[l]
         => outcome'[loop[l]] = "DEADLINE"]_requestVars
=============================================================================
