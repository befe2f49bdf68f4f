----------------------------- MODULE Idempotency -----------------------------
(***************************************************************************)
(* The idempotency cache of the backend runtime (backend/runtime.mjs):     *)
(* mutations called with an idempotency key share the execution of the     *)
(* first call with that key.  What a call executes is a parameter of the   *)
(* module that composes this one with a handler.                           *)
(***************************************************************************)
EXTENDS Integers, FiniteSets

CONSTANTS
  Calls,        \* calls of a mutation with a key
  Keys,         \* principal, operation and idempotency key
  Inputs,       \* what inputHash tells apart
  Nothing,      \* neither a key nor an input
  MaxEntries,   \* maximumIdempotencyEntries
  KeyTtl        \* idempotencyTtlMs

VARIABLES
  now,      \* now()
  cache,    \* the entries of the map idempotency
  inserted, \* entries inserted so far: they number its insertion order
  call,     \* where each call is, and whose execution it is answered by
  dropped   \* keys whose entry went while its execution was running

Entry == [key: Keys, input: Inputs, exec: Calls, until: Nat, order: Nat]
CallStates == {"idle", "executing", "waiting", "done", "failed", "rejected"}

IdempotencyTypeOK ==
  /\ cache \subseteq Entry /\ Cardinality(cache) <= MaxEntries + 1
  /\ inserted \in Nat
  /\ call \in [Calls -> [at: CallStates, key: Keys \cup {Nothing},
                     input: Inputs \cup {Nothing}, exec: Calls]]
  /\ dropped \subseteq Keys

IdempotencyInit ==
  /\ now = 0 /\ cache = {} /\ inserted = 0 /\ dropped = {}
  /\ call = [c \in Calls |-> [at |-> "idle", key |-> Nothing, input |-> Nothing,
                              exec |-> c]]
-----------------------------------------------------------------------------
Executing(c) == call[c].at = "executing"

\* prune: expired entries go, then the oldest ones down to the limit
Live == {e \in cache : e.until > now}
InsertedAfter(e) == {f \in Live : f.order > e.order}
Pruned == {e \in Live : Cardinality(InsertedAfter(e)) < MaxEntries}

Known(k) == {e \in Pruned : e.key = k}

\* keys that prune or a failure takes from a running execution
Lost(entries) == {e.key : e \in {f \in cache \ entries : Executing(f.exec)}}

Answer(c, k, in, place, exec) ==
  call' = [call EXCEPT ![c] = [at |-> place, key |-> k, input |-> in, exec |-> exec]]

SameInput(e, in) == e.input = in

\* the key is known: the call is answered by the execution that has it
Join(c, k, in) ==
  /\ call[c].at = "idle"
  /\ cache' = Pruned /\ UNCHANGED inserted
  /\ dropped' = dropped \cup Lost(Pruned)
  /\ \E e \in Known(k) :
       /\ SameInput(e, in)
       /\ Answer(c, k, in, IF Executing(e.exec) THEN "waiting" ELSE "done", e.exec)

Reject(c, k, in) ==
  /\ call[c].at = "idle"
  /\ cache' = Pruned /\ UNCHANGED inserted
  /\ dropped' = dropped \cup Lost(Pruned)
  /\ \E e \in Known(k) :
       /\ ~SameInput(e, in)
       /\ Answer(c, k, in, "rejected", c)

\* Faulty: the entry is stored when the execution succeeded, not when it began.
RememberedNot(c, k, in) == Pruned

Remembered(c, k, in) ==
  Pruned \cup {[key |-> k, input |-> in, exec |-> c, until |-> now + KeyTtl,
                order |-> inserted]}

Start(c, k, in) ==
  /\ call[c].at = "idle"
  /\ Known(k) = {}
  /\ cache' = Remembered(c, k, in) /\ inserted' = inserted + 1
  /\ dropped' = dropped \cup Lost(Pruned)
  /\ Answer(c, k, in, "executing", c)

AnsweredBy(c, place) ==
  [d \in Calls |-> IF call[d].exec = c /\ call[d].at \in {"executing", "waiting"}
                   THEN [call[d] EXCEPT !.at = place] ELSE call[d]]

\* all who waited get the result
Succeed(c) ==
  /\ Executing(c)
  /\ call' = AnsweredBy(c, "done")
  /\ UNCHANGED <<cache, inserted, dropped>>

Forgotten(k) == {e \in cache : e.key # k}

\* all who waited get the error, and the key is forgotten, whoever has it now
Fail(c) ==
  /\ Executing(c)
  /\ call' = AnsweredBy(c, "failed")
  /\ LET left == Forgotten(call[c].key) IN
     /\ cache' = left /\ UNCHANGED inserted
     /\ dropped' = dropped \cup {e.key : e \in {f \in cache \ left :
                                                  Executing(f.exec) /\ f.exec # c}}
-----------------------------------------------------------------------------
(* Properties. *)

\* "a stable key allowing a retryable operation to avoid duplicate effects": two
\* executions under one key overlap only if the first one's entry expired, was
\* pushed out, or was deleted by the failure of a still older execution.
OneExecutionPerKey ==
  \A c, d \in Calls :
    c # d /\ Executing(c) /\ Executing(d) /\ call[c].key = call[d].key
      => call[c].key \in dropped
=============================================================================
