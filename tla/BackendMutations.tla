--------------------------- MODULE BackendMutations ---------------------------
(***************************************************************************)
(* The backend runtime (backend/runtime.mjs) executing mutations called    *)
(* with an idempotency key.  The mutation is the commit of an upload, and  *)
(* of the upload store only its promise is used; each execution is one     *)
(* call of commit.                                                         *)
(***************************************************************************)
EXTENDS UploadPromise, Idempotency

CONSTANTS MaxTime   \* bound on the clock

ASSUME MutationsAssumption ==
  /\ Calls = Committers /\ Inputs = Uploads
  /\ MaxEntries \in Nat /\ KeyTtl \in Nat \ {0} /\ MaxTime \in Nat

runVars == <<now, cache, inserted, call, dropped>>
vars == <<promiseVars, runVars>>

\* types, and the size of the cache between two prunes
TypeOK == now \in Nat /\ PromiseTypeOK /\ IdempotencyTypeOK

Init == PromiseInit /\ IdempotencyInit

\* execute runs the handler of a new key at once; a known key is only answered
CallBegins(c, k, u) ==
  /\ Start(c, k, u)
  /\ Ask(c, u) \/ AskInVain(c, u)
  /\ UNCHANGED now

CallKnown(c, k, u) ==
  /\ Join(c, k, u) \/ Reject(c, k, u)
  /\ UNCHANGED <<promiseVars, now>>

\* The handler returned.  A caller who went away meanwhile turns its result into
\* CANCELLED.
CallEnds(c) ==
  /\ \/ outcome[c] = "published" /\ Succeed(c)
     \/ outcome[c] \in {"published", "failed"} /\ Fail(c)
  /\ UNCHANGED <<promiseVars, now>>

HandlerStep(c) == Executing(c) /\ Commits(c) /\ UNCHANGED runVars

UploadsStep ==
  /\ \E u \in Uploads : Arrive(u) \/ Drop(u) \/ Delete(u)
  /\ UNCHANGED runVars

Tick ==
  /\ now < MaxTime
  /\ now' = now + 1
  /\ UNCHANGED <<promiseVars, cache, inserted, call, dropped>>

Next ==
  \/ UploadsStep \/ Tick
  \/ \E c \in Calls :
       \/ CallEnds(c) \/ HandlerStep(c)
       \/ \E k \in Keys, u \in Uploads : CallBegins(c, k, u) \/ CallKnown(c, k, u)

Spec == Init /\ [][Next]_vars
-----------------------------------------------------------------------------
(* Properties. *)

\* A success is told only for the upload the caller named, and only if one
\* execution published it, also when it is answered from the cache.
SuccessIsPublication ==
  \A c \in Calls : call[c].at = "done" =>
    /\ outcome[call[c].exec] = "published"
    /\ target[call[c].exec] = call[c].input

\* A retry with the same key is answered by the one execution it repeats.
RetriesAreAnsweredOnce == OneExecutionPerKey /\ SuccessIsPublication
=============================================================================
