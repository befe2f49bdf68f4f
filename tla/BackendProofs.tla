----------------------------- MODULE BackendProofs -----------------------------
(***************************************************************************)
(* Theorems about the backend's runtime, records, sessions and grants.     *)
(*                                                                         *)
(* First what an upload store that keeps UploadPromise gives its callers,  *)
(* and mutations called with idempotency keys that rely on it, for any     *)
(* number of calls, keys and uploads, any size of the cache and any life   *)
(* of its entries.  Then the tables of sessions and grants at any limit,   *)
(* and pages of any length through any collection of records, whoever      *)
(* writes meanwhile.  Last, all that the backend's runs check of types and *)
(* entries, of the same specification as they run.                         *)
(***************************************************************************)
EXTENDS MCBackend, ContentUploadsProofs, SequenceTheorems, WellFoundedInduction
-----------------------------------------------------------------------------
(* The promise of the upload store. *)

Asking(c) == outcome[c] \in {"running", "publishing", "published"}

\* PublishedStays, and every call under way names an upload.
PromiseInv ==
  /\ PromiseTypeOK
  /\ \A c \in Committers : Asking(c) => target[c] \in Uploads
  /\ PublishedStays

\* No call is under way at first.
LEMMA PromiseStarts == PromiseInit => PromiseInv
  BY DEF PromiseInit, PromiseInv, PromiseTypeOK, Asking, PublishedStays

\* An image changes hands only along none, uploaded, dropped or published, and
\* deleted: one that was published to a call is never made available again.
LEMMA ImageSteps ==
  ASSUME PromiseInv, NEW u \in Uploads, Arrive(u) \/ Drop(u) \/ Delete(u)
  PROVE  PromiseInv'
<1> USE DEF PromiseInv, PromiseTypeOK, Asking, Become
<1>1. UNCHANGED <<outcome, target>>
  BY DEF Arrive, Drop, Delete
<1>2. /\ object' \in [Uploads -> {"none", "uploaded", "dropped", "published", "deleted"}]
      /\ \A v \in Uploads :
           object[v] \in {"published", "deleted"} => object'[v] \in {"published", "deleted"}
  BY DEF Arrive, Drop, Delete
<1> QED
  BY <1>1, <1>2 DEF PublishedStays

\* A call is only moved along, and publishes only what nobody published before.
LEMMA CallSteps ==
  ASSUME PromiseInv, NEW c \in Committers,
         Commits(c) \/ \E u \in Uploads : Ask(c, u) \/ AskInVain(c, u)
  PROVE  PromiseInv'
<1> USE DEF PromiseInv, PromiseTypeOK, Asking
<1>1. CASE Refuse(c)
  BY <1>1 DEF Refuse, PublishedStays
<1>2. CASE Publish(c)
  <2>1. target[c] \in Uploads /\ object[target[c]] = "uploaded"
    BY <1>2 DEF Publish, Publishable
  <2>2. \A d \in Committers :
          outcome[d] \in {"publishing", "published"} => target[d] # target[c]
    BY <2>1 DEF PublishedStays
  <2>3. UNCHANGED target /\ outcome' = [outcome EXCEPT ![c] = "publishing"]
        /\ object' = [object EXCEPT ![target[c]] = "published"]
    BY <1>2 DEF Publish
  <2> QED
    BY <2>1, <2>2, <2>3 DEF PublishedStays
<1>3. CASE Tell(c)
  BY <1>3 DEF Tell, PublishedStays
<1>4. ASSUME NEW u \in Uploads, Ask(c, u) \/ AskInVain(c, u)
      PROVE  PromiseInv'
  BY <1>4 DEF Ask, AskInVain, PublishedStays
<1> QED
  BY <1>1, <1>2, <1>3, <1>4 DEF Commits

\* commit and deleteUploaded of backend/uploads.mjs: whoever was told success
\* named an upload whose image is stored until its owner deletes it, and nobody
\* else was told success of the same one.
THEOREM PublicationHolds == PromiseSpec => []PublishedStays
<1>1. PromiseInit => PromiseInv
  BY PromiseStarts
<1>2. PromiseInv /\ [PromiseNext]_promiseVars => PromiseInv'
  <2> SUFFICES ASSUME PromiseInv, [PromiseNext]_promiseVars PROVE PromiseInv'
    OBVIOUS
  <2>1. CASE UNCHANGED promiseVars
    BY <2>1 DEF promiseVars, PromiseInv, PromiseTypeOK, Asking, PublishedStays
  <2>2. ASSUME NEW u \in Uploads, Arrive(u) \/ Drop(u) \/ Delete(u) PROVE PromiseInv'
    BY <2>2, ImageSteps
  <2>3. ASSUME NEW c \in Committers,
               Commits(c) \/ \E u \in Uploads : Ask(c, u) \/ AskInVain(c, u)
        PROVE  PromiseInv'
    BY <2>3, CallSteps
  <2> QED
    BY <2>1, <2>2, <2>3 DEF PromiseNext
<1>3. PromiseInv => PublishedStays
  BY DEF PromiseInv
<1> QED
  BY <1>1, <1>2, <1>3, PTL DEF PromiseSpec
-----------------------------------------------------------------------------
(* The runtime that relies on it. *)

USE MutationsAssumption

\* The cache is finite, its entries stand in one order and have keys of their own.
CacheInv ==
  /\ IsFiniteSet(cache)
  /\ \A e \in cache : e.order < inserted
  /\ \A e, f \in cache : e.order = f.order => e = f
  /\ \A e, f \in cache : e.key = f.key => e = f

\* An entry tells the truth about the execution it names, which did not fail.
EntriesTrue ==
  \A e \in cache :
    /\ call[e.exec].at \in {"executing", "done"} /\ call[e.exec].exec = e.exec
    /\ call[e.exec].key = e.key /\ call[e.exec].input = e.input

\* An execution is in the cache under its key, unless the key was lost.
ExecutionsKnown ==
  \A c \in Calls : Executing(c) =>
    call[c].key \in dropped \/ \E e \in cache : e.exec = c /\ e.key = call[c].key

\* An execution runs the handler with its own input, and who waits for it asked
\* for the same.
HandlersRun ==
  \A c \in Calls :
    /\ call[c].at = "idle" => call[c].exec = c
    /\ Executing(c) => /\ call[c].exec = c
                       /\ outcome[c] # "idle" /\ target[c] = call[c].input
    /\ call[c].at = "waiting" => /\ Executing(call[c].exec)
                                 /\ call[call[c].exec].input = call[c].input

RunInv == /\ TypeOK /\ CacheInv
          /\ EntriesTrue /\ ExecutionsKnown /\ HandlersRun /\ SuccessIsPublication
-----------------------------------------------------------------------------
\* Any natural numbers have a least among them.
LEMMA LeastNumber ==
  ASSUME NEW T \in SUBSET Nat, T # {}
  PROVE  \E n \in T : \A m \in T : n <= m
<1> DEFINE R == OpToRel(<, Nat)
<1>1. IsWellFoundedOn(R, Nat)
  BY NatLessThanWellFounded
<1>2. \A m, n \in Nat : m < n => <<m, n>> \in R
  BY DEF OpToRel
<1> HIDE DEF R
<1>3. PICK n \in T : \A m \in T : ~(<<m, n>> \in R)
  BY <1>1, WFMin
<1>4. n \in Nat /\ \A m \in T : m \in Nat /\ ~(m < n)
  BY <1>2, <1>3
<1>5. \A m \in T : n <= m
  BY <1>4
<1> QED
  BY <1>5

\* prune leaves entries of the cache, and at most as many as the limit.
LEMMA PrunedFits ==
  ASSUME RunInv
  PROVE  /\ Pruned \subseteq cache /\ IsFiniteSet(Pruned)
         /\ Cardinality(Pruned) \in Nat /\ Cardinality(Pruned) <= MaxEntries
<1>1. Live \subseteq cache /\ Pruned \subseteq Live
  BY DEF Live, Pruned
<1>2. IsFiniteSet(Live) /\ IsFiniteSet(Pruned)
  BY <1>1, FS_Subset DEF RunInv, CacheInv
<1>3. Cardinality(Pruned) \in Nat
  BY <1>2, FS_CardinalityType
<1>4. CASE Pruned = {}
  BY <1>1, <1>2, <1>4, FS_EmptySet
<1>5. CASE Pruned # {}
  <2> DEFINE Orders == {e.order : e \in Pruned}
  <2>1. \A e \in Pruned : e.order \in Nat
    BY <1>1 DEF RunInv, TypeOK, IdempotencyTypeOK, Entry
  <2>2. Orders \in SUBSET Nat /\ Orders # {}
    BY <1>5, <2>1
  <2>3. PICK n \in Orders : \A m \in Orders : n <= m
    BY <2>2, LeastNumber
  <2>4. PICK e \in Pruned : e.order = n
    BY <2>3
  <2>5. \A f \in Pruned \ {e} : f.order > e.order
    <3> SUFFICES ASSUME NEW f \in Pruned \ {e} PROVE f.order > e.order
      OBVIOUS
    <3>1. f.order # e.order
      BY <1>1 DEF RunInv, CacheInv
    <3>2. e.order <= f.order
      BY <2>3, <2>4
    <3> QED
      BY <2>1, <3>1, <3>2
  <2>6. Pruned \ {e} \subseteq InsertedAfter(e)
    BY <1>1, <2>5 DEF InsertedAfter
  <2>7. InsertedAfter(e) \subseteq Live
    BY DEF InsertedAfter
  <2>8. IsFiniteSet(InsertedAfter(e))
    BY <1>2, <2>7, FS_Subset
  <2>9. Cardinality(Pruned \ {e}) <= Cardinality(InsertedAfter(e))
    BY <2>6, <2>8, FS_Subset
  <2>10. Cardinality(Pruned \ {e}) = Cardinality(Pruned) - 1
    BY <1>2, FS_RemoveElement
  <2>11. Cardinality(InsertedAfter(e)) \in Nat
         /\ Cardinality(InsertedAfter(e)) < MaxEntries
    BY <2>8, FS_CardinalityType DEF Pruned
  <2> QED
    BY <1>1, <1>2, <1>3, <2>9, <2>10, <2>11
<1> QED
  BY <1>4, <1>5

\* What is left of the cache is a cache.
LEMMA CacheShrinks ==
  ASSUME RunInv, cache' \subseteq cache, inserted' = inserted
  PROVE  /\ CacheInv' /\ cache' \subseteq Entry /\ inserted' \in Nat
         /\ Cardinality(cache') <= MaxEntries + 1
<1>1. /\ IsFiniteSet(cache) /\ cache \subseteq Entry /\ inserted \in Nat
      /\ Cardinality(cache) <= MaxEntries + 1
  BY DEF RunInv, CacheInv, TypeOK, IdempotencyTypeOK
<1>2. IsFiniteSet(cache') /\ Cardinality(cache') <= Cardinality(cache)
  BY <1>1, FS_Subset
<1>3. Cardinality(cache) \in Nat /\ Cardinality(cache') \in Nat
  BY <1>1, <1>2, FS_CardinalityType
<1>4. Cardinality(cache') <= MaxEntries + 1
  BY <1>1, <1>2, <1>3
<1> QED
  BY <1>1, <1>2, <1>4 DEF RunInv, CacheInv

\* An entry is added for a key that is not known, behind all others.
LEMMA CacheGrows ==
  ASSUME RunInv, NEW c \in Calls, NEW k \in Keys, NEW u \in Uploads, Known(k) = {},
         cache' = Remembered(c, k, u), inserted' = inserted + 1
  PROVE  /\ CacheInv' /\ cache' \subseteq Entry /\ inserted' \in Nat
         /\ Cardinality(cache') <= MaxEntries + 1
<1> DEFINE new == [key |-> k, input |-> u, exec |-> c, until |-> now + KeyTtl,
                   order |-> inserted]
<1>1. cache' = Pruned \cup {new}
  BY DEF Remembered
<1>2. /\ cache \subseteq Entry /\ inserted \in Nat /\ now \in Nat
  BY DEF RunInv, TypeOK, IdempotencyTypeOK
<1>3. new \in Entry
  BY <1>2 DEF Entry
<1>4. IsFiniteSet(cache') /\ Cardinality(cache') <= MaxEntries + 1
  <2> HIDE DEF new
  <2>1. /\ IsFiniteSet(Pruned) /\ Cardinality(Pruned) \in Nat
        /\ Cardinality(Pruned) <= MaxEntries
    BY PrunedFits
  <2>2. /\ IsFiniteSet(Pruned \cup {new})
        /\ Cardinality(Pruned \cup {new})
             = IF new \in Pruned THEN Cardinality(Pruned) ELSE Cardinality(Pruned) + 1
    BY <2>1, FS_AddElement
  <2> QED
    BY <1>1, <2>1, <2>2
<1>5. \A e \in Pruned : e.order < inserted /\ e.order \in Nat /\ e.key # k
  BY <1>2, PrunedFits DEF RunInv, CacheInv, Known, Entry
<1>6. new.order = inserted /\ new.key = k
  OBVIOUS
<1> HIDE DEF new
<1>7. \A e \in cache' : e.order < inserted'
  BY <1>1, <1>2, <1>5, <1>6
<1>8. \A e, f \in cache' : (e.order = f.order => e = f) /\ (e.key = f.key => e = f)
  BY <1>1, <1>2, <1>5, <1>6, PrunedFits DEF RunInv, CacheInv
<1>9. cache' \subseteq Entry /\ inserted' \in Nat
  BY <1>1, <1>2, <1>3, PrunedFits
<1>10. CacheInv'
  BY <1>4, <1>7, <1>8 DEF CacheInv
<1> QED
  BY <1>4, <1>9, <1>10
-----------------------------------------------------------------------------
CallRow == [at: CallStates, key: Keys \cup {Nothing}, input: Inputs \cup {Nothing},
            exec: Calls]

\* A handler never leaves its outcome, and tells a success for the upload it began
\* with: what was told stays true whatever the uploads go through.
LEMMA HandlersKeep ==
  ASSUME RunInv, NEW c \in Calls, Executing(c), Commits(c)
  PROVE  /\ target' = target /\ PromiseTypeOK'
         /\ \A d \in Calls : outcome[d] # "idle" => outcome'[d] # "idle"
         /\ \A d \in Calls : outcome[d] = "published" => outcome'[d] = "published"
<1> USE DEF RunInv, TypeOK, PromiseTypeOK
<1>1. CASE Refuse(c)
  BY <1>1 DEF Refuse
<1>2. CASE Publish(c)
  BY <1>2 DEF Publish
<1>3. CASE Tell(c)
  BY <1>3 DEF Tell
<1> QED
  BY <1>1, <1>2, <1>3 DEF Commits

\* A new call of a handler changes nothing that another call was told.
LEMMA CallsAsk ==
  ASSUME RunInv, NEW c \in Calls, NEW u \in Uploads, Ask(c, u) \/ AskInVain(c, u)
  PROVE  /\ outcome[c] = "idle" /\ outcome'[c] # "idle" /\ target'[c] = u
         /\ PromiseTypeOK'
         /\ \A d \in Calls \ {c} : outcome'[d] = outcome[d] /\ target'[d] = target[d]
BY DEF RunInv, TypeOK, PromiseTypeOK, Ask, AskInVain

\* Uploads come and go without a call.
LEMMA UploadsKeep ==
  ASSUME RunInv, UploadsStep
  PROVE  RunInv'
<1>1. UNCHANGED <<outcome, target, runVars>> /\ PromiseTypeOK'
  BY DEF UploadsStep, Arrive, Drop, Delete, Become, RunInv, TypeOK, PromiseTypeOK
<1>2. UNCHANGED <<outcome, target, now, cache, inserted, call, dropped>>
  BY <1>1 DEF runVars
<1>3. TypeOK' /\ CacheInv'
  BY <1>1, <1>2 DEF RunInv, TypeOK, IdempotencyTypeOK, CacheInv
<1>4. (EntriesTrue /\ ExecutionsKnown /\ HandlersRun /\ SuccessIsPublication)'
  BY <1>2 DEF RunInv, EntriesTrue, ExecutionsKnown, HandlersRun, SuccessIsPublication,
              Executing
<1> QED
  BY <1>3, <1>4 DEF RunInv

\* Time passes without a call.
LEMMA TickKeeps ==
  ASSUME RunInv, Tick \/ UNCHANGED vars
  PROVE  RunInv'
<1>1. /\ UNCHANGED <<object, outcome, target, cache, inserted, call, dropped>>
      /\ now' \in Nat
  BY DEF Tick, vars, promiseVars, runVars, RunInv, TypeOK
<1>2. TypeOK' /\ CacheInv'
  BY <1>1 DEF RunInv, TypeOK, PromiseTypeOK, IdempotencyTypeOK, CacheInv
<1>3. (EntriesTrue /\ ExecutionsKnown /\ HandlersRun /\ SuccessIsPublication)'
  BY <1>1 DEF RunInv, EntriesTrue, ExecutionsKnown, HandlersRun, SuccessIsPublication,
              Executing
<1> QED
  BY <1>2, <1>3 DEF RunInv

\* A handler's step leaves the calls as they are.
LEMMA HandlerKeeps ==
  ASSUME RunInv, NEW c \in Calls, HandlerStep(c)
  PROVE  RunInv'
<1>1. Executing(c) /\ Commits(c)
  BY DEF HandlerStep
<1>2. UNCHANGED <<now, cache, inserted, call, dropped>>
  BY DEF HandlerStep, runVars
<1>3. TypeOK' /\ CacheInv'
  BY <1>1, <1>2, HandlersKeep DEF RunInv, TypeOK, IdempotencyTypeOK, CacheInv
<1>4. (EntriesTrue /\ ExecutionsKnown)'
  BY <1>2 DEF RunInv, EntriesTrue, ExecutionsKnown, Executing
<1>5. HandlersRun'
  BY <1>1, <1>2, HandlersKeep DEF RunInv, HandlersRun, Executing
<1>6. SuccessIsPublication'
  <2>1. \A d \in Calls : call[d].exec \in Calls
    BY DEF RunInv, TypeOK, IdempotencyTypeOK
  <2> QED
    BY <1>1, <1>2, <2>1, HandlersKeep DEF RunInv, SuccessIsPublication
<1> QED
  BY <1>3, <1>4, <1>5, <1>6 DEF RunInv

\* A key that is known is answered by the execution that has it, or refused.
LEMMA KnownKeeps ==
  ASSUME RunInv, NEW c \in Calls, NEW k \in Keys, NEW u \in Uploads, CallKnown(c, k, u)
  PROVE  RunInv'
<1>1. /\ call[c].at = "idle" /\ cache' = Pruned /\ inserted' = inserted
      /\ dropped' = dropped \cup Lost(Pruned)
      /\ UNCHANGED <<object, outcome, target, now>>
  BY DEF CallKnown, Join, Reject, promiseVars
<1>2. /\ call \in [Calls -> CallRow] /\ cache \subseteq Entry
      /\ dropped \subseteq Keys /\ Pruned \subseteq cache
  BY PrunedFits DEF RunInv, TypeOK, IdempotencyTypeOK, CallRow
<1>3. PICK place \in {"waiting", "done", "rejected"}, x \in Calls :
        /\ Answer(c, k, u, place, x)
        /\ \/ place = "rejected" /\ x = c
           \/ place = "waiting" /\ Executing(x) /\ call[x].input = u
           \/ place = "done" /\ call[x].at = "done" /\ call[x].exec = x
              /\ call[x].input = u
  <2>1. CASE Join(c, k, u)
    <3>1. PICK e \in Known(k) :
            /\ SameInput(e, u)
            /\ Answer(c, k, u, IF Executing(e.exec) THEN "waiting" ELSE "done", e.exec)
      BY <2>1 DEF Join
    <3>2. e \in cache /\ e.exec \in Calls
      BY <1>2 DEF Known, Entry
    <3>3. /\ call[e.exec].at \in {"executing", "done"}
          /\ call[e.exec].exec = e.exec /\ call[e.exec].input = u
      BY <3>1, <3>2 DEF RunInv, EntriesTrue, SameInput
    <3> QED
      BY <3>1, <3>2, <3>3 DEF Executing
  <2>2. CASE Reject(c, k, u)
    BY <2>2 DEF Reject
  <2> QED
    BY <2>1, <2>2 DEF CallKnown
<1>4. /\ call' \in [Calls -> CallRow]
      /\ call'[c] = [at |-> place, key |-> k, input |-> u, exec |-> x]
      /\ \A d \in Calls \ {c} : call'[d] = call[d]
  BY <1>2, <1>3 DEF Answer, CallRow, CallStates
<1>5. /\ call'[c].at = place /\ call'[c].input = u /\ call'[c].exec = x
  BY <1>4
<1>6. \A e \in cache : e.exec \in Calls \ {c}
  BY <1>1, <1>2 DEF RunInv, EntriesTrue, Entry
<1>7. TypeOK'
  <2>1. Lost(Pruned) \subseteq Keys
    BY <1>2 DEF Lost, Entry
  <2> QED
    BY <1>1, <1>2, <1>4, <2>1, CacheShrinks
       DEF RunInv, TypeOK, PromiseTypeOK, IdempotencyTypeOK, CallRow
<1>8. CacheInv'
  BY <1>1, <1>2, CacheShrinks
<1>9. EntriesTrue'
  BY <1>1, <1>2, <1>4, <1>6 DEF RunInv, EntriesTrue
<1>10. ExecutionsKnown'
  <2> SUFFICES ASSUME NEW d \in Calls, Executing(d)'
               PROVE  \/ call'[d].key \in dropped'
                      \/ \E e \in cache' : e.exec = d /\ e.key = call'[d].key
    BY DEF ExecutionsKnown
  <2>1. d # c /\ Executing(d) /\ call'[d] = call[d]
    BY <1>3, <1>4, <1>5 DEF Executing
  <2>2. CASE call[d].key \in dropped
    BY <1>1, <2>1, <2>2
  <2>3. ASSUME NEW e \in cache, e.exec = d, e.key = call[d].key
        PROVE  \/ call'[d].key \in dropped'
               \/ \E f \in cache' : f.exec = d /\ f.key = call'[d].key
    BY <1>1, <2>1, <2>3 DEF Lost
  <2> QED
    BY <2>1, <2>2, <2>3 DEF RunInv, ExecutionsKnown
<1>11. HandlersRun'
  <2>1. \A d \in Calls \ {c} : Executing(d)' <=> Executing(d)
    BY <1>4 DEF Executing
  <2>2. ~Executing(c) /\ ~Executing(c)'
    BY <1>1, <1>3, <1>5 DEF Executing
  <2>3. \A d \in Calls \ {c} : call[d].at = "waiting" => call[d].exec \in Calls \ {c}
    BY <1>2, <2>2 DEF RunInv, HandlersRun, CallRow
  <2>4. x = c \/ (x # c /\ call'[x] = call[x])
    BY <1>4
  <2>5. place = "waiting" => Executing(x)' /\ call'[x].input = u
    BY <1>3, <2>1, <2>2, <2>4
  <2> QED
    BY <1>1, <1>3, <1>4, <1>5, <2>1, <2>2, <2>3, <2>5 DEF RunInv, HandlersRun
<1>12. SuccessIsPublication'
  BY <1>1, <1>3, <1>4, <1>5 DEF RunInv, SuccessIsPublication
<1> QED
  BY <1>7, <1>8, <1>9, <1>10, <1>11, <1>12 DEF RunInv

\* A new key is remembered before its handler runs.
LEMMA BeginKeeps ==
  ASSUME RunInv, NEW c \in Calls, NEW k \in Keys, NEW u \in Uploads, CallBegins(c, k, u)
  PROVE  RunInv'
<1> DEFINE new == [key |-> k, input |-> u, exec |-> c, until |-> now + KeyTtl,
                   order |-> inserted]
<1>1. /\ call[c].at = "idle" /\ Known(k) = {}
      /\ cache' = Remembered(c, k, u) /\ inserted' = inserted + 1
      /\ dropped' = dropped \cup Lost(Pruned)
      /\ Answer(c, k, u, "executing", c)
      /\ Ask(c, u) \/ AskInVain(c, u)
      /\ now' = now
  BY DEF CallBegins, Start
<1>2. /\ call \in [Calls -> CallRow] /\ cache \subseteq Entry
      /\ dropped \subseteq Keys /\ Pruned \subseteq cache
  BY PrunedFits DEF RunInv, TypeOK, IdempotencyTypeOK, CallRow
<1>3. cache' = Pruned \cup {new}
  BY <1>1 DEF Remembered
<1>4. /\ call' \in [Calls -> CallRow]
      /\ call'[c] = [at |-> "executing", key |-> k, input |-> u, exec |-> c]
      /\ \A d \in Calls \ {c} : call'[d] = call[d]
  BY <1>1, <1>2 DEF Answer, CallRow, CallStates
<1>5. /\ call'[c].at = "executing" /\ call'[c].key = k /\ call'[c].input = u
      /\ call'[c].exec = c
  BY <1>4
<1>6. /\ new.key = k /\ new.input = u /\ new.exec = c
  OBVIOUS
<1>7. \A e \in cache : e.exec \in Calls \ {c}
  BY <1>1, <1>2 DEF RunInv, EntriesTrue, Entry
<1>8. /\ outcome[c] = "idle" /\ outcome'[c] # "idle" /\ target'[c] = u
      /\ PromiseTypeOK'
      /\ \A d \in Calls \ {c} : outcome'[d] = outcome[d] /\ target'[d] = target[d]
  BY <1>1, CallsAsk
<1>9. TypeOK' /\ CacheInv'
  <2>1. Lost(Pruned) \subseteq Keys
    BY <1>2 DEF Lost, Entry
  <2> QED
    BY <1>1, <1>2, <1>4, <1>8, <2>1, CacheGrows
       DEF RunInv, TypeOK, IdempotencyTypeOK, CallRow
<1> HIDE DEF new
<1>10. EntriesTrue'
  BY <1>2, <1>3, <1>4, <1>5, <1>6, <1>7 DEF RunInv, EntriesTrue
<1>11. ExecutionsKnown'
  <2> SUFFICES ASSUME NEW d \in Calls, Executing(d)', d # c
               PROVE  \/ call'[d].key \in dropped'
                      \/ \E e \in cache' : e.exec = d /\ e.key = call'[d].key
    BY <1>3, <1>5, <1>6 DEF ExecutionsKnown
  <2>1. Executing(d) /\ call'[d] = call[d]
    BY <1>4 DEF Executing
  <2>2. CASE call[d].key \in dropped
    BY <1>1, <2>1, <2>2
  <2>3. ASSUME NEW e \in cache, e.exec = d, e.key = call[d].key
        PROVE  \/ call'[d].key \in dropped'
               \/ \E f \in cache' : f.exec = d /\ f.key = call'[d].key
    BY <1>1, <1>3, <2>1, <2>3 DEF Lost
  <2> QED
    BY <2>1, <2>2, <2>3 DEF RunInv, ExecutionsKnown
<1>12. HandlersRun'
  <2>1. \A d \in Calls \ {c} : Executing(d)' <=> Executing(d)
    BY <1>4 DEF Executing
  <2>2. \A d \in Calls \ {c} : call[d].at = "waiting" => call[d].exec \in Calls \ {c}
    BY <1>1, <1>2 DEF RunInv, HandlersRun, CallRow, Executing
  <2> QED
    BY <1>4, <1>5, <1>8, <2>1, <2>2 DEF RunInv, HandlersRun
<1>13. SuccessIsPublication'
  <2>1. \A d \in Calls : call[d].at = "done" => call[d].exec \in Calls \ {c}
    BY <1>2, <1>8 DEF RunInv, SuccessIsPublication, CallRow
  <2> QED
    BY <1>4, <1>5, <1>8, <2>1 DEF RunInv, SuccessIsPublication
<1> QED
  BY <1>9, <1>10, <1>11, <1>12, <1>13 DEF RunInv

\* All who were answered by an execution get what it came to.
LEMMA AnswersKept ==
  ASSUME RunInv, NEW c \in Calls, Executing(c), NEW place \in {"done", "failed"},
         call' = AnsweredBy(c, place)
  PROVE  /\ call' \in [Calls -> CallRow]
         /\ \A d \in Calls : /\ call'[d].key = call[d].key /\ call'[d].exec = call[d].exec
                             /\ call'[d].input = call[d].input
                             /\ call'[d].at = IF /\ call[d].exec = c
                                                 /\ call[d].at \in {"executing", "waiting"}
                                              THEN place ELSE call[d].at
         /\ \A d \in Calls : Executing(d)' <=> d # c /\ Executing(d)
<1>1. call \in [Calls -> CallRow]
  BY DEF RunInv, TypeOK, IdempotencyTypeOK, CallRow
<1>2. \A d \in Calls : /\ call'[d] \in CallRow
                       /\ call'[d].key = call[d].key /\ call'[d].exec = call[d].exec
                       /\ call'[d].input = call[d].input
                       /\ call'[d].at = IF /\ call[d].exec = c
                                           /\ call[d].at \in {"executing", "waiting"}
                                        THEN place ELSE call[d].at
  BY <1>1 DEF AnsweredBy, CallRow, CallStates
<1>3. \A d \in Calls : Executing(d) => call[d].exec = d
  BY DEF RunInv, HandlersRun
<1>4. \A d \in Calls : Executing(d)' <=> d # c /\ Executing(d)
  BY <1>2, <1>3 DEF Executing
<1>5. call' \in [Calls -> CallRow]
  BY <1>2 DEF AnsweredBy
<1> QED
  BY <1>2, <1>4, <1>5

\* A handler that returned answers everyone who waited.
LEMMA EndKeeps ==
  ASSUME RunInv, NEW c \in Calls, CallEnds(c)
  PROVE  RunInv'
<1>1. /\ Executing(c) /\ UNCHANGED <<object, outcome, target, now>>
  BY DEF CallEnds, Succeed, Fail, promiseVars
<1>2. /\ call \in [Calls -> CallRow] /\ cache \subseteq Entry /\ dropped \subseteq Keys
  BY DEF RunInv, TypeOK, IdempotencyTypeOK, CallRow
<1>3. CASE outcome[c] = "published" /\ Succeed(c)
  <2>1. call' = AnsweredBy(c, "done") /\ UNCHANGED <<cache, inserted, dropped>>
    BY <1>3 DEF Succeed
  <2>2. /\ call' \in [Calls -> CallRow]
        /\ \A d \in Calls : /\ call'[d].key = call[d].key /\ call'[d].exec = call[d].exec
                            /\ call'[d].input = call[d].input
                            /\ call'[d].at = IF /\ call[d].exec = c
                                                /\ call[d].at \in {"executing", "waiting"}
                                             THEN "done" ELSE call[d].at
        /\ \A d \in Calls : Executing(d)' <=> d # c /\ Executing(d)
    BY <1>1, <2>1, AnswersKept
  <2>3. TypeOK' /\ CacheInv'
    BY <1>1, <2>1, <2>2
       DEF RunInv, TypeOK, PromiseTypeOK, IdempotencyTypeOK, CacheInv, CallRow
  <2>4. EntriesTrue'
    BY <1>2, <2>1, <2>2 DEF RunInv, EntriesTrue, Entry
  <2>5. ExecutionsKnown'
    BY <2>1, <2>2 DEF RunInv, ExecutionsKnown
  <2>6. HandlersRun'
    BY <1>1, <1>2, <2>2 DEF RunInv, HandlersRun, CallRow
  <2>7. SuccessIsPublication'
    <3>1. \A d \in Calls : call[d].exec = c /\ call[d].at \in {"executing", "waiting"} =>
            target[c] = call[d].input
      BY <1>1 DEF RunInv, HandlersRun, Executing
    <3> QED
      BY <1>1, <1>3, <2>2, <3>1 DEF RunInv, SuccessIsPublication
  <2> QED
    BY <2>3, <2>4, <2>5, <2>6, <2>7 DEF RunInv
<1>4. CASE Fail(c)
  <2> DEFINE left == Forgotten(call[c].key)
  <2>1. /\ call' = AnsweredBy(c, "failed") /\ cache' = left /\ inserted' = inserted
        /\ dropped' = dropped \cup {e.key : e \in {f \in cache \ left :
                                                     Executing(f.exec) /\ f.exec # c}}
    BY <1>4 DEF Fail
  <2>2. /\ call' \in [Calls -> CallRow]
        /\ \A d \in Calls : /\ call'[d].key = call[d].key /\ call'[d].exec = call[d].exec
                            /\ call'[d].input = call[d].input
                            /\ call'[d].at = IF /\ call[d].exec = c
                                                /\ call[d].at \in {"executing", "waiting"}
                                             THEN "failed" ELSE call[d].at
        /\ \A d \in Calls : Executing(d)' <=> d # c /\ Executing(d)
    BY <1>1, <2>1, AnswersKept
  <2>3. left \subseteq cache /\ \A e \in left : e.key # call[c].key
    BY DEF Forgotten
  <2> HIDE DEF left
  <2>4. TypeOK' /\ CacheInv'
    <3>1. {e.key : e \in {f \in cache \ left : Executing(f.exec) /\ f.exec # c}}
            \subseteq Keys
      BY <1>2 DEF Entry
    <3> QED
      BY <1>1, <1>2, <2>1, <2>2, <2>3, <3>1, CacheShrinks
         DEF RunInv, TypeOK, PromiseTypeOK, IdempotencyTypeOK, CallRow
  <2>5. EntriesTrue'
    <3> SUFFICES ASSUME NEW e \in left
                 PROVE  /\ call'[e.exec].at \in {"executing", "done"}
                        /\ call'[e.exec].exec = e.exec
                        /\ call'[e.exec].key = e.key /\ call'[e.exec].input = e.input
      BY <2>1 DEF EntriesTrue
    <3>1. /\ e \in cache /\ e.exec \in Calls /\ e.key # call[c].key
      BY <1>2, <2>3 DEF Entry
    <3>2. /\ call[e.exec].at \in {"executing", "done"} /\ call[e.exec].exec = e.exec
          /\ call[e.exec].key = e.key /\ call[e.exec].input = e.input
      BY <3>1 DEF RunInv, EntriesTrue
    <3>3. e.exec # c
      BY <3>1, <3>2
    <3> QED
      BY <2>2, <3>1, <3>2, <3>3
  <2>6. ExecutionsKnown'
    <3> SUFFICES ASSUME NEW d \in Calls, Executing(d)'
                 PROVE  \/ call'[d].key \in dropped'
                        \/ \E e \in cache' : e.exec = d /\ e.key = call'[d].key
      BY DEF ExecutionsKnown
    <3>1. d # c /\ Executing(d) /\ call'[d].key = call[d].key
      BY <2>2
    <3>2. CASE call[d].key \in dropped
      BY <2>1, <3>1, <3>2
    <3>3. ASSUME NEW e \in cache, e.exec = d, e.key = call[d].key
          PROVE  \/ call'[d].key \in dropped'
                 \/ \E f \in cache' : f.exec = d /\ f.key = call'[d].key
      BY <2>1, <3>1, <3>3
    <3> QED
      BY <3>1, <3>2, <3>3 DEF RunInv, ExecutionsKnown
  <2>7. HandlersRun'
    BY <1>1, <1>2, <2>2 DEF RunInv, HandlersRun, CallRow
  <2>8. SuccessIsPublication'
    BY <1>1, <2>2 DEF RunInv, SuccessIsPublication
  <2> QED
    BY <2>4, <2>5, <2>6, <2>7, <2>8 DEF RunInv
<1> QED
  BY <1>3, <1>4 DEF CallEnds

\* The inductive invariant of the runtime holds in every reachable state.
LEMMA RunInductive == Spec => []RunInv
<1>1. Init => RunInv
  <2> SUFFICES ASSUME Init PROVE RunInv
    OBVIOUS
  <2> USE DEF Init, PromiseInit, IdempotencyInit
  <2>1. TypeOK
    BY FS_EmptySet DEF TypeOK, PromiseTypeOK, IdempotencyTypeOK, CallStates
  <2>2. CacheInv
    BY FS_EmptySet DEF CacheInv
  <2>3. EntriesTrue /\ ExecutionsKnown /\ HandlersRun /\ SuccessIsPublication
    BY DEF EntriesTrue, ExecutionsKnown, HandlersRun, SuccessIsPublication, Executing
  <2> QED
    BY <2>1, <2>2, <2>3 DEF RunInv
<1>2. RunInv /\ [Next]_vars => RunInv'
  <2> SUFFICES ASSUME RunInv, [Next]_vars PROVE RunInv'
    OBVIOUS
  <2>1. CASE UploadsStep
    BY <2>1, UploadsKeep
  <2>2. CASE Tick \/ UNCHANGED vars
    BY <2>2, TickKeeps
  <2>3. ASSUME NEW c \in Calls, HandlerStep(c) PROVE RunInv'
    BY <2>3, HandlerKeeps
  <2>4. ASSUME NEW c \in Calls, CallEnds(c) PROVE RunInv'
    BY <2>4, EndKeeps
  <2>5. ASSUME NEW c \in Calls, NEW k \in Keys, NEW u \in Uploads, CallBegins(c, k, u)
        PROVE  RunInv'
    BY <2>5, BeginKeeps
  <2>6. ASSUME NEW c \in Calls, NEW k \in Keys, NEW u \in Uploads, CallKnown(c, k, u)
        PROVE  RunInv'
    BY <2>6, KnownKeeps
  <2> QED
    BY <2>1, <2>2, <2>3, <2>4, <2>5, <2>6 DEF Next
<1> QED
  BY <1>1, <1>2, PTL DEF Spec
-----------------------------------------------------------------------------
\* The cache of backend/runtime.mjs never holds more than one entry above the
\* limit, and the records of the runtime keep their types.
THEOREM RuntimeTypeCorrect == Spec => []TypeOK
<1>1. RunInv => TypeOK
  BY DEF RunInv
<1> QED
  BY <1>1, RunInductive, PTL

\* A key of backend/runtime.mjs has one execution at a time as long as its entry
\* is kept, and whoever is told success, also from the cache, named the upload
\* that one execution published.
THEOREM RetriesAnswered == Spec => []RetriesAreAnsweredOnce
<1>1. RunInv => RetriesAreAnsweredOnce
  <2> SUFFICES ASSUME RunInv PROVE OneExecutionPerKey
    BY DEF RetriesAreAnsweredOnce, RunInv
  <2> SUFFICES ASSUME NEW c \in Calls, NEW d \in Calls, c # d,
                      Executing(c), Executing(d), call[c].key = call[d].key,
                      call[c].key \notin dropped
               PROVE  FALSE
    BY DEF OneExecutionPerKey
  <2>1. PICK e \in cache : e.exec = c /\ e.key = call[c].key
    BY DEF RunInv, ExecutionsKnown
  <2>2. PICK f \in cache : f.exec = d /\ f.key = call[d].key
    BY DEF RunInv, ExecutionsKnown
  <2>3. e = f
    BY <2>1, <2>2 DEF RunInv, CacheInv
  <2> QED
    BY <2>1, <2>2, <2>3
<1> QED
  BY <1>1, RunInductive, PTL

\* The runtime uses the upload store only as commit promises: it begins a call
\* of commit when it begins an execution, and moves no call of another one.
THEOREM RuntimeUsesPromise == Spec => PromiseSpec
<1>1. Init => PromiseInit
  BY DEF Init
<1>2. [Next]_vars => [PromiseNext]_promiseVars
  <2> SUFFICES ASSUME [Next]_vars PROVE [PromiseNext]_promiseVars
    OBVIOUS
  <2>1. CASE UploadsStep
    BY <2>1 DEF UploadsStep, PromiseNext
  <2>2. CASE Tick \/ UNCHANGED vars
    BY <2>2 DEF Tick, vars
  <2>3. ASSUME NEW c \in Calls, HandlerStep(c) PROVE PromiseNext
    BY <2>3 DEF HandlerStep, PromiseNext
  <2>4. ASSUME NEW c \in Calls, CallEnds(c) PROVE UNCHANGED promiseVars
    BY <2>4 DEF CallEnds
  <2>5. ASSUME NEW c \in Calls, NEW k \in Keys, NEW u \in Uploads, CallBegins(c, k, u)
        PROVE  PromiseNext
    BY <2>5 DEF CallBegins, PromiseNext
  <2>6. ASSUME NEW c \in Calls, NEW k \in Keys, NEW u \in Uploads, CallKnown(c, k, u)
        PROVE  UNCHANGED promiseVars
    BY <2>6 DEF CallKnown
  <2> QED
    BY <2>1, <2>2, <2>3, <2>4, <2>5, <2>6 DEF Next
<1> QED
  BY <1>1, <1>2, PTL DEF Spec, PromiseSpec

\* So no two executions of backend/runtime.mjs publish one image, also when keys
\* were lost, and a published image stays until its owner deletes it.
THEOREM RuntimePublishesOnce == Spec => []PublishedStays
  BY RuntimeUsesPromise, PublicationHolds, PTL
-----------------------------------------------------------------------------
(* Sessions and grants in memory. *)

\* A session in the table lasts as long as its holder was told, and was not given back.
SessionsTrue ==
  /\ IsFiniteSet(sessions)
  /\ \A e \in sessions : e.until = issued[e.token].until /\ ~issued[e.token].revoked
  /\ byId = TokensIn(sessions) /\ Cardinality(sessions) <= MaxSessions

\* While the table never was too small, it has all that are outstanding.
CrowdCounted ==
  /\ Cardinality(Outstanding(issued)) <= crowd
  /\ crowd < MaxSessions => Outstanding(issued) \subseteq TokensIn(sessions)
  /\ Len(issued) \in Outstanding(issued) => Len(issued) \in TokensIn(sessions)

\* What was taken before an await has room, and only what came in between is torn.
GrantsTrue ==
  /\ IsFiniteSet(grants)
  /\ Cardinality(grants) <= MaxGrants
  /\ reading # 0 => Cardinality(grants) < MaxGrants
  /\ \A e \in grants : e.mark = file.mark /\ ~e.torn => file.admitted
  /\ ~misserved

SessionsInv == SessionsTypeOK /\ SessionsTrue /\ CrowdCounted
GrantsInv == GrantsTypeOK /\ GrantsTrue

AccessInv == day \in Nat /\ SessionsInv /\ GrantsInv
-----------------------------------------------------------------------------
\* After prune, one more fits; what was within the limit is all there, and the newest is.
LEMMA PruneFacts ==
  ASSUME NEW left, IsFiniteSet(left), \A e \in left : e.token \in Nat,
         \A e, f \in left : e.token = f.token => e = f,
         NEW limit \in Nat \ {0, 1}
  PROVE  /\ Admitting(left, limit) \subseteq Unexpired(left)
         /\ Unexpired(left) \subseteq left
         /\ IsFiniteSet(Admitting(left, limit)) /\ IsFiniteSet(Unexpired(left))
         /\ Cardinality(Admitting(left, limit)) \in Nat
         /\ Cardinality(Admitting(left, limit)) < limit
         /\ Cardinality(Unexpired(left)) < limit => Admitting(left, limit) = Unexpired(left)
         /\ \A e \in Unexpired(left) :
              (\A f \in left : f.token <= e.token) => e \in Admitting(left, limit)
<1> DEFINE live == Unexpired(left)
           from(e) == {f \in live : f.token >= e.token}
           kept == Admitting(left, limit)
<1>1. kept = {e \in live : Cardinality(from(e)) < limit} /\ live \subseteq left
  BY DEF Admitting, Unexpired
<1> HIDE DEF live, kept
<1>2. IsFiniteSet(live) /\ IsFiniteSet(kept) /\ Cardinality(kept) \in Nat /\ Cardinality(live) \in Nat
  <2>1. live \in SUBSET left /\ kept \in SUBSET left
    BY <1>1
  <2> QED
    BY <2>1, FS_Subset, FS_CardinalityType
<1>3. ASSUME NEW e \in live
      PROVE  /\ IsFiniteSet(from(e)) /\ Cardinality(from(e)) \in Nat
             /\ Cardinality(from(e)) <= Cardinality(live)
  <2>1. from(e) \in SUBSET live
    OBVIOUS
  <2> HIDE DEF from
  <2> QED
    BY <1>2, <2>1, FS_Subset, FS_CardinalityType
<1>4. Cardinality(kept) < limit
  <2>1. CASE kept = {}
    BY <2>1, FS_EmptySet
  <2>2. CASE kept # {}
    <3> DEFINE tokens == {e.token : e \in kept}
    <3>1. tokens \in SUBSET Nat /\ tokens # {}
      <4>1. \A e \in kept : e.token \in Nat
        BY <1>1
      <4> QED
        BY <2>2, <4>1
    <3>2. PICK x \in tokens : \A y \in tokens : x <= y
      <4> HIDE DEF tokens
      <4> QED
        BY <3>1, LeastNumber
    <3>3. PICK e \in kept : e.token = x
      OBVIOUS
    <3>4. \A f \in kept : f \in live /\ f.token \in Nat /\ e.token <= f.token
      BY <1>1, <3>2, <3>3
    <3>5. kept \in SUBSET from(e) /\ e \in live /\ Cardinality(from(e)) < limit
      BY <1>1, <3>3, <3>4
    <3> HIDE DEF from
    <3>6. Cardinality(kept) <= Cardinality(from(e))
      BY <1>3, <3>5, FS_Subset
    <3> QED
      BY <1>2, <1>3, <3>5, <3>6
  <2> QED
    BY <2>1, <2>2
<1>5. ASSUME Cardinality(live) < limit PROVE kept = live
  <2>1. ASSUME NEW e \in live PROVE Cardinality(from(e)) < limit
    <3> HIDE DEF from
    <3> QED
      BY <1>2, <1>3, <1>5
  <2> HIDE DEF from
  <2> QED
    BY <1>1, <2>1
<1>6. ASSUME NEW e \in live, \A f \in left : f.token <= e.token PROVE e \in kept
  <2>1. from(e) = {e}
    BY <1>1, <1>6
  <2>2. Cardinality(from(e)) = 1
    BY <2>1, FS_Singleton
  <2> QED
    BY <1>1, <2>2
<1> QED
  BY <1>1, <1>2, <1>4, <1>5, <1>6 DEF live, kept

\* Empty tables tell the truth.
LEMMA AccessStarts == AccessInit => AccessInv
<1> SUFFICES ASSUME AccessInit PROVE AccessInv
  OBVIOUS
<1> USE DEF AccessInit
<1>1. SessionsTypeOK
  <2>1. issued \in Seq([until : Nat, revoked : BOOLEAN])
    OBVIOUS
  <2> QED
    BY <2>1 DEF SessionsTypeOK
<1>2. GrantsTypeOK
  <2>1. /\ MaxReplaced \in Nat /\ MaxIssued \in Nat /\ MaxDeliveries \in Nat
        /\ 1 \in 1..(MaxReplaced + 1) /\ 0 \in 0..MaxIssued /\ 0 \in 0..MaxDeliveries
    BY AccessAssumption
  <2>2. file \in [mark : 1..(MaxReplaced + 1), admitted : BOOLEAN]
    BY <2>1
  <2> QED
    BY <2>1, <2>2 DEF GrantsTypeOK
<1>3. Outstanding(issued) = {} /\ TokensIn(sessions) = {}
  BY DEF Outstanding, TokensIn
<1>4. MaxSessions \in Nat /\ MaxGrants \in Nat
  BY AccessAssumption
<1>5. SessionsTrue
  BY <1>3, <1>4, FS_EmptySet DEF SessionsTrue
<1>6. CrowdCounted
  BY <1>3, FS_EmptySet DEF CrowdCounted
<1>7. GrantsTrue
  BY <1>4, FS_EmptySet DEF GrantsTrue
<1> QED
  BY <1>1, <1>2, <1>5, <1>6, <1>7 DEF AccessInv, SessionsInv, GrantsInv

\* Types of what is in the tables.
LEMMA TableFacts ==
  ASSUME AccessInv
  PROVE  /\ \A e \in sessions : e.token \in Nat /\ e.token \in DOMAIN issued /\ e.until \in Nat
         /\ \A e, f \in sessions : e.token = f.token => e = f
         /\ \A e \in grants : e.token \in Nat /\ e.token <= given
         /\ \A e, f \in grants : e.token = f.token => e = f
         /\ DOMAIN issued = 1..Len(issued) /\ Len(issued) \in Nat
         /\ day \in Nat /\ given \in Nat
BY AccessAssumption DEF AccessInv, SessionsInv, GrantsInv, SessionsTypeOK, GrantsTypeOK

\* What prune leaves of the sessions: all that a caller can ask for.
LEMMA SessionsPrunedFacts ==
  ASSUME AccessInv, NEW left, left = Admitting(sessions, MaxSessions)
  PROVE  /\ left \subseteq sessions /\ \A e \in left : e.until > day
         /\ IsFiniteSet(left) /\ Cardinality(left) \in Nat /\ Cardinality(left) < MaxSessions
         /\ SessionsPruned(left) = TokensIn(left)
         /\ TokensIn(left) \subseteq Outstanding(issued)
         /\ crowd < MaxSessions => Outstanding(issued) \subseteq TokensIn(left)
         /\ Len(issued) \in Outstanding(issued) => Len(issued) \in TokensIn(left)
<1> DEFINE live == Unexpired(sessions)
<1>1. /\ left \subseteq live /\ live \subseteq sessions
      /\ IsFiniteSet(left) /\ IsFiniteSet(live)
      /\ Cardinality(left) \in Nat /\ Cardinality(left) < MaxSessions
      /\ Cardinality(live) < MaxSessions => left = live
      /\ \A e \in live : (\A f \in sessions : f.token <= e.token) => e \in left
  BY PruneFacts, TableFacts, AccessAssumption DEF AccessInv, SessionsInv, SessionsTrue
<1>2. \A e : e \in live <=> e \in sessions /\ e.until > day
  BY DEF Unexpired
<1> HIDE DEF live
<1>3. TokensIn(left) \subseteq Outstanding(issued)
  BY <1>1, <1>2, TableFacts DEF AccessInv, SessionsInv, SessionsTrue, TokensIn, Outstanding
<1>4. ASSUME NEW t \in Outstanding(issued), t \in TokensIn(sessions)
      PROVE  \E e \in live : e.token = t
  BY <1>2, <1>4 DEF AccessInv, SessionsInv, SessionsTrue, TokensIn, Outstanding
<1>5. SessionsPruned(left) = TokensIn(left)
  <2>1. byId = TokensIn(sessions) /\ TokensIn(left) \subseteq TokensIn(sessions)
    BY <1>1 DEF AccessInv, SessionsInv, SessionsTrue, TokensIn
  <2> QED
    BY <2>1 DEF SessionsPruned
<1>6. ASSUME crowd < MaxSessions PROVE Outstanding(issued) \subseteq TokensIn(left)
  <2>1. Outstanding(issued) \subseteq TokensIn(sessions) /\ Cardinality(Outstanding(issued)) <= crowd
    BY <1>6 DEF AccessInv, SessionsInv, CrowdCounted
  <2>2. IsFiniteSet(Outstanding(issued)) /\ Cardinality(Outstanding(issued)) \in Nat
    <3>1. IsFiniteSet(1..Len(issued)) /\ Outstanding(issued) \in SUBSET (1..Len(issued))
      BY FS_Interval, TableFacts DEF Outstanding
    <3> QED
      BY <3>1, FS_Subset, FS_CardinalityType
  <2>3. Cardinality(live) <= Cardinality(Outstanding(issued))
    <3> DEFINE f == [e \in live |-> e.token]
    <3>1. \A e \in live : e.token \in Outstanding(issued)
      BY <1>1, <1>2, TableFacts DEF AccessInv, SessionsInv, SessionsTrue, Outstanding
    <3>2. \A d, e \in live : d.token = e.token => d = e
      BY <1>1, TableFacts
    <3>3. f \in Injection(live, Outstanding(issued))
      BY <3>1, <3>2 DEF Injection, IsInjective
    <3> HIDE DEF f
    <3> QED
      BY <2>2, <3>3, FS_Injection
  <2>4. Cardinality(live) < MaxSessions
    <3>1. Cardinality(live) \in Nat /\ crowd \in Nat /\ MaxSessions \in Nat
      BY <1>1, FS_CardinalityType, AccessAssumption DEF AccessInv, SessionsInv, SessionsTypeOK
    <3> QED
      BY <1>6, <2>1, <2>2, <2>3, <3>1
  <2>5. left = live
    BY <1>1, <2>4
  <2> QED
    BY <1>4, <2>1, <2>5 DEF TokensIn
<1>7. ASSUME Len(issued) \in Outstanding(issued) PROVE Len(issued) \in TokensIn(left)
  <2>1. Len(issued) \in TokensIn(sessions)
    BY <1>7 DEF AccessInv, SessionsInv, CrowdCounted
  <2>2. PICK e \in live : e.token = Len(issued)
    BY <1>4, <1>7, <2>1
  <2>3. \A f \in sessions : f.token <= e.token
    BY <2>2, TableFacts
  <2> QED
    BY <1>1, <2>2, <2>3 DEF TokensIn
<1> QED
  BY <1>1, <1>2, <1>3, <1>5, <1>6, <1>7

\* The later of two.
LEMMA MaxOfTwo == ASSUME NEW m \in Nat, NEW n \in Nat
                  PROVE  Max({m, n}) \in Nat /\ Max({m, n}) >= m /\ Max({m, n}) >= n
<1>1. \E x \in {m, n} : \A y \in {m, n} : x >= y
  OBVIOUS
<1>2. Max({m, n}) \in {m, n} /\ \A y \in {m, n} : Max({m, n}) >= y
  BY <1>1 DEF Max
<1> QED
  BY <1>2

\* Fewer are outstanding as days pass and sessions are given back.
LEMMA FewerOutstanding ==
  ASSUME AccessInv, Outstanding(issued)' \subseteq Outstanding(issued),
         NEW more \in Nat, Cardinality(Outstanding(issued)) <= more
  PROVE  Cardinality(Outstanding(issued)') <= more
<1>1. IsFiniteSet(1..Len(issued)) /\ Outstanding(issued) \in SUBSET (1..Len(issued))
  BY FS_Interval, TableFacts DEF Outstanding
<1>2. IsFiniteSet(Outstanding(issued))
  BY <1>1, FS_Subset
<1>3. Outstanding(issued)' \in SUBSET Outstanding(issued)
  OBVIOUS
<1> DEFINE before == Outstanding(issued) after == Outstanding(issued)'
<1>4. IsFiniteSet(before) /\ after \in SUBSET before /\ Cardinality(before) <= more
  BY <1>2, <1>3
<1> HIDE DEF before, after
<1>5. IsFiniteSet(after) /\ Cardinality(after) <= Cardinality(before)
  BY <1>4, FS_Subset
<1>6. Cardinality(after) \in Nat /\ Cardinality(before) \in Nat
  BY <1>4, <1>5, FS_CardinalityType
<1>7. Cardinality(after) <= more
  BY <1>4, <1>5, <1>6
<1> QED
  BY <1>7 DEF after

\* One more element is at most one more to count.
LEMMA OneMore ==
  ASSUME NEW S, IsFiniteSet(S), NEW x
  PROVE  IsFiniteSet(S \cup {x}) /\ Cardinality(S \cup {x}) <= Cardinality(S) + 1
<1>1. Cardinality(S \cup {x}) = IF x \in S THEN Cardinality(S) ELSE Cardinality(S) + 1
  BY FS_AddElement
<1>2. Cardinality(S) \in Nat
  BY FS_CardinalityType
<1> QED
  BY <1>1, <1>2, FS_AddElement

\* Steps of the grants leave the sessions as they are.
LEMMA SessionsStand ==
  ASSUME AccessInv, UNCHANGED <<day, sessionVars>> PROVE day' \in Nat /\ SessionsInv'
BY DEF AccessInv, SessionsInv, SessionsTypeOK, SessionsTrue, CrowdCounted, Outstanding, TokensIn, sessionVars

\* Steps of the sessions leave the grants as they are.
LEMMA GrantsStand ==
  ASSUME AccessInv, UNCHANGED grantVars PROVE GrantsInv'
BY DEF AccessInv, GrantsInv, GrantsTypeOK, GrantsTrue, grantVars

\* A session issued after pruning fits, and is the newest.
LEMMA IssueKeeps ==
  ASSUME AccessInv, NEW ttl \in Lifetimes, Issue(ttl) PROVE AccessInv'
<1> DEFINE left == Admitting(sessions, MaxSessions)
           token == Len(issued) + 1
           new == [until |-> day + ttl, revoked |-> FALSE]
           entry == [token |-> token, until |-> day + ttl]
<1>1. /\ left \subseteq sessions /\ IsFiniteSet(left)
      /\ Cardinality(left) \in Nat /\ Cardinality(left) < MaxSessions
      /\ SessionsPruned(left) = TokensIn(left)
      /\ TokensIn(left) \subseteq Outstanding(issued)
      /\ crowd < MaxSessions => Outstanding(issued) \subseteq TokensIn(left)
  BY SessionsPrunedFacts
<1>2. /\ sessions' = left \cup {entry} /\ byId' = TokensIn(left) \cup {token}
      /\ issued' = Append(issued, new) /\ day' = day /\ UNCHANGED grantVars
      /\ crowd' = Max({crowd, Cardinality(Outstanding(issued'))})
  BY <1>1 DEF Issue
<1>3. /\ issued \in Seq([until : Nat, revoked : BOOLEAN]) /\ Len(issued) \in Nat
      /\ token \in Nat /\ ttl \in Nat /\ ttl > 0 /\ day \in Nat /\ day + ttl \in Nat
      /\ MaxSessions \in Nat /\ DOMAIN issued = 1..Len(issued) /\ crowd \in Nat
  BY AccessAssumption, TableFacts DEF AccessInv, SessionsInv, SessionsTypeOK
<1>4. \A e \in left : /\ e.token \in 1..Len(issued) /\ e.until \in Nat
                       /\ e \in [token : DOMAIN issued, until : Nat] /\ e \in sessions
  BY <1>1, TableFacts DEF AccessInv, SessionsInv, SessionsTypeOK
<1> HIDE DEF left
<1>5. /\ issued' \in Seq([until : Nat, revoked : BOOLEAN]) /\ Len(issued') = token
      /\ DOMAIN issued' = 1..token /\ issued'[token] = new
      /\ \A t \in 1..Len(issued) : issued'[t] = issued[t]
  <2>1. new \in [until : Nat, revoked : BOOLEAN]
    BY <1>3
  <2> HIDE DEF new
  <2> QED
    BY <1>2, <1>3, <2>1
<1>6. Outstanding(issued') = Outstanding(issued) \cup {token}
  BY <1>3, <1>5 DEF Outstanding
<1>7. Outstanding(issued)' = Outstanding(issued')
  BY <1>2 DEF Outstanding
<1>8. IsFiniteSet(Outstanding(issued')) /\ Cardinality(Outstanding(issued')) \in Nat
  <2>1. IsFiniteSet(1..token) /\ Outstanding(issued') \in SUBSET (1..token)
    BY <1>3, <1>5, FS_Interval DEF Outstanding
  <2> QED
    BY <2>1, FS_Subset, FS_CardinalityType
<1>9. /\ crowd' \in Nat /\ crowd' >= crowd /\ crowd' >= Cardinality(Outstanding(issued'))
  BY <1>2, <1>3, <1>8, MaxOfTwo
<1>10. TokensIn(sessions') = TokensIn(left) \cup {token}
  <2>1. entry.token = token
    OBVIOUS
  <2> HIDE DEF entry, token
  <2> QED
    BY <1>2, <2>1 DEF TokensIn
<1>11. SessionsTypeOK'
  <2>1. sessions' \subseteq [token : DOMAIN issued', until : Nat]
    BY <1>2, <1>3, <1>4, <1>5
  <2>2. byId' \subseteq DOMAIN issued'
    BY <1>2, <1>3, <1>4, <1>5 DEF TokensIn
  <2>3. \A e, f \in sessions' : e.token = f.token => e = f
    BY <1>2, <1>3, <1>4, TableFacts
  <2> QED
    BY <1>5, <1>9, <2>1, <2>2, <2>3 DEF SessionsTypeOK
<1>12. SessionsTrue'
  <2>1. IsFiniteSet(sessions') /\ Cardinality(sessions') <= Cardinality(left) + 1
    <3>1. sessions' = left \cup {entry}
      BY <1>2
    <3> HIDE DEF entry
    <3> QED
      BY <1>1, <3>1, OneMore
  <2>2. Cardinality(sessions') <= MaxSessions
    <3>1. IsFiniteSet(sessions') /\ Cardinality(sessions') \in Nat
      BY <2>1, FS_CardinalityType
    <3> QED
      BY <1>1, <1>3, <2>1, <3>1
  <2>3. \A e \in sessions' : e.until = issued'[e.token].until /\ ~issued'[e.token].revoked
    BY <1>2, <1>4, <1>5 DEF AccessInv, SessionsInv, SessionsTrue
  <2> QED
    BY <1>2, <1>10, <2>1, <2>2, <2>3 DEF SessionsTrue, TokensIn
<1>13. CrowdCounted'
  <2>1. Cardinality(Outstanding(issued)') <= crowd'
    BY <1>7, <1>8, <1>9
  <2>2. crowd' < MaxSessions => crowd < MaxSessions
    BY <1>3, <1>9
  <2>3. crowd' < MaxSessions => Outstanding(issued)' \subseteq TokensIn(sessions')
    BY <1>1, <1>6, <1>7, <1>10, <2>2
  <2>4. Len(issued') \in TokensIn(sessions')
    BY <1>5, <1>10
  <2> QED
    BY <2>1, <2>3, <2>4 DEF CrowdCounted, TokensIn
<1> QED
  BY <1>2, <1>3, <1>11, <1>12, <1>13, GrantsStand DEF AccessInv, SessionsInv

\* A lookup prunes, and loses no more than the limit makes it.
LEMMA ResolveKeeps ==
  ASSUME AccessInv, ResolveAny PROVE AccessInv'
<1> DEFINE left == Admitting(sessions, MaxSessions)
<1>1. /\ left \subseteq sessions /\ IsFiniteSet(left)
      /\ Cardinality(left) \in Nat /\ Cardinality(left) < MaxSessions
      /\ SessionsPruned(left) = TokensIn(left)
      /\ TokensIn(left) \subseteq Outstanding(issued)
      /\ crowd < MaxSessions => Outstanding(issued) \subseteq TokensIn(left)
      /\ Len(issued) \in Outstanding(issued) => Len(issued) \in TokensIn(left)
  BY SessionsPrunedFacts
<1>2. /\ sessions' = left /\ byId' = TokensIn(left)
      /\ UNCHANGED <<issued, crowd, day, grantVars>>
  <2>1. sessions' = left /\ byId' = SessionsPruned(sessions') /\ UNCHANGED <<issued, crowd, day, grantVars>>
    BY DEF ResolveAny
  <2> QED
    BY <1>1, <2>1
<1>3. Outstanding(issued)' = Outstanding(issued)
  BY <1>2 DEF Outstanding
<1>4. TokensIn(left) \subseteq DOMAIN issued
  BY <1>1, TableFacts DEF TokensIn
<1> HIDE DEF left
<1>5. SessionsTypeOK'
  BY <1>1, <1>2, <1>4 DEF AccessInv, SessionsInv, SessionsTypeOK
<1>6. SessionsTrue'
  <2>1. Cardinality(left) <= MaxSessions
    BY <1>1, AccessAssumption
  <2> QED
    BY <1>1, <1>2, <2>1 DEF AccessInv, SessionsInv, SessionsTrue, TokensIn
<1>7. CrowdCounted'
  BY <1>1, <1>2, <1>3 DEF AccessInv, SessionsInv, CrowdCounted, TokensIn
<1> QED
  BY <1>2, <1>5, <1>6, <1>7, GrantsStand DEF AccessInv, SessionsInv

\* What was issued is on record.
LEMMA IssuedTyped ==
  ASSUME AccessInv, NEW t \in DOMAIN issued PROVE issued[t] \in [until : Nat, revoked : BOOLEAN]
<1> DEFINE R == [until : Nat, revoked : BOOLEAN]
<1>1. issued \in Seq(R) /\ t \in 1..Len(issued)
  BY TableFacts DEF AccessInv, SessionsInv, SessionsTypeOK
<1> HIDE DEF R
<1>2. issued[t] \in R
  BY <1>1
<1> QED
  BY <1>2 DEF R

\* Whoever signs out is no longer outstanding.
LEMMA RevokeKeeps ==
  ASSUME AccessInv, NEW t \in byId, Revoke(t) PROVE AccessInv'
<1>1. /\ byId' = byId \ {t} /\ sessions' = {e \in sessions : e.token # t}
      /\ issued' = [issued EXCEPT ![t].revoked = TRUE]
      /\ UNCHANGED <<day, crowd, grantVars>>
  BY DEF Revoke
<1>2. /\ issued \in Seq([until : Nat, revoked : BOOLEAN]) /\ t \in DOMAIN issued
      /\ DOMAIN issued = 1..Len(issued) /\ Len(issued) \in Nat /\ crowd \in Nat
  BY TableFacts DEF AccessInv, SessionsInv, SessionsTypeOK
<1>3. /\ issued' \in Seq([until : Nat, revoked : BOOLEAN])
      /\ Len(issued') = Len(issued) /\ DOMAIN issued' = DOMAIN issued
      /\ \A s \in DOMAIN issued : s # t => issued'[s] = issued[s]
      /\ \A s \in DOMAIN issued : issued'[s].until = issued[s].until
      /\ issued'[t].revoked
  <2>1. issued[t] \in [until : Nat, revoked : BOOLEAN]
    BY <1>2, IssuedTyped
  <2>2. [issued[t] EXCEPT !.revoked = TRUE] \in [until : Nat, revoked : BOOLEAN]
    BY <2>1
  <2>3. issued' = [issued EXCEPT ![t] = [issued[t] EXCEPT !.revoked = TRUE]]
    BY <1>1
  <2> QED
    BY <1>2, <2>1, <2>2, <2>3
<1>4. Outstanding(issued)' = Outstanding(issued) \ {t}
  BY <1>1, <1>2, <1>3 DEF Outstanding
<1>5. TokensIn(sessions') = TokensIn(sessions) \ {t}
  BY <1>1 DEF TokensIn
<1>6. SessionsTypeOK'
  BY <1>1, <1>2, <1>3 DEF AccessInv, SessionsInv, SessionsTypeOK
<1>7. SessionsTrue'
  <2>1. IsFiniteSet(sessions) /\ sessions' \in SUBSET sessions
    BY <1>1 DEF AccessInv, SessionsInv, SessionsTrue
  <2>2. IsFiniteSet(sessions') /\ Cardinality(sessions') <= Cardinality(sessions)
    BY <2>1, FS_Subset
  <2>3. Cardinality(sessions') <= MaxSessions
    <3>1. Cardinality(sessions) \in Nat /\ Cardinality(sessions') \in Nat
      BY <2>1, <2>2, FS_CardinalityType
    <3> QED
      BY <2>2, <3>1, AccessAssumption DEF AccessInv, SessionsInv, SessionsTrue
  <2>4. \A e \in sessions' : e.until = issued'[e.token].until /\ ~issued'[e.token].revoked
    BY <1>1, <1>3, TableFacts DEF AccessInv, SessionsInv, SessionsTrue
  <2>5. byId' = TokensIn(sessions')
    BY <1>1, <1>5 DEF AccessInv, SessionsInv, SessionsTrue
  <2> QED
    BY <2>2, <2>3, <2>4, <2>5 DEF SessionsTrue, TokensIn
<1>8. CrowdCounted'
  <2>1. Cardinality(Outstanding(issued)') <= crowd'
    BY <1>1, <1>2, <1>4, FewerOutstanding DEF AccessInv, SessionsInv, CrowdCounted
  <2>2. crowd' < MaxSessions => Outstanding(issued)' \subseteq TokensIn(sessions')
    BY <1>1, <1>4, <1>5 DEF AccessInv, SessionsInv, CrowdCounted
  <2>3. Len(issued)' \in Outstanding(issued)' => Len(issued)' \in TokensIn(sessions')
    BY <1>3, <1>4, <1>5 DEF AccessInv, SessionsInv, CrowdCounted
  <2> QED
    BY <2>1, <2>2, <2>3 DEF CrowdCounted, TokensIn
<1> QED
  BY <1>1, <1>6, <1>7, <1>8, GrantsStand DEF AccessInv, SessionsInv

\* Sessions expire.
LEMMA DawnKeeps ==
  ASSUME AccessInv, Dawns PROVE AccessInv'
<1>1. day' = day + 1 /\ UNCHANGED <<sessionVars, grantVars>> /\ day \in Nat /\ crowd \in Nat
  BY TableFacts DEF Dawns, AccessInv, SessionsInv, SessionsTypeOK
<1>2. Outstanding(issued)' \subseteq Outstanding(issued)
  <2>1. \A t \in DOMAIN issued : issued[t].until \in Nat
    BY IssuedTyped
  <2> QED
    BY <1>1, <2>1 DEF Outstanding, sessionVars
<1>3. CrowdCounted'
  <2>1. Cardinality(Outstanding(issued)') <= crowd
    BY <1>1, <1>2, FewerOutstanding DEF AccessInv, SessionsInv, CrowdCounted
  <2> QED
    BY <1>1, <1>2, <2>1 DEF AccessInv, SessionsInv, CrowdCounted, TokensIn, sessionVars
<1>4. SessionsTypeOK' /\ SessionsTrue'
  BY <1>1 DEF AccessInv, SessionsInv, SessionsTypeOK, SessionsTrue, TokensIn, sessionVars
<1> QED
  BY <1>1, <1>3, <1>4, GrantsStand DEF AccessInv, SessionsInv

\* What prune leaves of the grants.
LEMMA GrantsPrunedFacts ==
  ASSUME AccessInv, NEW left, left = Admitting(grants, MaxGrants)
  PROVE  /\ left \subseteq grants /\ IsFiniteSet(left)
         /\ Cardinality(left) \in Nat /\ Cardinality(left) < MaxGrants
<1>1. IsFiniteSet(grants) /\ MaxGrants \in Nat \ {0, 1}
  BY AccessAssumption DEF AccessInv, GrantsInv, GrantsTrue
<1>2. left \subseteq Unexpired(grants) /\ Unexpired(grants) \subseteq grants
      /\ IsFiniteSet(left) /\ Cardinality(left) \in Nat /\ Cardinality(left) < MaxGrants
  BY <1>1, PruneFacts, TableFacts
<1> QED
  BY <1>2

\* One more grant fits, and is told from the others.
LEMMA GrantFits ==
  ASSUME AccessInv, NEW left, left \subseteq grants, IsFiniteSet(left),
         Cardinality(left) < MaxGrants,
         NEW until \in Nat, NEW mark \in 0..file.mark, NEW torn \in BOOLEAN,
         mark = file.mark /\ ~torn => file.admitted,
         Granted(left, until, mark, torn), UNCHANGED file
  PROVE  /\ given' \in 0..MaxIssued
         /\ grants' \subseteq [token : 1..given', until : Nat, mark : 0..file.mark, torn : BOOLEAN]
         /\ \A e, f \in grants' : e.token = f.token => e = f
         /\ IsFiniteSet(grants') /\ Cardinality(grants') <= MaxGrants
         /\ \A e \in grants' : e.mark = file.mark /\ ~e.torn => file.admitted
<1> DEFINE new == [token |-> given', until |-> until, mark |-> mark, torn |-> torn]
<1>1. /\ given' = given + 1 /\ given < MaxIssued /\ given \in Nat /\ MaxIssued \in Nat
      /\ grants' = left \cup {new}
  BY TableFacts, AccessAssumption DEF Granted
<1>2. /\ grants \subseteq [token : 1..given, until : Nat, mark : 0..file.mark, torn : BOOLEAN]
      /\ file.mark \in Nat
  BY AccessAssumption DEF AccessInv, GrantsInv, GrantsTypeOK
<1>3. \A e \in left : e \in grants /\ e.token <= given /\ e.token \in Nat
  BY TableFacts
<1>4. new \in [token : 1..given', until : Nat, mark : 0..file.mark, torn : BOOLEAN]
      /\ new.token = given' /\ new.mark = mark /\ new.torn = torn
  BY <1>1
<1> HIDE DEF new
<1>5. grants' \subseteq [token : 1..given', until : Nat, mark : 0..file.mark, torn : BOOLEAN]
  BY <1>1, <1>2, <1>3, <1>4
<1>6. \A e, f \in grants' : e.token = f.token => e = f
  BY <1>1, <1>3, <1>4, TableFacts
<1>7. IsFiniteSet(grants') /\ Cardinality(grants') <= MaxGrants
  <2>1. IsFiniteSet(grants') /\ Cardinality(grants') <= Cardinality(left) + 1
    BY <1>1, OneMore
  <2>2. Cardinality(grants') \in Nat /\ Cardinality(left) \in Nat /\ MaxGrants \in Nat
    BY <2>1, FS_CardinalityType, AccessAssumption
  <2> QED
    BY <2>1, <2>2
<1>8. \A e \in grants' : e.mark = file.mark /\ ~e.torn => file.admitted
  BY <1>1, <1>3, <1>4 DEF AccessInv, GrantsInv, GrantsTrue
<1> QED
  BY <1>1, <1>5, <1>6, <1>7, <1>8

\* Taking grants away, and reading the file, do no harm.
LEMMA GrantsShrink ==
  ASSUME AccessInv, grants' \subseteq grants, UNCHANGED <<day, sessionVars, given, file, misserved>>,
         deliveries' \in 0..MaxDeliveries, reading' \in Lifetimes \cup {0},
         reading' # 0 => Cardinality(grants') < MaxGrants
  PROVE  AccessInv'
<1>1. GrantsTypeOK'
  BY DEF AccessInv, GrantsInv, GrantsTypeOK
<1>2. IsFiniteSet(grants') /\ Cardinality(grants') <= MaxGrants
  <2>1. IsFiniteSet(grants) /\ grants' \in SUBSET grants /\ Cardinality(grants) <= MaxGrants
    BY DEF AccessInv, GrantsInv, GrantsTrue
  <2>2. IsFiniteSet(grants') /\ Cardinality(grants') <= Cardinality(grants)
    BY <2>1, FS_Subset
  <2>3. Cardinality(grants') \in Nat /\ Cardinality(grants) \in Nat /\ MaxGrants \in Nat
    BY <2>1, <2>2, FS_CardinalityType, AccessAssumption
  <2> QED
    BY <2>1, <2>2, <2>3
<1>3. GrantsTrue'
  BY <1>2 DEF AccessInv, GrantsInv, GrantsTrue
<1> QED
  BY <1>1, <1>3, SessionsStand DEF AccessInv, GrantsInv

\* The file is read after pruning.
LEMMA ReadKeeps ==
  ASSUME AccessInv, NEW ttl \in Lifetimes, ReadFile(ttl) PROVE AccessInv'
<1>1. /\ grants' = Admitting(grants, MaxGrants) /\ reading' \in {0, ttl}
      /\ UNCHANGED <<day, sessionVars, given, deliveries, file, misserved>>
  BY DEF ReadFile
<1>2. grants' \subseteq grants /\ Cardinality(grants') < MaxGrants
  BY <1>1, GrantsPrunedFacts
<1>3. deliveries \in 0..MaxDeliveries
  BY DEF AccessInv, GrantsInv, GrantsTypeOK
<1> QED
  BY <1>1, <1>2, <1>3, GrantsShrink

\* The room that pruning made before the file was read is still there.
LEMMA StatKeeps == ASSUME AccessInv, StatFile PROVE AccessInv'
<1>1. /\ Granted(grants, day + reading, file.mark, ~file.admitted)
      /\ reading # 0 /\ reading' = 0
      /\ UNCHANGED <<day, sessionVars, deliveries, file, misserved>>
  BY DEF StatFile
<1>2. /\ IsFiniteSet(grants) /\ Cardinality(grants) < MaxGrants
      /\ reading \in Nat /\ day + reading \in Nat
      /\ file.mark \in 0..file.mark /\ (~file.admitted) \in BOOLEAN
  BY <1>1, AccessAssumption DEF AccessInv, GrantsInv, GrantsTrue, GrantsTypeOK
<1>3. /\ given' \in 0..MaxIssued
      /\ grants' \subseteq [token : 1..given', until : Nat, mark : 0..file.mark, torn : BOOLEAN]
      /\ \A e, f \in grants' : e.token = f.token => e = f
      /\ IsFiniteSet(grants') /\ Cardinality(grants') <= MaxGrants
      /\ \A e \in grants' : e.mark = file.mark /\ ~e.torn => file.admitted
  BY <1>1, <1>2, GrantFits
<1>4. GrantsTypeOK'
  BY <1>1, <1>3 DEF AccessInv, GrantsInv, GrantsTypeOK
<1>5. GrantsTrue'
  BY <1>1, <1>3 DEF AccessInv, GrantsInv, GrantsTrue
<1> QED
  BY <1>1, <1>4, <1>5, SessionsStand DEF AccessInv, GrantsInv

\* A delivery that ends is stored after pruning once more.
LEMMA DeliveriesKeep == ASSUME AccessInv, AskDelivery \/ DeliveryEnds PROVE AccessInv'
<1>1. deliveries \in 0..MaxDeliveries /\ reading \in Lifetimes \cup {0} /\ MaxDeliveries \in Nat
  BY AccessAssumption DEF AccessInv, GrantsInv, GrantsTypeOK
<1>2. CASE AskDelivery
  <2>1. /\ grants' = Admitting(grants, MaxGrants) /\ deliveries' = deliveries + 1
        /\ deliveries < MaxDeliveries /\ UNCHANGED reading
        /\ UNCHANGED <<day, sessionVars, given, file, misserved>>
    BY <1>2 DEF AskDelivery
  <2>2. grants' \subseteq grants /\ Cardinality(grants') < MaxGrants
    BY <2>1, GrantsPrunedFacts
  <2>3. deliveries' \in 0..MaxDeliveries
    BY <1>1, <2>1
  <2> QED
    BY <1>1, <2>1, <2>2, <2>3, GrantsShrink
<1>3. CASE DeliveryEnds
  <2>1. /\ deliveries > 0 /\ deliveries' = deliveries - 1 /\ reading = 0
        /\ UNCHANGED <<day, sessionVars, reading, file, misserved>>
    BY <1>3 DEF DeliveryEnds
  <2>2. deliveries' \in 0..MaxDeliveries
    BY <1>1, <2>1
  <2>3. CASE UNCHANGED <<grants, given>>
    BY <1>1, <2>1, <2>2, <2>3, GrantsShrink
  <2>4. ASSUME NEW ttl \in Lifetimes, Granted(Admitting(grants, MaxGrants), day + ttl, 0, FALSE)
        PROVE  AccessInv'
    <3> DEFINE left == Admitting(grants, MaxGrants)
    <3>1. left \subseteq grants /\ IsFiniteSet(left) /\ Cardinality(left) < MaxGrants
      BY GrantsPrunedFacts
    <3>2. /\ day + ttl \in Nat /\ 0 \in 0..file.mark /\ 0 # file.mark
      BY AccessAssumption DEF AccessInv, GrantsInv, GrantsTypeOK
    <3>3. Granted(left, day + ttl, 0, FALSE)
      BY <2>4
    <3> HIDE DEF left
    <3>4. /\ given' \in 0..MaxIssued
          /\ grants' \subseteq [token : 1..given', until : Nat, mark : 0..file.mark, torn : BOOLEAN]
          /\ \A e, f \in grants' : e.token = f.token => e = f
          /\ IsFiniteSet(grants') /\ Cardinality(grants') <= MaxGrants
          /\ \A e \in grants' : e.mark = file.mark /\ ~e.torn => file.admitted
      BY <2>1, <3>1, <3>2, <3>3, GrantFits
    <3>5. GrantsTypeOK'
      BY <1>1, <2>1, <2>2, <3>4 DEF AccessInv, GrantsInv, GrantsTypeOK
    <3>6. GrantsTrue'
      BY <2>1, <3>4 DEF AccessInv, GrantsInv, GrantsTrue
    <3> QED
      BY <2>1, <3>5, <3>6, SessionsStand DEF AccessInv, GrantsInv
  <2> QED
    BY <1>3, <2>3, <2>4 DEF DeliveryEnds
<1> QED
  BY <1>2, <1>3

\* A grant to a changed file is taken out and not served.
LEMMA FetchKeeps == ASSUME AccessInv, NEW token, Fetch(token) PROVE AccessInv'
<1> DEFINE left   == Admitting(grants, MaxGrants)
           found   == {e \in left : e.token = token}
           changed == {e \in found : e.mark \notin {0, file.mark}}
<1>1. /\ reading = 0 /\ grants' = left \ changed
      /\ misserved' = (misserved \/ \E e \in found \ changed :
                                       e.mark # 0 /\ ~e.torn /\ ~file.admitted)
      /\ UNCHANGED <<day, sessionVars, given, deliveries, reading, file>>
  BY DEF Fetch
<1>2. left \subseteq grants
  BY GrantsPrunedFacts
<1> HIDE DEF left
<1>3. misserved' = misserved
  <2>1. ~\E e \in found \ changed : e.mark # 0 /\ ~e.torn /\ ~file.admitted
    BY <1>2 DEF AccessInv, GrantsInv, GrantsTrue
  <2>2. misserved = FALSE
    BY DEF AccessInv, GrantsInv, GrantsTrue, GrantsTypeOK
  <2> HIDE DEF found, changed
  <2> QED
    BY <1>1, <2>1, <2>2
<1>4. grants' \subseteq grants
  BY <1>1, <1>2
<1>5. deliveries' \in 0..MaxDeliveries /\ reading' \in Lifetimes \cup {0}
  BY <1>1 DEF AccessInv, GrantsInv, GrantsTypeOK
<1> QED
  BY <1>1, <1>3, <1>4, <1>5, GrantsShrink

\* No grant is for the time of a file that is written later.
LEMMA ReplaceKeeps == ASSUME AccessInv, ReplaceFile PROVE AccessInv'
<1>1. /\ file.mark <= MaxReplaced /\ file' \in [mark : {file.mark + 1}, admitted : BOOLEAN]
      /\ UNCHANGED <<day, sessionVars, grants, given, deliveries, reading, misserved>>
  BY DEF ReplaceFile
<1>2. file.mark \in 1..(MaxReplaced + 1) /\ MaxReplaced \in Nat
  BY AccessAssumption DEF AccessInv, GrantsInv, GrantsTypeOK
<1>3. file' \in [mark : 1..(MaxReplaced + 1), admitted : BOOLEAN] /\ file'.mark = file.mark + 1
  BY <1>1, <1>2
<1>4. \A e \in grants : e.mark \in 0..file.mark
  BY DEF AccessInv, GrantsInv, GrantsTypeOK
<1>5. grants \subseteq [token : 1..given, until : Nat, mark : 0..file'.mark, torn : BOOLEAN]
  <2>1. 0..file.mark \subseteq 0..file'.mark
    BY <1>2, <1>3
  <2>2. grants \subseteq [token : 1..given, until : Nat, mark : 0..file.mark, torn : BOOLEAN]
    BY DEF AccessInv, GrantsInv, GrantsTypeOK
  <2> QED
    BY <2>1, <2>2
<1>6. GrantsTypeOK'
  BY <1>1, <1>3, <1>5 DEF AccessInv, GrantsInv, GrantsTypeOK
<1>7. \A e \in grants : e.mark # file'.mark
  BY <1>2, <1>3, <1>4
<1>8. GrantsTrue'
  BY <1>1, <1>7 DEF AccessInv, GrantsInv, GrantsTrue
<1> QED
  BY <1>1, <1>6, <1>8, SessionsStand DEF AccessInv, GrantsInv

\* All steps of the grants.
LEMMA GrantStepsKeep == ASSUME AccessInv, GrantSteps PROVE AccessInv'
<1>1. CASE DisposeGrants
  <2>1. /\ grants' = {} /\ reading = 0
        /\ UNCHANGED <<day, sessionVars, given, deliveries, reading, file, misserved>>
    BY <1>1 DEF DisposeGrants
  <2>2. deliveries' \in 0..MaxDeliveries /\ reading' \in Lifetimes \cup {0}
    BY <2>1 DEF AccessInv, GrantsInv, GrantsTypeOK
  <2> QED
    BY <2>1, <2>2, GrantsShrink
<1> QED
  BY <1>1, ReadKeeps, StatKeeps, DeliveriesKeep, FetchKeeps, ReplaceKeeps DEF GrantSteps

\* The strengthening, in every state.
LEMMA AccessInductive == AccessSpec => []AccessInv
<1>1. AccessInit => AccessInv
  BY AccessStarts
<1>2. AccessInv /\ [AccessNext]_accessVars => AccessInv'
  <2> SUFFICES ASSUME AccessInv, [AccessNext]_accessVars PROVE AccessInv'
    OBVIOUS
  <2>1. CASE UNCHANGED accessVars
    <3>1. UNCHANGED <<day, sessionVars>> /\ UNCHANGED grantVars
      BY <2>1 DEF accessVars
    <3> QED
      BY <3>1, SessionsStand, GrantsStand DEF AccessInv
  <2>2. CASE SessionSteps
    BY <2>2, IssueKeeps, ResolveKeeps, RevokeKeeps DEF SessionSteps
  <2>3. CASE GrantSteps
    BY <2>3, GrantStepsKeep
  <2>4. CASE Dawns
    BY <2>4, DawnKeeps
  <2> QED
    BY <2>1, <2>2, <2>3, <2>4 DEF AccessNext
<1> QED
  BY <1>1, <1>2, PTL DEF AccessSpec

\* Tables and counters of backend/session.mjs and backend/content.mjs keep to their
\* types, and no table has one token twice.
THEOREM AccessTypeCorrect == AccessSpec => []AccessTypeOK
<1>1. AccessInv => AccessTypeOK
  BY DEF AccessInv, SessionsInv, GrantsInv, AccessTypeOK
<1> QED
  BY <1>1, AccessInductive, PTL

\* What backend/session.mjs and backend/content.mjs give out is known as long as was
\* promised, while the tables never were too small for what was live; nobody else is
\* known, and a grant serves what was admitted.
THEOREM AccessHeld == AccessSpec => []AccessHolds
<1>1. AccessInv => AccessHolds
  <2> SUFFICES ASSUME AccessInv PROVE AccessHolds
    OBVIOUS
  <2> DEFINE left == Admitting(sessions, MaxSessions)
  <2>1. /\ TokensIn(left) \subseteq Outstanding(issued)
        /\ crowd < MaxSessions => Outstanding(issued) \subseteq TokensIn(left)
        /\ Len(issued) \in Outstanding(issued) => Len(issued) \in TokensIn(left)
    BY SessionsPrunedFacts
  <2>2. SessionsKept
    BY <2>1 DEF SessionsKept, AccessInv, SessionsInv, SessionsTrue
  <2>3. GrantsKept
    BY DEF GrantsKept, AccessInv, GrantsInv, GrantsTrue
  <2> QED
    BY <2>2, <2>3 DEF AccessHolds
<1> QED
  BY <1>1, AccessInductive, PTL
-----------------------------------------------------------------------------
(* Records and their pages. *)

\* Whoever has one record of an id in mind, and finds one of the same birth, finds one of
\* the same owner; births to come are later than all that anybody has in mind.
BirthsTell ==
  /\ \A i \in Ids : database[i] # Absent => database[i].born <= writes
  /\ \A w \in Writers : current[w] # Absent =>
       /\ current[w].born < writes
       /\ LET i == current[w].id IN
          database[i] # Absent /\ database[i].born = current[w].born
            => database[i].owner = current[w].owner
       /\ \A v \in Writers :
            current[v] # Absent /\ current[v].id = current[w].id /\ current[v].born = current[w].born
              => current[v].owner = current[w].owner
  /\ \A w \in Writers : asked[w].op \in {"update", "delete"} =>
       /\ current[w] # Absent /\ current[w].id = asked[w].id
       /\ current[w].owner = asked[w].by
  /\ trespassed = {}

Given(d) == {r.id : r \in Range(seen[d])}
Stands(i) == database[i] # Absent /\ database[i].owner = Reader

\* Half-way through the pages, what stayed was given or lies on the far side of the cursor,
\* which is the last record that was given.
HalfWay ==
  /\ walk = "forward" =>
       /\ seen["backward"] = <<>>
       /\ IF seen["forward"] = <<>> THEN cursor = Absent ELSE cursor = Last(seen["forward"])
       /\ \A i \in stayed["forward"] :
            /\ Stands(i)
            /\ i \in Given("forward") \/ cursor = Absent \/ Before(cursor, database[i])
  /\ walk = "backward" =>
       /\ cursor # Absent
       /\ seen["backward"] # <<>> => cursor = Head(seen["backward"])
       /\ \A i \in stayed["backward"] :
            Stands(i) /\ (i \in Given("backward") \/ Before(database[i], cursor))

RecordsInv == RecordsTypeOK /\ BirthsTell /\ HalfWay /\ WalkIsComplete

-----------------------------------------------------------------------------
\* compareRecord is an order that tells ids apart.
LEMMA BeforeOrders ==
  ASSUME NEW a \in Record, NEW b \in Record
  PROVE  /\ ~Before(a, a)
         /\ Before(a, b) => ~Before(b, a)
         /\ a.id # b.id => Before(a, b) \/ Before(b, a)
         /\ \A c \in Record : Before(a, b) /\ Before(b, c) => Before(a, c)
<1>1. \A r \in Record : r.id \in Nat /\ r.rank \in Nat
  BY RecordsAssumption DEF Record
<1>2. a.id \in Nat /\ a.rank \in Nat /\ b.id \in Nat /\ b.rank \in Nat
  BY <1>1
<1>3. ASSUME NEW c \in Record, Before(a, b), Before(b, c) PROVE Before(a, c)
  <2>1. c.id \in Nat /\ c.rank \in Nat
    BY <1>1
  <2> QED
    BY <1>2, <1>3, <2>1 DEF Before
<1> QED
  BY <1>2, <1>3 DEF Before

\* Sorted lists every record, each before those after it.
LEMMA SortedLists ==
  ASSUME NEW S \in SUBSET Record, IsFiniteSet(S), \A a, b \in S : a.id = b.id => a = b,
         NEW list, list = Sorted(S)
  PROVE  /\ list \in Seq(Record) /\ Len(list) = Cardinality(S)
         /\ \A n \in 1..Len(list) : list[n] \in S
         /\ \A r \in S : \E n \in 1..Len(list) : list[n] = r
         /\ \A m, n \in 1..Len(list) : m < n => Before(list[m], list[n])
<1> DEFINE under(r) == {q \in S : Before(q, r)}
           rank(r) == Cardinality(under(r))
           N == Cardinality(S)
<1>1. N \in Nat
  BY FS_CardinalityType
<1>2. ASSUME NEW r \in S
      PROVE  /\ under(r) \in SUBSET S /\ r \notin under(r)
             /\ IsFiniteSet(under(r)) /\ rank(r) \in Nat /\ rank(r) < N
  <2>1. under(r) \in SUBSET S /\ r \notin under(r)
    BY BeforeOrders
  <2> HIDE DEF under
  <2>2. IsFiniteSet(under(r)) /\ rank(r) \in Nat /\ rank(r) <= N /\ (rank(r) = N => under(r) = S)
    BY <2>1, FS_Subset, FS_CardinalityType
  <2>3. rank(r) # N
    BY <2>1, <2>2
  <2> HIDE DEF rank, N
  <2> QED
    BY <1>1, <2>1, <2>2, <2>3
<1>3. ASSUME NEW a \in S, NEW b \in S, Before(a, b) PROVE rank(a) < rank(b)
  <2>1. under(a) \in SUBSET under(b) /\ a \in under(b) /\ a \notin under(a)
    BY <1>3, BeforeOrders
  <2>2. IsFiniteSet(under(b))
    BY <1>2
  <2> HIDE DEF under
  <2>3. rank(a) <= rank(b) /\ rank(a) # rank(b)
    BY <2>1, <2>2, FS_Subset
  <2>4. rank(a) \in Nat /\ rank(b) \in Nat
    BY <1>2
  <2> HIDE DEF rank
  <2> QED
    BY <2>3, <2>4
<1>4. ASSUME NEW a \in S, NEW b \in S, a # b PROVE rank(a) # rank(b)
  <2>1. Before(a, b) \/ Before(b, a)
    BY <1>4, BeforeOrders
  <2>2. rank(a) \in Nat /\ rank(b) \in Nat
    BY <1>2
  <2> HIDE DEF rank
  <2> QED
    BY <1>3, <2>1, <2>2
<1>5. \A n \in 1..N : \E r \in S : rank(r) = n - 1
  <2> DEFINE f == [r \in S |-> rank(r) + 1]
  <2> HIDE DEF rank, N
  <2>1. f \in Injection(S, 1..N)
    <3>1. \A r \in S : rank(r) \in Nat /\ rank(r) < N
      BY <1>2 DEF N
    <3>2. \A r \in S : rank(r) + 1 \in 1..N
      BY <1>1, <3>1
    <3>3. \A a, b \in S : rank(a) + 1 = rank(b) + 1 => a = b
      BY <1>4, <3>1
    <3> QED
      BY <3>2, <3>3 DEF Injection, IsInjective
  <2>2. IsFiniteSet(1..N) /\ Cardinality(1..N) = N
    BY <1>1, FS_Interval
  <2>3. f \in Surjection(S, 1..N)
    <3> HIDE DEF f
    <3> QED
      BY <2>1, <2>2, FS_Injection DEF N
  <2>4. \A n \in 1..N : \E r \in S : f[r] = n
    <3> HIDE DEF f
    <3> QED
      BY <2>3 DEF Surjection
  <2>5. ASSUME NEW n \in 1..N PROVE \E r \in S : rank(r) = n - 1
    <3>1. PICK r \in S : f[r] = n
      BY <2>4
    <3>2. f[r] = rank(r) + 1 /\ rank(r) \in Nat
      BY <1>2
    <3> HIDE DEF f
    <3> QED
      BY <1>1, <3>1, <3>2
  <2> QED
    BY <2>5
<1>6. list = [n \in 1..N |-> CHOOSE r \in S : rank(r) = n - 1]
  BY DEF Sorted
<1> HIDE DEF rank, N
<1>7. \A n \in 1..N : list[n] \in S /\ rank(list[n]) = n - 1
  BY <1>5, <1>6
<1>8. list \in Seq(Record) /\ Len(list) = N
  <2>1. list \in [1..N -> Record]
    BY <1>6, <1>7
  <2> QED
    BY <1>1, <2>1
<1>9. ASSUME NEW r \in S PROVE \E n \in 1..N : list[n] = r
  <2>1. rank(r) \in Nat /\ rank(r) < N
    BY <1>2 DEF N
  <2>2. rank(r) + 1 \in 1..N /\ (rank(r) + 1) - 1 = rank(r)
    BY <1>1, <2>1
  <2>3. list[rank(r) + 1] \in S /\ rank(list[rank(r) + 1]) = rank(r)
    BY <1>7, <2>2
  <2> QED
    BY <1>4, <2>2, <2>3
<1>10. ASSUME NEW m \in 1..N, NEW n \in 1..N, m < n PROVE Before(list[m], list[n])
  <2>1. /\ list[m] \in S /\ list[n] \in S
        /\ rank(list[m]) = m - 1 /\ rank(list[n]) = n - 1
    BY <1>7
  <2>2. list[m] # list[n] /\ ~(rank(list[n]) < rank(list[m]))
    BY <1>10, <2>1
  <2> QED
    BY <1>3, <2>1, <2>2, BeforeOrders
<1> QED
  BY <1>7, <1>8, <1>9, <1>10 DEF N


\* What is beyond a boundary: finitely many records of ids of their own.
LEMMA BeyondFacts ==
  ASSUME RecordsTypeOK, NEW d \in Directions, NEW b \in Record \cup {Absent}
  PROVE  /\ Beyond(d, b) \in SUBSET Record /\ IsFiniteSet(Beyond(d, b))
         /\ \A p, q \in Beyond(d, b) : p.id = q.id => p = q
         /\ \A r \in Beyond(d, b) : r.id \in Ids /\ database[r.id] = r
         /\ \A i \in Ids : Stands(i) =>
              \/ database[i] \in Beyond(d, b)
              \/ b # Absent /\ (d = "forward" => ~Before(b, database[i]))
                            /\ (d = "backward" => ~Before(database[i], b))
<1>1. database \in [Ids -> Record \cup {Absent}]
      /\ \A i \in Ids : database[i] # Absent => database[i].id = i
  BY DEF RecordsTypeOK
<1>2. \A r \in Visible : r \in Record /\ r.id \in Ids /\ database[r.id] = r
  BY <1>1 DEF Visible
<1>3. Beyond(d, b) \subseteq Visible
  BY DEF Beyond
<1>4. IsFiniteSet(Beyond(d, b))
  <2> DEFINE S == Beyond(d, b)
             f == [r \in S |-> r.id]
  <2>1. \A r \in S : r.id \in Ids
    BY <1>2, <1>3
  <2>2. \A p, q \in S : p.id = q.id => p = q
    BY <1>2, <1>3
  <2> HIDE DEF S
  <2>3. f \in Injection(S, Ids)
    BY <2>1, <2>2 DEF Injection, IsInjective
  <2> HIDE DEF f
  <2>4. IsFiniteSet(S)
    BY <2>3, FS_Injection, RecordsAssumption
  <2> QED
    BY <2>4 DEF S
<1>5. ASSUME NEW i \in Ids, Stands(i) PROVE database[i] \in Visible
  BY <1>5 DEF Stands, Visible
<1>6. ASSUME NEW i \in Ids, Stands(i)
      PROVE  \/ database[i] \in Beyond(d, b)
             \/ b # Absent /\ (d = "forward" => ~Before(b, database[i]))
                           /\ (d = "backward" => ~Before(database[i], b))
  BY <1>5, <1>6 DEF Beyond, Directions
<1> QED
  BY <1>2, <1>3, <1>4, <1>6

\* A page is in order, and leaves out nothing on the near side of where it ends.
LEMMA ItemsFacts ==
  ASSUME RecordsTypeOK, NEW d \in Directions, NEW b \in Record \cup {Absent},
         NEW items, items = Items(d, b)
  PROVE  /\ items \in Seq(Record) /\ InOrder(items)
         /\ \A n \in 1..Len(items) : items[n] \in Beyond(d, b)
         /\ HasMore(d, b) => items # <<>>
         /\ \A r \in Beyond(d, b) :
              \/ \E n \in 1..Len(items) : items[n] = r
              \/ HasMore(d, b) /\ d = "forward" /\ Before(Last(items), r)
              \/ HasMore(d, b) /\ d = "backward" /\ Before(r, Head(items))
<1> DEFINE S == Beyond(d, b)
           all == Bounded(d, b)
<1>1. /\ S \in SUBSET Record /\ IsFiniteSet(S) /\ \A p, q \in S : p.id = q.id => p = q
      /\ all = Sorted(S)
  BY BeyondFacts DEF Bounded
<1> HIDE DEF S, all
<1>2. /\ all \in Seq(Record) /\ Len(all) \in Nat
      /\ \A n \in 1..Len(all) : all[n] \in S
      /\ \A r \in S : \E n \in 1..Len(all) : all[n] = r
      /\ \A m, n \in 1..Len(all) : m < n => Before(all[m], all[n])
  BY <1>1, SortedLists
<1>3. Limit \in Nat /\ Limit >= 1
  BY RecordsAssumption
<1>4. HasMore(d, b) <=> Len(all) > Limit
  BY DEF HasMore, all
<1>5. CASE ~HasMore(d, b)
  <2>1. items = all
    BY <1>5 DEF Items, all
  <2>2. InOrder(items)
    BY <1>2, <2>1 DEF InOrder
  <2> QED
    BY <1>2, <1>5, <2>1, <2>2 DEF S
<1>6. CASE HasMore(d, b)
  <2> DEFINE from == IF d = "forward" THEN 1 ELSE Len(all) - Limit + 1
             to == IF d = "forward" THEN Limit ELSE Len(all)
  <2>1. items = SubSeq(all, from, to)
    BY <1>6 DEF Items, all
  <2>2. /\ from \in 1..Len(all) /\ to \in from..Len(all) /\ to - from + 1 = Limit
        /\ to \in 1..Len(all)
        /\ (d = "forward" => from = 1) /\ (d = "backward" => to = Len(all))
        /\ d \in {"forward", "backward"}
    BY <1>2, <1>3, <1>4, <1>6 DEF Directions
  <2> HIDE DEF from, to
  <2>3. \A n \in from..to : all[n] \in Record /\ n \in 1..Len(all)
    BY <1>1, <1>2, <2>2
  <2>4. /\ items \in Seq(Record) /\ Len(items) = Limit
        /\ \A n \in 1..Limit : items[n] = all[from + n - 1]
    BY <1>3, <2>1, <2>2, <2>3, SubSeqProperties
  <2>5. \A n \in 1..Limit : from + n - 1 \in 1..Len(all)
    BY <1>2, <1>3, <2>2
  <2>6. InOrder(items)
    <3> SUFFICES ASSUME NEW n \in 1..Limit - 1 PROVE Before(items[n], items[n + 1])
      BY <2>4 DEF InOrder
    <3>1. n \in 1..Limit /\ n + 1 \in 1..Limit /\ from + n - 1 < from + (n + 1) - 1
      BY <1>3, <2>2
    <3> DEFINE i == from + n - 1
               j == from + (n + 1) - 1
    <3>2. i \in 1..Len(all) /\ j \in 1..Len(all) /\ items[n] = all[i] /\ items[n + 1] = all[j]
      BY <2>4, <2>5, <3>1
    <3>3. i < j
      BY <3>1
    <3> HIDE DEF i, j
    <3> QED
      BY <1>2, <3>2, <3>3
  <2>7. items # <<>> /\ Last(items) = all[to] /\ Head(items) = all[from]
    <3>1. items # <<>>
      BY <1>3, <2>4
    <3>2. Limit \in 1..Limit /\ 1 \in 1..Limit /\ from + Limit - 1 = to /\ from + 1 - 1 = from
      BY <1>3, <2>2
    <3>3. Head(items) = items[1]
      BY <3>1, <2>4
    <3> QED
      BY <3>1, <3>2, <3>3, <2>4 DEF Last
  <2>8. ASSUME NEW r \in S
        PROVE  \/ \E n \in 1..Len(items) : items[n] = r
               \/ d = "forward" /\ Before(Last(items), r)
               \/ d = "backward" /\ Before(r, Head(items))
    <3>1. PICK n \in 1..Len(all) : all[n] = r
      BY <1>2
    <3>2. CASE n \in from..to
      <4>1. n - from + 1 \in 1..Limit /\ from + (n - from + 1) - 1 = n
        BY <1>2, <2>2, <3>2
      <4> QED
        BY <2>4, <3>1, <4>1
    <3>3. CASE n \notin from..to
      <4>1. (d = "forward" /\ to < n) \/ (d = "backward" /\ n < from)
        BY <1>2, <2>2, <3>3
      <4> QED
        BY <1>2, <2>2, <2>7, <3>1, <4>1
    <3> QED
      BY <3>2, <3>3
  <2> QED
    BY <1>2, <1>6, <2>4, <2>5, <2>6, <2>7, <2>8 DEF S
<1> QED
  BY <1>5, <1>6

\* Pages in order, the one after the other, are in order.
LEMMA InOrderJoined ==
  ASSUME NEW s \in Seq(Record), NEW t \in Seq(Record), InOrder(s), InOrder(t),
         s # <<>> /\ t # <<>> => Before(Last(s), Head(t))
  PROVE  InOrder(s \o t)
<1>1. /\ s \o t \in Seq(Record) /\ Len(s \o t) = Len(s) + Len(t)
      /\ \A i \in 1..Len(s) + Len(t) : (s \o t)[i] = IF i <= Len(s) THEN s[i] ELSE t[i - Len(s)]
      /\ Len(s) \in Nat /\ Len(t) \in Nat
  BY ConcatProperties, LenProperties
<1> SUFFICES ASSUME NEW i \in 1..Len(s \o t) - 1
             PROVE  Before((s \o t)[i], (s \o t)[i + 1])
  BY DEF InOrder
<1>2. i \in Nat /\ i >= 1 /\ i + 1 <= Len(s) + Len(t)
      /\ i \in 1..Len(s) + Len(t) /\ i + 1 \in 1..Len(s) + Len(t)
  BY <1>1
<1>3. CASE i < Len(s)
  <2>1. (s \o t)[i] = s[i] /\ (s \o t)[i + 1] = s[i + 1] /\ i \in 1..Len(s) - 1
    BY <1>1, <1>2, <1>3
  <2> QED
    BY <2>1 DEF InOrder
<1>4. CASE i = Len(s)
  <2>1. (s \o t)[i] = s[i] /\ (s \o t)[i + 1] = t[1]
    <3>1. i <= Len(s) /\ ~(i + 1 <= Len(s)) /\ i + 1 - Len(s) = 1
      BY <1>1, <1>2, <1>4
    <3> QED
      BY <1>1, <1>2, <3>1
  <2>2. s # <<>> /\ t # <<>>
    BY <1>1, <1>2, <1>4
  <2>3. Head(t) = t[1]
    BY <2>2
  <2> QED
    BY <1>4, <2>1, <2>2, <2>3 DEF Last
<1>5. CASE i > Len(s)
  <2> DEFINE j == i - Len(s)
  <2>1. ~(i <= Len(s)) /\ ~(i + 1 <= Len(s)) /\ i + 1 - Len(s) = j + 1 /\ j \in 1..Len(t) - 1
    BY <1>1, <1>2, <1>5
  <2>2. (s \o t)[i] = t[j] /\ (s \o t)[i + 1] = t[j + 1]
    BY <1>1, <1>2, <2>1
  <2> HIDE DEF j
  <2> QED
    BY <2>1, <2>2 DEF InOrder
<1> QED
  BY <1>1, <1>2, <1>3, <1>4, <1>5


\* What the reader was given grows by a page.
LEMMA GivenGrows ==
  ASSUME NEW s \in Seq(Record), NEW t \in Seq(Record)
  PROVE  Range(s \o t) = Range(s) \cup Range(t)
<1>1. /\ s \o t \in Seq(Record) /\ Len(s \o t) = Len(s) + Len(t)
      /\ \A i \in 1..Len(s) + Len(t) : (s \o t)[i] = IF i <= Len(s) THEN s[i] ELSE t[i - Len(s)]
      /\ Len(s) \in Nat /\ Len(t) \in Nat
      /\ DOMAIN s = 1..Len(s) /\ DOMAIN t = 1..Len(t) /\ DOMAIN (s \o t) = 1..Len(s) + Len(t)
  BY ConcatProperties, LenProperties
<1>2. ASSUME NEW i \in 1..Len(s) + Len(t)
      PROVE  (s \o t)[i] \in Range(s) \cup Range(t)
  <2>1. CASE i <= Len(s)
    <3>1. i \in DOMAIN s /\ (s \o t)[i] = s[i]
      BY <1>1, <2>1
    <3> QED
      BY <3>1 DEF Range
  <2>2. CASE ~(i <= Len(s))
    <3>1. i - Len(s) \in DOMAIN t /\ (s \o t)[i] = t[i - Len(s)]
      BY <1>1, <2>2
    <3> QED
      BY <3>1 DEF Range
  <2> QED
    BY <2>1, <2>2
<1>3. ASSUME NEW i \in 1..Len(s) PROVE s[i] \in Range(s \o t)
  <2>1. i \in 1..Len(s) + Len(t) /\ i <= Len(s)
    BY <1>1
  <2>2. (s \o t)[i] = s[i] /\ i \in DOMAIN (s \o t)
    BY <1>1, <2>1
  <2> QED
    BY <2>2 DEF Range
<1>4. ASSUME NEW i \in 1..Len(t) PROVE t[i] \in Range(s \o t)
  <2>1. i + Len(s) \in 1..Len(s) + Len(t) /\ ~(i + Len(s) <= Len(s)) /\ i + Len(s) - Len(s) = i
    BY <1>1
  <2>2. (s \o t)[i + Len(s)] = t[i] /\ i + Len(s) \in DOMAIN (s \o t)
    BY <1>1, <2>1
  <2> QED
    BY <2>2 DEF Range
<1> QED
  BY <1>1, <1>2, <1>3, <1>4 DEF Range

\* At first, all that the reader may see has to be given to it.
LEMMA RecordsStart == RecordsInit => RecordsInv
<1> SUFFICES ASSUME RecordsInit PROVE RecordsInv
  OBVIOUS
<1>1. PICK ranks \in [Ids -> Ranks], there \in SUBSET Ids :
        database = [i \in Ids |->
          IF i \in there THEN [id |-> i, rank |-> ranks[i], owner |-> Reader, born |-> 0]
          ELSE Absent]
  BY DEF RecordsInit
<1>2. /\ asked = [w \in Writers |-> NoCall] /\ current = [w \in Writers |-> Absent]
      /\ writes = 0 /\ trespassed = {}
      /\ walk = "forward" /\ cursor = Absent
      /\ seen = [d \in Directions |-> <<>>]
      /\ stayed = [d \in Directions |-> IF d = "forward" THEN {r.id : r \in Visible} ELSE {}]
  BY DEF RecordsInit
<1>3. ASSUME NEW i \in Ids
      PROVE  \/ database[i] = Absent
             \/ /\ database[i] \in Record /\ database[i].id = i
                /\ database[i].born = 0 /\ database[i].owner = Reader
  <2>1. 0 \in 0..MaxWrites /\ Reader \in Owners
    BY RecordsAssumption
  <2> QED
    BY <1>1, <2>1 DEF Record
<1>4. database \in [Ids -> Record \cup {Absent}]
  BY <1>1, <1>3
<1>5. \A r \in Visible : r.id \in Ids /\ database[r.id] = r /\ r # Absent /\ r.owner = Reader
  BY <1>3 DEF Visible
<1>6. RecordsTypeOK
  <2>1. stayed \in [Directions -> SUBSET Ids]
    BY <1>2, <1>5
  <2>2. seen \in [Directions -> Seq(Record)]
    <3>1. <<>> \in Seq(Record)
      OBVIOUS
    <3> HIDE DEF Record
    <3> QED
      BY <1>2, <3>1
  <2>3. writes \in 0..MaxWrites
    BY <1>2, RecordsAssumption
  <2>4. asked \in [Writers -> Requested \cup {NoCall}] /\ current \in [Writers -> Record \cup {Absent}]
    BY <1>2
  <2> QED
    BY <1>2, <1>3, <1>4, <2>1, <2>2, <2>3, <2>4 DEF RecordsTypeOK, Directions
<1>7. BirthsTell
  BY <1>2, <1>3 DEF BirthsTell, NoCall
<1>8. HalfWay
  <2>1. \A i \in stayed["forward"] : Stands(i)
    BY <1>2, <1>5 DEF Stands, Directions
  <2> QED
    BY <1>2, <2>1 DEF HalfWay, Directions
<1>9. WalkIsComplete
  <2>1. \A d \in Directions : InOrder(seen[d])
    BY <1>2 DEF InOrder
  <2> QED
    BY <1>2, <2>1 DEF WalkIsComplete
<1> QED
  BY <1>6, <1>7, <1>8, <1>9 DEF RecordsInv


\* A page forward continues the pages before it; the last one turns the reader round.
LEMMA WalksOnKeeps ==
  ASSUME RecordsInv, WalksOn PROVE RecordsInv'
<1> DEFINE items == Items("forward", cursor)
<1>1. /\ walk = "forward" /\ seen' = [seen EXCEPT !["forward"] = @ \o items]
      /\ UNCHANGED <<database, asked, current, writes, trespassed>>
  BY DEF WalksOn
<1>2. /\ cursor \in Record \cup {Absent} /\ Absent \notin Record
      /\ seen \in [Directions -> Seq(Record)] /\ stayed \in [Directions -> SUBSET Ids]
      /\ "forward" \in Directions /\ "backward" \in Directions
      /\ database \in [Ids -> Record \cup {Absent}]
      /\ RecordsTypeOK /\ BirthsTell
  BY RecordsAssumption DEF RecordsInv, RecordsTypeOK, Directions, Record
<1>3. /\ items \in Seq(Record) /\ InOrder(items)
      /\ \A n \in 1..Len(items) : items[n] \in Beyond("forward", cursor)
      /\ HasMore("forward", cursor) => items # <<>>
      /\ \A r \in Beyond("forward", cursor) :
           \/ \E n \in 1..Len(items) : items[n] = r
           \/ HasMore("forward", cursor) /\ Before(Last(items), r)
  BY <1>2, ItemsFacts
<1> DEFINE before == seen["forward"]
<1>4. /\ before \in Seq(Record) /\ InOrder(before) /\ seen["backward"] = <<>>
      /\ (before = <<>> => cursor = Absent) /\ (before # <<>> => cursor = Last(before))
      /\ \A i \in stayed["forward"] :
           Stands(i) /\ (i \in Given("forward") \/ cursor = Absent \/ Before(cursor, database[i]))
  BY <1>1, <1>2 DEF RecordsInv, HalfWay, WalkIsComplete
<1>5. /\ seen'["forward"] = before \o items /\ seen'["backward"] = <<>>
      /\ seen' \in [Directions -> Seq(Record)]
  <2>1. before \o items \in Seq(Record)
    BY <1>3, <1>4, ConcatProperties
  <2> HIDE DEF items
  <2>2. seen' = [seen EXCEPT !["forward"] = before \o items]
    BY <1>1, <1>2
  <2> HIDE DEF before, Record
  <2> QED
    BY <1>2, <1>4, <2>1, <2>2
<1> HIDE DEF items
<1>6. items # <<>> => Head(items) = items[1] /\ Last(items) = items[Len(items)]
                      /\ 1 \in 1..Len(items) /\ Len(items) \in 1..Len(items)
                      /\ Head(items) \in Record /\ Last(items) \in Record
  <2>1. items # <<>> => Len(items) \in Nat \ {0}
    BY <1>3, EmptySeq
  <2> QED
    BY <1>3, <2>1, ElementOfSeq DEF Last
<1>7. InOrder(before \o items)
  <2>1. ASSUME before # <<>>, items # <<>> PROVE Before(Last(before), Head(items))
    <3>1. items[1] \in Beyond("forward", cursor) /\ cursor = Last(before) /\ cursor # Absent
      <4>1. Last(before) \in Record
        <5>1. Len(before) \in Nat \ {0}
          BY <1>4, <2>1, EmptySeq
        <5> QED
          BY <1>4, <5>1, ElementOfSeq DEF Last
      <4> QED
        BY <1>2, <1>3, <1>4, <1>6, <2>1, <4>1
    <3> QED
      BY <1>6, <2>1, <3>1 DEF Beyond
  <2> HIDE DEF before
  <2> QED
    BY <1>3, <1>4, <2>1, InOrderJoined
<1>8. Range(before \o items) = Range(before) \cup Range(items)
  BY <1>3, <1>4, GivenGrows
<1>9. ASSUME NEW i \in stayed["forward"]
      PROVE  \/ i \in Given("forward")'
             \/ HasMore("forward", cursor) /\ Before(Last(items), database[i])
  <2>1. /\ Stands(i) /\ i \in Ids /\ database[i].id = i
        /\ i \in Given("forward") \/ cursor = Absent \/ Before(cursor, database[i])
    BY <1>2, <1>4 DEF Stands, RecordsTypeOK
  <2>2. CASE i \in Given("forward")
    BY <1>5, <1>8, <2>2 DEF Given
  <2>3. CASE cursor = Absent \/ Before(cursor, database[i])
    <3>1. database[i] \in Beyond("forward", cursor)
      BY <2>1, <2>3 DEF Beyond, Visible, Stands
    <3>2. CASE \E n \in 1..Len(items) : items[n] = database[i]
      <4>1. DOMAIN items = 1..Len(items)
        BY <1>3, LenProperties
      <4>2. database[i] \in Range(items)
        BY <3>2, <4>1 DEF Range
      <4> QED
        BY <1>5, <1>8, <2>1, <4>2 DEF Given
    <3> QED
      BY <1>3, <3>1, <3>2
  <2> QED
    BY <2>1, <2>2, <2>3
<1>10. \A d \in Directions : InOrder(seen'[d])
  <2>1. InOrder(<<>>)
    BY DEF InOrder
  <2> QED
    BY <1>5, <1>7, <2>1 DEF Directions
<1>11. BirthsTell'
  BY <1>1, <1>2 DEF BirthsTell
<1>12. CASE NextCursor("forward", cursor) # Absent
  <2>1. cursor' = NextCursor("forward", cursor) /\ UNCHANGED <<walk, stayed>>
    BY <1>12 DEF WalksOn
  <2>2. items # <<>> /\ cursor' = Last(items)
    BY <1>12, <2>1 DEF NextCursor, items
  <2>3. RecordsTypeOK'
    BY <1>1, <1>2, <1>5, <1>6, <2>1, <2>2 DEF RecordsTypeOK
  <2>4. HalfWay'
    <3>1. seen'["forward"] # <<>> /\ Last(seen'["forward"]) = Last(items)
      <4>1. /\ Len(before \o items) = Len(before) + Len(items) /\ Len(before) \in Nat
            /\ Len(items) \in Nat \ {0}
            /\ \A i \in 1..Len(before) + Len(items) :
                 (before \o items)[i] = IF i <= Len(before) THEN before[i] ELSE items[i - Len(before)]
        BY <1>3, <1>4, <2>2, ConcatProperties, LenProperties, EmptySeq
      <4> DEFINE n == Len(before) + Len(items)
      <4>2. n \in 1..n /\ ~(n <= Len(before)) /\ n - Len(before) = Len(items) /\ n # 0
        BY <4>1
      <4>3. (before \o items)[n] = items[Len(items)] /\ Len(before \o items) = n
        BY <4>1, <4>2
      <4>4. before \o items # <<>>
        BY <4>2, <4>3
      <4> HIDE DEF n, before
      <4> QED
        BY <1>5, <4>3, <4>4 DEF Last
    <3>2. \A i \in stayed["forward"] :
            Stands(i)' /\ (i \in Given("forward")' \/ Before(cursor', database'[i]))
      BY <1>1, <1>4, <1>9, <2>2 DEF Stands
    <3> QED
      BY <1>1, <1>5, <2>1, <2>2, <3>1, <3>2 DEF HalfWay
  <2>5. WalkIsComplete'
    BY <1>1, <1>10, <2>1 DEF WalkIsComplete
  <2> QED
    BY <1>11, <2>3, <2>4, <2>5 DEF RecordsInv
<1>13. CASE NextCursor("forward", cursor) = Absent
  <2>1. /\ cursor' = PreviousCursor("forward", cursor)
        /\ walk' = IF cursor' = Absent THEN "done" ELSE "backward"
        /\ stayed' = [stayed EXCEPT !["backward"] =
             IF cursor' = Absent THEN {} ELSE {r.id : r \in {v \in Visible : Before(v, cursor')}}]
    BY <1>13 DEF WalksOn
  <2>2. ~HasMore("forward", cursor)
    BY <1>2, <1>3, <1>6, <1>13 DEF NextCursor, items
  <2>3. cursor' = Absent \/ (items # <<>> /\ cursor' = Head(items))
    BY <2>1 DEF PreviousCursor, items
  <2>4. /\ cursor' \in Record \cup {Absent} /\ walk' \in {"backward", "done"}
        /\ walk' = "backward" <=> cursor' # Absent
    BY <1>6, <2>1, <2>3
  <2>5. \A r \in Visible : r.id \in Ids /\ database[r.id] = r /\ r # Absent /\ r.owner = Reader
    BY <1>2 DEF Visible, RecordsTypeOK
  <2>6. /\ stayed'["forward"] = stayed["forward"] /\ stayed' \in [Directions -> SUBSET Ids]
        /\ cursor' = Absent => stayed'["backward"] = {}
        /\ \A i \in stayed'["backward"] : Stands(i) /\ Before(database[i], cursor')
    BY <1>2, <2>1, <2>5 DEF Stands
  <2>7. RecordsTypeOK'
    BY <1>1, <1>2, <1>5, <2>4, <2>6 DEF RecordsTypeOK
  <2>8. HalfWay'
    BY <1>1, <1>5, <2>4, <2>6 DEF HalfWay, Stands
  <2>9. stayed'["forward"] \subseteq Given("forward")'
    BY <1>9, <2>2, <2>6
  <2>10. WalkIsComplete'
    BY <1>10, <2>4, <2>6, <2>9 DEF WalkIsComplete, Given
  <2> QED
    BY <1>11, <2>7, <2>8, <2>10 DEF RecordsInv
<1> QED
  BY <1>12, <1>13

\* A page backward leads up to the pages after it.
LEMMA WalksBackKeeps ==
  ASSUME RecordsInv, WalksBack PROVE RecordsInv'
<1> DEFINE items == Items("backward", cursor)
           after == seen["backward"]
<1>1. /\ walk = "backward" /\ seen' = [seen EXCEPT !["backward"] = items \o @]
      /\ cursor' = PreviousCursor("backward", cursor)
      /\ walk' = IF cursor' = Absent THEN "done" ELSE "backward"
      /\ UNCHANGED <<database, asked, current, writes, trespassed, stayed>>
  BY DEF WalksBack
<1>2. /\ cursor \in Record /\ Absent \notin Record
      /\ seen \in [Directions -> Seq(Record)] /\ stayed \in [Directions -> SUBSET Ids]
      /\ "forward" \in Directions /\ "backward" \in Directions
      /\ database \in [Ids -> Record \cup {Absent}]
      /\ RecordsTypeOK /\ BirthsTell
  BY <1>1, RecordsAssumption DEF RecordsInv, RecordsTypeOK, HalfWay, Directions, Record
<1>3. /\ items \in Seq(Record) /\ InOrder(items)
      /\ \A n \in 1..Len(items) : items[n] \in Beyond("backward", cursor)
      /\ HasMore("backward", cursor) => items # <<>>
      /\ \A r \in Beyond("backward", cursor) :
           \/ \E n \in 1..Len(items) : items[n] = r
           \/ HasMore("backward", cursor) /\ Before(r, Head(items))
  BY <1>2, ItemsFacts
<1>4. /\ after \in Seq(Record) /\ InOrder(after) /\ (after # <<>> => cursor = Head(after))
      /\ \A i \in stayed["backward"] :
           Stands(i) /\ (i \in Given("backward") \/ Before(database[i], cursor))
      /\ InOrder(seen["forward"]) /\ stayed["forward"] \subseteq Given("forward")
  BY <1>1, <1>2 DEF RecordsInv, HalfWay, WalkIsComplete, Given
<1>5. /\ seen'["backward"] = items \o after /\ seen'["forward"] = seen["forward"]
      /\ seen' \in [Directions -> Seq(Record)]
  <2>1. items \o after \in Seq(Record)
    BY <1>3, <1>4, ConcatProperties
  <2> HIDE DEF items
  <2>2. seen' = [seen EXCEPT !["backward"] = items \o after]
    BY <1>1, <1>2
  <2> HIDE DEF after, Record
  <2> QED
    BY <1>2, <2>1, <2>2
<1> HIDE DEF items
<1>6. items # <<>> => Head(items) = items[1] /\ Last(items) = items[Len(items)]
                      /\ 1 \in 1..Len(items) /\ Len(items) \in 1..Len(items)
                      /\ Head(items) \in Record /\ Last(items) \in Record
  <2>1. items # <<>> => Len(items) \in Nat \ {0}
    BY <1>3, EmptySeq
  <2> QED
    BY <1>3, <2>1, ElementOfSeq DEF Last
<1>7. InOrder(items \o after)
  <2>1. ASSUME after # <<>>, items # <<>> PROVE Before(Last(items), Head(after))
    <3>1. Last(items) \in Beyond("backward", cursor) /\ cursor = Head(after) /\ cursor # Absent
      BY <1>2, <1>3, <1>4, <1>6, <2>1
    <3> QED
      BY <3>1 DEF Beyond
  <2> HIDE DEF after
  <2> QED
    BY <1>3, <1>4, <2>1, InOrderJoined
<1>8. Range(items \o after) = Range(items) \cup Range(after)
  BY <1>3, <1>4, GivenGrows
<1>9. ASSUME NEW i \in stayed["backward"]
      PROVE  \/ i \in Given("backward")'
             \/ HasMore("backward", cursor) /\ Before(database[i], Head(items))
  <2>1. /\ Stands(i) /\ i \in Ids /\ database[i].id = i
        /\ i \in Given("backward") \/ Before(database[i], cursor)
    BY <1>2, <1>4 DEF Stands, RecordsTypeOK
  <2>2. CASE i \in Given("backward")
    BY <1>5, <1>8, <2>2 DEF Given
  <2>3. CASE Before(database[i], cursor)
    <3>1. database[i] \in Beyond("backward", cursor)
      BY <2>1, <2>3 DEF Beyond, Visible, Stands
    <3>2. CASE \E n \in 1..Len(items) : items[n] = database[i]
      <4>1. DOMAIN items = 1..Len(items)
        BY <1>3, LenProperties
      <4>2. database[i] \in Range(items)
        BY <3>2, <4>1 DEF Range
      <4> QED
        BY <1>5, <1>8, <2>1, <4>2 DEF Given
    <3> QED
      BY <1>3, <3>1, <3>2
  <2> QED
    BY <2>1, <2>2, <2>3
<1>10. \A d \in Directions : InOrder(seen'[d])
  BY <1>4, <1>5, <1>7 DEF Directions
<1>11. BirthsTell'
  BY <1>1, <1>2 DEF BirthsTell
<1>12. \/ HasMore("backward", cursor) /\ items # <<>> /\ cursor' = Head(items)
       \/ ~HasMore("backward", cursor) /\ cursor' = Absent
  BY <1>1, <1>3 DEF PreviousCursor, items
<1>13. /\ cursor' \in Record \cup {Absent} /\ walk' \in {"backward", "done"}
       /\ walk' = "backward" <=> cursor' # Absent
  BY <1>1, <1>6, <1>12
<1>14. RecordsTypeOK'
  BY <1>1, <1>2, <1>5, <1>13 DEF RecordsTypeOK
<1>15. HalfWay'
  <2> SUFFICES ASSUME walk' = "backward"
               PROVE  /\ seen'["backward"] # <<>> => cursor' = Head(seen'["backward"])
                      /\ \A i \in stayed["backward"] :
                           Stands(i)' /\ (i \in Given("backward")' \/ Before(database'[i], cursor'))
    BY <1>1, <1>13 DEF HalfWay
  <2>1. items # <<>> /\ cursor' = Head(items)
    BY <1>12, <1>13
  <2>2. Head(items \o after) = Head(items)
    <3>1. /\ Len(items \o after) = Len(items) + Len(after) /\ Len(after) \in Nat
          /\ Len(items) \in Nat \ {0} /\ items \o after \in Seq(Record)
          /\ \A i \in 1..Len(items) + Len(after) :
               (items \o after)[i] = IF i <= Len(items) THEN items[i] ELSE after[i - Len(items)]
      BY <1>3, <1>4, <2>1, ConcatProperties, LenProperties, EmptySeq
    <3>2. 1 \in 1..Len(items) + Len(after) /\ 1 <= Len(items)
      BY <3>1
    <3>3. (items \o after)[1] = items[1] /\ items \o after # <<>>
      BY <3>1, <3>2
    <3> HIDE DEF after
    <3>4. Head(items \o after) = (items \o after)[1]
      BY <3>1, <3>3
    <3> QED
      BY <1>6, <2>1, <3>3, <3>4
  <2>3. \A i \in stayed["backward"] : Stands(i)'
    BY <1>1, <1>4 DEF Stands
  <2> QED
    BY <1>1, <1>5, <1>9, <2>1, <2>2, <2>3
<1>16. WalkIsComplete'
  <2>1. walk' = "done" => stayed["backward"] \subseteq Given("backward")'
    BY <1>9, <1>12, <1>13, <1>2, <1>6
  <2>2. stayed["forward"] \subseteq Given("forward")'
    BY <1>4, <1>5 DEF Given
  <2> QED
    BY <1>1, <1>10, <2>1, <2>2 DEF WalkIsComplete, Given
<1> QED
  BY <1>11, <1>14, <1>15, <1>16 DEF RecordsInv


\* A writer may change where a record stands, or take it away; then it no longer stayed.
LEMMA StoresKeepWalk ==
  ASSUME RecordsInv, NEW i \in Ids, NEW record \in Record \cup {Absent},
         record # Absent => record.id = i, Stores(i, record), UNCHANGED <<walk, cursor, seen>>
  PROVE  /\ HalfWay' /\ WalkIsComplete'
         /\ database' = [database EXCEPT ![i] = record]
         /\ database' \in [Ids -> Record \cup {Absent}]
         /\ \A j \in Ids : database'[j] # Absent => database'[j].id = j
         /\ stayed' \in [Directions -> SUBSET Ids]
<1>1. /\ database \in [Ids -> Record \cup {Absent}] /\ stayed \in [Directions -> SUBSET Ids]
      /\ \A j \in Ids : database[j] # Absent => database[j].id = j
      /\ "forward" \in Directions /\ "backward" \in Directions
  BY DEF RecordsInv, RecordsTypeOK, Directions
<1>2. database' = [database EXCEPT ![i] = record]
  BY DEF Stores
<1>3. /\ database' \in [Ids -> Record \cup {Absent}]
      /\ \A j \in Ids : database'[j] # Absent => database'[j].id = j
  BY <1>1, <1>2
<1>4. stayed' \in [Directions -> SUBSET Ids]
  BY <1>1 DEF Stores
<1>5. ASSUME NEW d \in Directions, NEW j \in stayed'[d]
      PROVE  /\ j \in stayed[d] /\ j \in Ids
             /\ Stands(j) => /\ Stands(j)' /\ database'[j].id = database[j].id
                             /\ database'[j].rank = database[j].rank
  <2>1. CASE j = i
    <3>1. /\ stayed' = stayed /\ record # Absent /\ database[i] # Absent
          /\ record.rank = database[i].rank /\ record.owner = database[i].owner
      BY <1>1, <2>1, <1>5 DEF Stores
    <3> QED
      BY <1>1, <1>2, <1>5, <2>1, <3>1 DEF Stands
  <2>2. CASE j # i
    <3>1. j \in stayed[d] /\ j \in Ids
      BY <1>1, <1>5 DEF Stores
    <3>2. database'[j] = database[j]
      BY <1>1, <1>2, <2>2, <3>1
    <3> QED
      BY <3>1, <3>2 DEF Stands
  <2> QED
    BY <2>1, <2>2
<1>6. Given("forward")' = Given("forward") /\ Given("backward")' = Given("backward")
  BY DEF Given
<1>7. HalfWay'
  <2>1. walk = "forward" =>
          \A j \in stayed'["forward"] :
            Stands(j)' /\ (j \in Given("forward") \/ cursor = Absent \/ Before(cursor, database'[j]))
    BY <1>1, <1>5 DEF RecordsInv, HalfWay, Before
  <2>2. walk = "backward" =>
          \A j \in stayed'["backward"] :
            Stands(j)' /\ (j \in Given("backward") \/ Before(database'[j], cursor))
    BY <1>1, <1>5 DEF RecordsInv, HalfWay, Before
  <2> QED
    BY <1>6, <2>1, <2>2 DEF RecordsInv, HalfWay
<1>8. WalkIsComplete'
  BY <1>1, <1>5 DEF RecordsInv, WalkIsComplete
<1> QED
  BY <1>2, <1>3, <1>4, <1>7, <1>8

\* A writer that asks has read what is there now.
LEMMA AsksKeeps ==
  ASSUME RecordsInv, NEW w \in Writers, NEW c \in Requested, Asks(w, c) PROVE RecordsInv'
<1>1. /\ asked[w] = NoCall /\ writes < MaxWrites /\ writes' = writes + 1
      /\ asked' = [asked EXCEPT ![w] = c]
      /\ \/ c.op = "insert" /\ UNCHANGED current
         \/ /\ c.op # "insert" /\ Allowed(database[c.id], c.by)
            /\ current' = [current EXCEPT ![w] = database[c.id]]
      /\ UNCHANGED <<database, trespassed, walk, cursor, seen, stayed>>
  BY DEF Asks
<1>2. /\ database \in [Ids -> Record \cup {Absent}] /\ writes \in Nat /\ MaxWrites \in Nat
      /\ \A i \in Ids : database[i] # Absent => database[i].id = i /\ database[i].born \in Nat
      /\ asked \in [Writers -> Requested \cup {NoCall}]
      /\ current \in [Writers -> Record \cup {Absent}]
      /\ \A v \in Writers : current[v] # Absent => current[v].born \in Nat /\ current[v].id \in Ids
      /\ c.id \in Ids /\ c.op \in {"insert", "update", "delete"}
  BY RecordsAssumption DEF RecordsInv, RecordsTypeOK, Record, Requested
<1>3. /\ asked' \in [Writers -> Requested \cup {NoCall}]
      /\ current' \in [Writers -> Record \cup {Absent}]
      /\ writes' \in 0..MaxWrites
  BY <1>1, <1>2
<1>4. RecordsTypeOK'
  BY <1>1, <1>3 DEF RecordsInv, RecordsTypeOK
<1>5. HalfWay' /\ WalkIsComplete'
  BY <1>1 DEF RecordsInv, HalfWay, WalkIsComplete, Given, Stands
<1>6. \A i \in Ids : database[i] # Absent => database[i].born <= writes /\ database[i].born <= writes'
  BY <1>1, <1>2 DEF RecordsInv, BirthsTell
<1>7. ASSUME NEW v \in Writers, current'[v] # Absent
      PROVE  /\ current'[v].born < writes' /\ current'[v].id \in Ids
             /\ \/ current'[v] = current[v] /\ current[v] # Absent
                \/ v = w /\ current'[v] = database[c.id] /\ database[c.id] # Absent
  <2>1. CASE current'[v] = current[v]
    BY <1>1, <1>2, <1>7, <2>1 DEF RecordsInv, BirthsTell
  <2>2. CASE v = w /\ current'[v] = database[c.id]
    BY <1>1, <1>2, <1>6, <1>7, <2>2
  <2> QED
    BY <1>1, <1>2, <2>1, <2>2
<1>8. ASSUME NEW v \in Writers, current'[v] # Absent,
             database[current'[v].id] # Absent,
             database[current'[v].id].born = current'[v].born
      PROVE  database[current'[v].id].owner = current'[v].owner
  BY <1>2, <1>7, <1>8 DEF RecordsInv, BirthsTell
<1>9. ASSUME NEW v \in Writers, NEW u \in Writers, current'[v] # Absent, current'[u] # Absent,
             current'[u].id = current'[v].id, current'[u].born = current'[v].born
      PROVE  current'[u].owner = current'[v].owner
  BY <1>2, <1>7, <1>9 DEF RecordsInv, BirthsTell
<1>10. ASSUME NEW v \in Writers, asked'[v].op \in {"update", "delete"}
       PROVE  /\ current'[v] # Absent /\ current'[v].id = asked'[v].id
              /\ current'[v].owner = asked'[v].by
  <2>1. CASE v = w
    <3>1. asked'[v] = c /\ c.op # "insert" /\ Allowed(database[c.id], c.by)
          /\ current'[v] = database[c.id]
      BY <1>1, <1>2, <1>10, <2>1
    <3> QED
      BY <1>2, <3>1 DEF Allowed
  <2>2. CASE v # w
    <3>1. asked'[v] = asked[v] /\ current'[v] = current[v]
      BY <1>1, <1>2, <2>2
    <3> QED
      BY <1>10, <3>1 DEF RecordsInv, BirthsTell
  <2> QED
    BY <2>1, <2>2
<1>11. BirthsTell'
  BY <1>1, <1>6, <1>7, <1>8, <1>9, <1>10 DEF RecordsInv, BirthsTell
<1> QED
  BY <1>4, <1>5, <1>11 DEF RecordsInv

\* A call that stores a record of the birth it read, or one born now, or none, and ends.
LEMMA StoresKeepBirths ==
  ASSUME RecordsInv, NEW w \in Writers, NEW i \in Ids, NEW record \in Record \cup {Absent},
         record # Absent => record.id = i, Stores(i, record), Answered(w), UNCHANGED trespassed,
         \/ record = Absent
         \/ record.born = writes
         \/ /\ current[w] # Absent /\ current[w].id = i /\ record.born = current[w].born
            /\ record.owner = current[w].owner
  PROVE  RecordsInv'
<1>1. /\ asked' = [asked EXCEPT ![w] = NoCall] /\ current' = [current EXCEPT ![w] = Absent]
      /\ UNCHANGED <<writes, walk, cursor, seen>>
  BY DEF Answered
<1>2. /\ HalfWay' /\ WalkIsComplete'
      /\ database' = [database EXCEPT ![i] = record]
      /\ database' \in [Ids -> Record \cup {Absent}]
      /\ \A j \in Ids : database'[j] # Absent => database'[j].id = j
      /\ stayed' \in [Directions -> SUBSET Ids]
  BY <1>1, StoresKeepWalk
<1>3. /\ database \in [Ids -> Record \cup {Absent}] /\ writes \in Nat
      /\ asked \in [Writers -> Requested \cup {NoCall}]
      /\ current \in [Writers -> Record \cup {Absent}]
      /\ \A v \in Writers : current[v] # Absent => current[v].born \in Nat /\ current[v].id \in Ids
      /\ BirthsTell
  BY RecordsAssumption DEF RecordsInv, RecordsTypeOK, Record
<1>4. RecordsTypeOK'
  BY <1>1, <1>2, <1>3 DEF RecordsInv, RecordsTypeOK
<1>5. /\ \A v \in Writers : v # w => current'[v] = current[v] /\ asked'[v] = asked[v]
      /\ current'[w] = Absent /\ asked'[w] = NoCall
      /\ \A j \in Ids : j # i => database'[j] = database[j]
      /\ database'[i] = record
  BY <1>1, <1>2, <1>3
<1>6. \A j \in Ids : database'[j] # Absent => database'[j].born <= writes
  BY <1>3, <1>5 DEF BirthsTell
<1>7. ASSUME NEW v \in Writers, current'[v] # Absent,
             database'[current'[v].id] # Absent,
             database'[current'[v].id].born = current'[v].born
      PROVE  database'[current'[v].id].owner = current'[v].owner
  <2>1. v # w /\ current'[v] = current[v] /\ current[v].id \in Ids /\ current[v].born < writes
    BY <1>3, <1>5, <1>7 DEF BirthsTell
  <2>2. CASE current[v].id # i
    BY <1>3, <1>5, <1>7, <2>1, <2>2 DEF BirthsTell
  <2>3. CASE current[v].id = i
    <3>1. record # Absent /\ record.born = current[v].born /\ record.born # writes
      BY <1>3, <1>5, <1>7, <2>1, <2>3
    <3>2. current[w] # Absent /\ current[w].id = i /\ current[w].born = current[v].born
          /\ record.owner = current[w].owner
      BY <3>1
    <3>3. current[w].owner = current[v].owner
      BY <1>3, <1>7, <2>1, <2>3, <3>2 DEF BirthsTell
    <3> QED
      BY <1>5, <2>1, <2>3, <3>2, <3>3
  <2> QED
    BY <2>2, <2>3
<1>8. \A v \in Writers : asked'[v].op \in {"update", "delete"} =>
        v # w /\ asked'[v] = asked[v] /\ current'[v] = current[v]
  BY <1>5 DEF NoCall
<1>9. BirthsTell'
  <2>1. \A v \in Writers : current'[v] # Absent =>
          /\ current'[v].born < writes'
          /\ \A u \in Writers :
               current'[u] # Absent /\ current'[u].id = current'[v].id /\ current'[u].born = current'[v].born
                 => current'[u].owner = current'[v].owner
    BY <1>1, <1>3, <1>5 DEF BirthsTell
  <2>2. \A v \in Writers : asked'[v].op \in {"update", "delete"} =>
          /\ current'[v] # Absent /\ current'[v].id = asked'[v].id
          /\ current'[v].owner = asked'[v].by
    BY <1>3, <1>8 DEF BirthsTell
  <2> QED
    BY <1>1, <1>3, <1>6, <1>7, <2>1, <2>2 DEF BirthsTell
<1> QED
  BY <1>2, <1>4, <1>9 DEF RecordsInv

\* A call that stores nothing ends.
LEMMA AnsweredKeeps ==
  ASSUME RecordsInv, NEW w \in Writers, Answered(w), UNCHANGED <<database, stayed, trespassed>>
  PROVE  RecordsInv'
<1>1. /\ asked' = [asked EXCEPT ![w] = NoCall] /\ current' = [current EXCEPT ![w] = Absent]
      /\ UNCHANGED <<writes, walk, cursor, seen>>
  BY DEF Answered
<1>2. /\ asked \in [Writers -> Requested \cup {NoCall}]
      /\ current \in [Writers -> Record \cup {Absent}]
  BY DEF RecordsInv, RecordsTypeOK
<1>3. /\ \A v \in Writers : v # w => current'[v] = current[v] /\ asked'[v] = asked[v]
      /\ current'[w] = Absent /\ asked'[w] = NoCall
  BY <1>1, <1>2
<1>4. RecordsTypeOK'
  BY <1>1, <1>2 DEF RecordsInv, RecordsTypeOK
<1>5. HalfWay' /\ WalkIsComplete'
  BY <1>1 DEF RecordsInv, HalfWay, WalkIsComplete, Given, Stands
<1>6. BirthsTell'
  BY <1>1, <1>3 DEF RecordsInv, BirthsTell, NoCall
<1> QED
  BY <1>4, <1>5, <1>6 DEF RecordsInv

\* Writes after the authorization.
LEMMA WritesKeep ==
  ASSUME RecordsInv, NEW w \in Writers, Inserts(w) \/ Updates(w) \/ Deletes(w)
  PROVE  RecordsInv'
<1> DEFINE c == asked[w]
<1>1. c \in Requested \cup {NoCall} /\ NoCall.op = "none" /\ writes \in 0..MaxWrites
      /\ current[w] \in Record \cup {Absent}
  BY DEF RecordsInv, RecordsTypeOK, NoCall
<1>2. c.op # "none" => c \in Requested /\ c.id \in Ids /\ c.rank \in Ranks /\ c.by \in Owners
  BY <1>1 DEF Requested
<1>3. ASSUME c.op \in {"update", "delete"}
      PROVE  /\ current[w] # Absent /\ current[w] \in Record /\ current[w].id = c.id
             /\ current[w].owner = c.by
             /\ database[c.id] # Absent /\ Trespasses(w, c.id) => UNCHANGED trespassed
  <2>1. /\ current[w] # Absent /\ current[w].id = c.id /\ current[w].owner = c.by
        /\ database[c.id] # Absent /\ database[c.id].born = current[w].born
             => database[c.id].owner = current[w].owner
    BY <1>3 DEF RecordsInv, BirthsTell
  <2> QED
    BY <1>1, <2>1 DEF Trespasses
<1>4. CASE Inserts(w)
  <2>1. c.op = "insert" /\ Answered(w) /\ UNCHANGED trespassed
    BY <1>4 DEF Inserts
  <2>2. CASE database[c.id] = Absent
    <3> DEFINE new == [id |-> c.id, rank |-> c.rank, owner |-> c.by, born |-> writes]
    <3>1. Stores(c.id, new)
      BY <1>4, <2>2 DEF Inserts
    <3>2. new \in Record /\ new.id = c.id /\ new.born = writes /\ c.id \in Ids
      BY <1>1, <1>2, <2>1 DEF Record
    <3> HIDE DEF new, c
    <3> QED
      BY <2>1, <3>1, <3>2, StoresKeepBirths
  <2>3. CASE database[c.id] # Absent
    <3>1. UNCHANGED <<database, stayed>>
      BY <1>4, <2>3 DEF Inserts
    <3> QED
      BY <2>1, <3>1, AnsweredKeeps
  <2> QED
    BY <2>2, <2>3
<1>5. CASE Updates(w)
  <2>1. c.op = "update" /\ Answered(w)
    BY <1>5 DEF Updates
  <2>2. CASE database[c.id] # Absent
    <3> DEFINE new == [current[w] EXCEPT !.rank = c.rank]
    <3>1. Stores(c.id, new) /\ UNCHANGED trespassed
      BY <1>3, <1>5, <2>1, <2>2 DEF Updates
    <3>2. /\ new \in Record /\ new.id = current[w].id
          /\ new.born = current[w].born /\ new.owner = current[w].owner
      BY <1>2, <1>3, <2>1 DEF Record
    <3>3. current[w] # Absent /\ current[w].id = c.id /\ c.id \in Ids
      BY <1>2, <1>3, <2>1
    <3> HIDE DEF new, c
    <3> QED
      BY <2>1, <3>1, <3>2, <3>3, StoresKeepBirths
  <2>3. CASE database[c.id] = Absent
    <3>1. UNCHANGED <<database, stayed, trespassed>>
      BY <1>5, <2>3 DEF Updates
    <3> QED
      BY <2>1, <3>1, AnsweredKeeps
  <2> QED
    BY <2>2, <2>3
<1>6. CASE Deletes(w)
  <2>1. c.op = "delete" /\ Answered(w)
    BY <1>6 DEF Deletes
  <2>2. CASE database[c.id] # Absent
    <3>1. Stores(c.id, Absent) /\ UNCHANGED trespassed /\ c.id \in Ids
      BY <1>2, <1>3, <1>6, <2>1, <2>2 DEF Deletes
    <3> HIDE DEF c
    <3> QED
      BY <2>1, <3>1, StoresKeepBirths
  <2>3. CASE database[c.id] = Absent
    <3>1. UNCHANGED <<database, stayed, trespassed>>
      BY <1>6, <2>3 DEF Deletes
    <3> QED
      BY <2>1, <3>1, AnsweredKeeps
  <2> QED
    BY <2>2, <2>3
<1> QED
  BY <1>4, <1>5, <1>6

\* The strengthening, in every state.
LEMMA RecordsInductive == RecordsSpec => []RecordsInv
<1>1. RecordsInit => RecordsInv
  BY RecordsStart
<1>2. RecordsInv /\ [RecordsNext]_recordVars => RecordsInv'
  <2> SUFFICES ASSUME RecordsInv, [RecordsNext]_recordVars PROVE RecordsInv'
    OBVIOUS
  <2>1. CASE UNCHANGED recordVars
    BY <2>1 DEF recordVars, RecordsInv, RecordsTypeOK, BirthsTell, HalfWay, WalkIsComplete,
                Given, Stands
  <2> QED
    BY <2>1, WalksOnKeeps, WalksBackKeeps, AsksKeeps, WritesKeep DEF RecordsNext
<1> QED
  BY <1>1, <1>2, PTL DEF RecordsSpec

\* Keys, sort values and owners of backend/records.mjs keep to their types, and a record
\* is stored under its own id.
THEOREM RecordsTypeCorrect == RecordsSpec => []RecordsTypeOK
<1>1. RecordsInv => RecordsTypeOK
  BY DEF RecordsInv
<1> QED
  BY <1>1, RecordsInductive, PTL

\* Whoever follows the cursors of list() of backend/records.mjs is given all that stayed
\* in its place meanwhile, in order, and only its owner changes or deletes a record, but
\* for one that came under its id after the authorization.
THEOREM WalksAreComplete == RecordsSpec => []RecordsHold
<1>1. RecordsInv => RecordsHold
  BY DEF RecordsInv, BirthsTell, RecordsHold, RecordsStayOwned
<1> QED
  BY <1>1, RecordsInductive, PTL
-----------------------------------------------------------------------------
(* All parts of the backend. *)

\* In a run of all parts each part does what it does by itself.
THEOREM PartsAreRun == BackendSpec => UploadsSpec /\ Spec /\ RecordsSpec /\ AccessSpec
<1>1. BackendInit => UploadsInit /\ Init /\ RecordsInit /\ AccessInit
  BY DEF BackendInit
<1>2. ASSUME [BackendNext]_<<part, uploadVars, vars, recordVars, accessVars>>
      PROVE  /\ [UploadsNext]_uploadVars /\ [Next]_vars
             /\ [RecordsNext]_recordVars /\ [AccessNext]_accessVars
  BY <1>2 DEF BackendNext, AccessNext
<1> QED
  BY <1>1, <1>2, PTL DEF BackendSpec, UploadsSpec, Spec, RecordsSpec, AccessSpec

\* All parts of the backend keep to their types.
THEOREM BackendTypeCorrect == BackendSpec => []BackendTypeOK
<1>1. UploadsTypeOK /\ TypeOK /\ RecordsTypeOK /\ AccessTypeOK => BackendTypeOK
  BY DEF BackendTypeOK
<1> QED
  BY <1>1, PartsAreRun, UploadsTypeCorrect, RuntimeTypeCorrect, RecordsTypeCorrect,
     AccessTypeCorrect, PTL

\* backend/records.mjs, backend/session.mjs and backend/content.mjs: pages pass over
\* nothing that stayed, only owners write, and tables at their limit lose no more than
\* they have to.
THEOREM EntriesAreKept == BackendSpec => []EntriesHold
<1>1. RecordsHold /\ AccessHolds => EntriesHold
  BY DEF EntriesHold
<1> QED
  BY <1>1, PartsAreRun, WalksAreComplete, AccessHeld, PTL
=============================================================================
