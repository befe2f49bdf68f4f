--------------------------- MODULE OutputPromise ---------------------------
(***************************************************************************)
(* What withGeneratedOutput (project/output-transaction.mjs) promises of   *)
(* an output directory: a build that fails or dies leaves the last         *)
(* successful output, in place or recoverable; a build that ends well puts *)
(* its own in its stead, and nothing else ever takes it away but somebody  *)
(* who works on the directory without the lock.                            *)
(***************************************************************************)
EXTENDS Naturals

CONSTANTS
  Builds,    \* the numbers builds can have
  NoOutput   \* there is no output

VARIABLES
  copy,      \* the output, or what is kept of it
  complete,  \* builds that wrote a whole candidate
  meddled    \* how often somebody changed the directory without the lock

promiseVars == <<copy, complete, meddled>>

PromiseInit == copy = NoOutput /\ complete = {} /\ meddled = 0

Complete(n) == complete' = complete \cup {n} /\ UNCHANGED <<copy, meddled>>

\* builds take turns: a later one never gives way to an earlier one
Publish(n) ==
  /\ n \in complete
  /\ copy \in Builds => n > copy
  /\ copy' = n
  /\ UNCHANGED <<complete, meddled>>

Meddle == meddled' = meddled + 1 /\ UNCHANGED complete

PromiseNext == Meddle \/ \E n \in Builds : Complete(n) \/ Publish(n)

PromiseSpec == PromiseInit /\ [][PromiseNext]_promiseVars
=============================================================================
