---------------------------- MODULE UploadPromise ----------------------------
(***************************************************************************)
(* What the upload store promises of a local upload (backend/uploads.mjs): *)
(* an image that arrived is published by at most one commit, stays until   *)
(* its owner deletes it, and until it is published it may be dropped.      *)
(* ContentUploads implements this; BackendMutations builds upon it.        *)
(***************************************************************************)
CONSTANTS
  Uploads,      \* uploads, each with a handle of its own
  Committers,   \* calls of commit
  None          \* not an upload

ASSUME PromiseAssumption == None \notin Uploads

VARIABLES
  object,    \* what became of the image of each upload
  outcome,   \* what became of each call
  target     \* the upload each call commits

promiseVars == <<object, outcome, target>>

PromiseTypeOK ==
  /\ object \in [Uploads -> {"none", "uploaded", "dropped", "published", "deleted"}]
  /\ outcome \in [Committers -> {"idle", "running", "publishing", "published", "failed"}]
  /\ target \in [Committers -> Uploads \cup {None}]

PromiseInit ==
  /\ object = [u \in Uploads |-> "none"]
  /\ outcome = [c \in Committers |-> "idle"]
  /\ target = [c \in Committers |-> None]

Become(u, from, to) ==
  /\ object[u] = from
  /\ object' = [object EXCEPT ![u] = to]
  /\ UNCHANGED <<outcome, target>>

Arrive(u) == Become(u, "none", "uploaded")
Drop(u) == Become(u, "uploaded", "dropped")

Ask(c, u) ==
  /\ outcome[c] = "idle"
  /\ outcome' = [outcome EXCEPT ![c] = "running"]
  /\ target' = [target EXCEPT ![c] = u]
  /\ UNCHANGED object

Refuse(c) ==
  /\ outcome[c] \in {"running", "publishing"}
  /\ outcome' = [outcome EXCEPT ![c] = "failed"]
  /\ UNCHANGED <<object, target>>

\* refused before the store looked at it
AskInVain(c, u) ==
  /\ outcome[c] = "idle"
  /\ outcome' = [outcome EXCEPT ![c] = "failed"]
  /\ target' = [target EXCEPT ![c] = u]
  /\ UNCHANGED object

\* Faulty: an image that was published is published again.
PublishableAgain(u) == object[u] \in {"uploaded", "published"}

Publishable(u) == object[u] = "uploaded"

Publish(c) ==
  /\ outcome[c] = "running"
  /\ Publishable(target[c])
  /\ object' = [object EXCEPT ![target[c]] = "published"]
  /\ outcome' = [outcome EXCEPT ![c] = "publishing"]
  /\ UNCHANGED target

Tell(c) ==
  /\ outcome[c] = "publishing"
  /\ outcome' = [outcome EXCEPT ![c] = "published"]
  /\ UNCHANGED <<object, target>>

Delete(u) ==
  /\ \E c \in Committers : outcome[c] = "published" /\ target[c] = u
  /\ Become(u, "published", "deleted")

Commits(c) == Refuse(c) \/ Publish(c) \/ Tell(c)

PromiseNext ==
  \/ \E u \in Uploads : Arrive(u) \/ Drop(u) \/ Delete(u)
  \/ \E c \in Committers :
       Commits(c) \/ \E u \in Uploads : Ask(c, u) \/ AskInVain(c, u)

PromiseSpec == PromiseInit /\ [][PromiseNext]_promiseVars
-----------------------------------------------------------------------------
(* Properties. *)

\* A call is told success only of an image that is stored, or that its owner
\* deleted since; and no two calls published one image.
PublishedStays ==
  \A c \in Committers : outcome[c] \in {"publishing", "published"} =>
    /\ target[c] \in Uploads /\ object[target[c]] \in {"published", "deleted"}
    /\ \A d \in Committers \ {c} :
         target[d] = target[c] => outcome[d] \notin {"publishing", "published"}
=============================================================================
