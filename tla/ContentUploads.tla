---------------------------- MODULE ContentUploads ----------------------------
(***************************************************************************)
(* The content upload store (backend/uploads.mjs): intents are created,    *)
(* receive an image, and are committed to a stored object.  The methods    *)
(* are asynchronous: each await is a point where other methods run, and    *)
(* every method first prunes the table, awaiting the removals it asked for.*)
(*                                                                         *)
(* Provider "local" writes a pending file and links it to its final name   *)
(* on commit; provider "supabase" uploads the final object at once, and    *)
(* commit only inspects it.                                                *)
(***************************************************************************)
EXTENDS Integers, FiniteSets

CONSTANTS
  LocalHandles,    \* upload handles of provider "local"
  RemoteHandles,   \* upload handles of provider "supabase"
  CommitCalls,      \* calls of commit that are ever made
  NoHandle,            \* not a handle
  MaxIntents,      \* maximumIntents
  MaxConcurrent,   \* maximumConcurrentUploads
  IntentTtl,       \* life of an intent
  MaxClock          \* bound on the clock

Handles == LocalHandles \cup RemoteHandles

ASSUME UploadsAssumption ==
  /\ LocalHandles \cap RemoteHandles = {} /\ Handles \cap CommitCalls = {}
  /\ NoHandle \notin Handles
  /\ MaxIntents \in Nat \ {0} /\ MaxConcurrent \in Nat \ {0}
  /\ IntentTtl \in Nat \ {0} /\ MaxClock \in Nat

VARIABLES
  clock,       \* now()
  table,     \* the keys of the map intents
  intent,    \* state, expiresAt and place in the insertion order of each intent
  files,     \* what is stored for each intent
  removing,  \* intents whose object removeIntentObject is removing
  create,    \* where createIntent is for each handle
  receive,   \* where receive is for each handle
  commit,    \* where each commit is, and its handle
  waits,     \* the removals that a prune awaits
  disposed,
  deleted    \* objects the owner deleted

uploadVars == <<clock, table, intent, files, removing, create, receive, commit, waits,
            disposed, deleted>>

\* activeUploads
Active == {h \in Handles : receive[h] \in {"opening", "writing", "failing"}}

States == {"none", "created", "uploading", "uploaded", "committed"}
IntentRow == [state: States, until: Nat, order: Nat]
ReceivePlaces == {"none", "pruning", "opening", "writing", "failing", "ended"}
CommitPlaces == {"idle", "pruning", "linking", "unlinking", "inspecting", "issuing",
                 "published", "failed"}
CommitRow == [at: CommitPlaces, handle: Handles \cup {NoHandle}]

UploadsTypeOK ==
  /\ clock \in Nat /\ disposed \in BOOLEAN /\ deleted \subseteq Handles
  /\ table \subseteq Handles /\ removing \subseteq Handles
  /\ intent \in [Handles -> IntentRow]
  /\ files \in [Handles -> SUBSET {"pending", "object"}]
  /\ create \in [Handles -> {"none", "pruning", "done", "failed"}]
  /\ receive \in [Handles -> ReceivePlaces]
  /\ commit \in [CommitCalls -> CommitRow]
  /\ waits \in [Handles \cup CommitCalls -> SUBSET Handles]
  /\ Cardinality(Active) <= MaxConcurrent

UploadsInit ==
  /\ clock = 0 /\ table = {} /\ disposed = FALSE /\ deleted = {}
  /\ intent = [h \in Handles |-> [state |-> "none", until |-> 0, order |-> 0]]
  /\ files = [h \in Handles |-> {}]
  /\ removing = {}
  /\ create = [h \in Handles |-> "none"]
  /\ receive = [h \in Handles |-> "none"]
  /\ commit = [c \in CommitCalls |-> [at |-> "idle", handle |-> NoHandle]]
  /\ waits = [p \in Handles \cup CommitCalls |-> {}]
-----------------------------------------------------------------------------
(* prune: expired intents go, then the oldest ones until there is room for *)
(* one more; an upload under way is spared.                                *)

Uploading(h) == intent[h].state = "uploading"
Expired(h) == intent[h].until <= clock

Overdue == {h \in table : Expired(h) /\ ~Uploading(h)}

Remaining == table \ Overdue
Evictable == {h \in Remaining : ~Uploading(h)}
Excess == Cardinality(Remaining) - MaxIntents + 1
Older(h) == {g \in Evictable : intent[g].order < intent[h].order}

Evicted == {h \in Evictable : Cardinality(Older(h)) < Excess}

NoRoom == Excess > Cardinality(Evictable)
Victims == Overdue \cup Evicted

\* the synchronous part of a prune that process p awaits
PruneFor(p) ==
  /\ table' = table \ Victims
  /\ removing' = removing \cup Victims
  /\ waits' = [waits EXCEPT ![p] = Victims]

PruneOver(p) == waits[p] \cap removing = {}

\* cleanup, or a call that fails right after its prune
Cleanup ==
  /\ Victims # {}
  /\ table' = table \ Victims
  /\ removing' = removing \cup Victims
  /\ UNCHANGED <<clock, intent, files, create, receive, commit, waits, disposed, deleted>>

StoredAs(h) == IF h \in LocalHandles THEN "pending" ELSE "object"

\* removeIntentObject came through; a provider's refusal is swallowed
Removed(h) ==
  /\ h \in removing
  /\ removing' = removing \ {h}
  /\ \/ files' = [files EXCEPT ![h] = @ \ {StoredAs(h)}]
     \/ h \in RemoteHandles /\ UNCHANGED files
  /\ UNCHANGED <<clock, table, intent, create, receive, commit, waits, disposed, deleted>>
-----------------------------------------------------------------------------
(* createIntent *)

CreateBegin(h) ==
  /\ create[h] = "none" /\ ~disposed
  /\ PruneFor(h)
  /\ create' = [create EXCEPT ![h] = IF NoRoom THEN "failed" ELSE "pruning"]
  /\ UNCHANGED <<clock, intent, files, receive, commit, disposed, deleted>>

\* intents are inserted once: their number is their place
Created == {h \in Handles : create[h] = "done"}

CreateEnd(h) ==
  /\ create[h] = "pruning" /\ PruneOver(h)
  /\ create' = [create EXCEPT ![h] = "done"]
  /\ table' = table \cup {h}
  /\ intent' = [intent EXCEPT ![h] = [state |-> "created", until |-> clock + IntentTtl,
                                      order |-> Cardinality(Created)]]
  /\ UNCHANGED <<clock, files, removing, receive, commit, waits, disposed, deleted>>
-----------------------------------------------------------------------------
(* receive; a second call for the same handle does no more than Cleanup *)

Owned(h) == h \in table /\ ~Expired(h)

ReceiveBegin(h) ==
  /\ create[h] = "done" /\ receive[h] = "none" /\ ~disposed
  /\ PruneFor(h)
  /\ receive' = [receive EXCEPT ![h] = IF NoRoom THEN "ended" ELSE "pruning"]
  /\ UNCHANGED <<clock, intent, files, create, commit, disposed, deleted>>

\* Faulty: the limit on concurrent uploads is not looked at.
ReceivableUnbounded(h) == Owned(h) /\ intent[h].state = "created"

Receivable(h) ==
  /\ Owned(h) /\ intent[h].state = "created"
  /\ Cardinality(Active) < MaxConcurrent

\* unavailable, cancelled, mismatched or over the limit
ReceiveRefused(h) ==
  /\ receive[h] = "pruning" /\ PruneOver(h)
  /\ receive' = [receive EXCEPT ![h] = "ended"]
  /\ UNCHANGED <<clock, table, intent, files, removing, create, commit, waits, disposed,
                 deleted>>

ReceiveAdmit(h) ==
  /\ receive[h] = "pruning" /\ PruneOver(h)
  /\ Receivable(h)
  /\ receive' = [receive EXCEPT ![h] = "opening"]
  /\ intent' = [intent EXCEPT ![h].state = "uploading"]
  /\ UNCHANGED <<clock, table, files, removing, create, commit, waits, disposed, deleted>>

\* the file or the remote object comes into being
ReceiveOpen(h) ==
  /\ receive[h] = "opening"
  /\ receive' = [receive EXCEPT ![h] = "writing"]
  /\ files' = [files EXCEPT ![h] = @ \cup {StoredAs(h)}]
  /\ UNCHANGED <<clock, table, intent, removing, create, commit, waits, disposed, deleted>>

\* local: the file is read back, so it has to be there
ReceiveDone(h) ==
  /\ receive[h] = "writing"
  /\ h \in LocalHandles => "pending" \in files[h]
  /\ receive' = [receive EXCEPT ![h] = "ended"]
  /\ intent' = [intent EXCEPT ![h].state = "uploaded"]
  /\ UNCHANGED <<clock, table, files, removing, create, commit, waits, disposed, deleted>>

\* Faulty: what was received before the failure is left.
DiscardedKeeping(h) ==
  /\ table' = table \ {h}
  /\ UNCHANGED removing

Discarded(h) ==
  /\ table' = table \ {h}
  /\ removing' = removing \cup {h}

\* cancelled, too long, too short, not the image it claims to be, I/O error
ReceiveFail(h) ==
  /\ receive[h] \in {"opening", "writing"}
  /\ receive' = [receive EXCEPT ![h] = "failing"]
  /\ Discarded(h)
  /\ UNCHANGED <<clock, intent, files, create, commit, waits, disposed, deleted>>

ReceiveFailed(h) ==
  /\ receive[h] = "failing" /\ h \notin removing
  /\ receive' = [receive EXCEPT ![h] = "ended"]
  /\ UNCHANGED <<clock, table, intent, files, removing, create, commit, waits, disposed,
                 deleted>>
-----------------------------------------------------------------------------
(* commit *)

Goto(c, place) == commit' = [commit EXCEPT ![c].at = place]

CommitBegin(c, h) ==
  /\ commit[c].at = "idle" /\ create[h] = "done"
  /\ PruneFor(c)
  /\ commit' = [commit EXCEPT ![c] = [at |-> IF NoRoom THEN "failed" ELSE "pruning",
                                      handle |-> h]]
  /\ UNCHANGED <<clock, intent, files, create, receive, disposed, deleted>>

Committable(h) == Owned(h) /\ intent[h].state = "uploaded"

\* unavailable or cancelled
CommitRefused(c) ==
  /\ commit[c].at = "pruning" /\ PruneOver(c)
  /\ Goto(c, "failed")
  /\ UNCHANGED <<clock, table, intent, files, removing, create, receive, waits, disposed,
                 deleted>>

CommitAdmit(c) ==
  LET h == commit[c].handle IN
  /\ commit[c].at = "pruning" /\ PruneOver(c)
  /\ Committable(h)
  /\ Goto(c, IF h \in LocalHandles THEN "linking" ELSE "inspecting")
  /\ UNCHANGED <<clock, table, intent, files, removing, create, receive, waits, disposed,
                 deleted>>

\* Faulty: the pending file is copied over whatever has the final name.
LinkableOver(h) == "pending" \in files[h] \/ "object" \in files[h]

Linkable(h) == "pending" \in files[h] /\ "object" \notin files[h]

\* link refuses a missing source and an existing target
CommitLink(c) ==
  LET h == commit[c].handle IN
  /\ commit[c].at = "linking"
  /\ IF Linkable(h)
     THEN Goto(c, "unlinking") /\ files' = [files EXCEPT ![h] = @ \cup {"object"}]
     ELSE Goto(c, "failed") /\ UNCHANGED files
  /\ UNCHANGED <<clock, table, intent, removing, create, receive, waits, disposed, deleted>>

Settled(h) ==
  /\ table' = table \ {h}
  /\ intent' = [intent EXCEPT ![h].state = "committed"]

CommitUnlink(c) ==
  LET h == commit[c].handle IN
  /\ commit[c].at = "unlinking"
  /\ files' = [files EXCEPT ![h] = @ \ {"pending"}]
  /\ Settled(h)
  /\ Goto(c, "issuing")
  /\ UNCHANGED <<clock, removing, create, receive, waits, disposed, deleted>>

\* the object is missing, or the provider did not hand it out
CommitInspectFails(c) ==
  /\ commit[c].at = "inspecting"
  /\ Goto(c, "failed")
  /\ UNCHANGED <<clock, table, intent, files, removing, create, receive, waits, disposed,
                 deleted>>

CommitInspect(c) ==
  LET h == commit[c].handle IN
  /\ commit[c].at = "inspecting" /\ "object" \in files[h]
  /\ Settled(h) /\ Goto(c, "issuing")
  /\ UNCHANGED <<clock, files, removing, create, receive, waits, disposed, deleted>>

\* content.issueItem may refuse: cancelled, or no room for another grant
CommitIssue(c) ==
  /\ commit[c].at = "issuing"
  /\ \E place \in {"published", "failed"} : Goto(c, place)
  /\ UNCHANGED <<clock, table, intent, files, removing, create, receive, waits, disposed,
                 deleted>>

CommitStep(c) ==
  \/ CommitRefused(c) \/ CommitAdmit(c) \/ CommitLink(c) \/ CommitUnlink(c)
  \/ CommitInspect(c) \/ CommitInspectFails(c) \/ CommitIssue(c)
-----------------------------------------------------------------------------
\* deleteUploaded by someone who was told the object
DeleteUploaded(h) ==
  /\ \E c \in CommitCalls : commit[c].at = "published" /\ commit[c].handle = h
  /\ h \notin deleted
  /\ deleted' = deleted \cup {h}
  /\ files' = [files EXCEPT ![h] = @ \ {"object"}]
  /\ UNCHANGED <<clock, table, intent, removing, create, receive, commit, waits, disposed>>

Dispose ==
  /\ ~disposed
  /\ disposed' = TRUE
  /\ removing' = removing \cup table
  /\ table' = {}
  /\ UNCHANGED <<clock, intent, files, create, receive, commit, waits, deleted>>

UploadsTick ==
  /\ clock < MaxClock
  /\ clock' = clock + 1
  /\ UNCHANGED <<table, intent, files, removing, create, receive, commit, waits,
                 disposed, deleted>>

UploadsNext ==
  \/ Cleanup \/ Dispose \/ UploadsTick
  \/ \E h \in Handles :
       \/ Removed(h) \/ CreateBegin(h) \/ CreateEnd(h)
       \/ ReceiveBegin(h) \/ ReceiveRefused(h) \/ ReceiveAdmit(h) \/ ReceiveOpen(h)
       \/ ReceiveDone(h) \/ ReceiveFail(h) \/ ReceiveFailed(h)
       \/ DeleteUploaded(h)
  \/ \E c \in CommitCalls : CommitStep(c) \/ \E h \in Handles : CommitBegin(c, h)

UploadsSpec == UploadsInit /\ [][UploadsNext]_uploadVars
-----------------------------------------------------------------------------
(* Properties. *)

\* However uploads and commits interleave, fail and are pruned, a pending file
\* always has someone who will come back to it: its live intent, a transfer, a
\* removal or a commit that linked it.  (Before the store is disposed.)
PendingFilesAccounted ==
  ~disposed =>
    \A h \in Handles : "pending" \in files[h] =>
      \/ h \in table \cup removing
      \/ h \in Active
      \/ \E c \in CommitCalls : commit[c].at = "unlinking" /\ commit[c].handle = h

\* The images and calls of UploadPromise.
ImageOf(h) ==
  CASE h \in deleted -> "deleted"
    [] h \notin deleted /\ "object" \in files[h] -> "published"
    [] OTHER -> IF intent[h].state \in {"none", "created", "uploading"} THEN "none"
                ELSE IF "pending" \in files[h] THEN "uploaded" ELSE "dropped"

Local(c) == commit[c].handle \in LocalHandles

OutcomeOf(c) ==
  CASE ~Local(c) -> "idle"
    [] Local(c) /\ commit[c].at \in {"pruning", "linking"} -> "running"
    [] Local(c) /\ commit[c].at \in {"unlinking", "issuing"} -> "publishing"
    [] OTHER -> commit[c].at

Promise == INSTANCE UploadPromise WITH
  Uploads <- LocalHandles, Committers <- CommitCalls, None <- NoHandle,
  object <- [h \in LocalHandles |-> ImageOf(h)],
  outcome <- [c \in CommitCalls |-> OutcomeOf(c)],
  target <- [c \in CommitCalls |-> IF Local(c) THEN commit[c].handle ELSE NoHandle]

\* Local uploads keep the promise: however commits of one handle race with each
\* other, with the pruning of their intent and with disposal, an image is
\* published by one of them and stays until its owner deletes it.
KeepsPromise == Promise!PromiseSpec

\* "Commit independently revalidates ... Later handlers can call openUploaded":
\* an object someone was told of is there until its owner deletes it.
ObjectStays ==
  \A c \in CommitCalls :
    commit[c].at = "published" /\ commit[c].handle \notin deleted
      => "object" \in files[commit[c].handle]
=============================================================================
