-------------------------- MODULE OutputTransaction --------------------------
(***************************************************************************)
(* Replacing a generated output (withGeneratedOutput of                    *)
(* project/output-transaction.mjs), file operation by file operation.      *)
(* Several processes build into one output directory.  Each may die        *)
(* anywhere, every file operation may fail, and somebody who does not know *)
(* of the lock may delete or replace the directory.  A user who finds the  *)
(* lock of a build that is over removes it, as the message of the code     *)
(* advises.                                                                *)
(***************************************************************************)
EXTENDS Naturals

CONSTANTS
  Builders,    \* processes that build
  MaxBuilds,   \* bound on the builds that get the lock
  MaxMeddles   \* bound on the changes made without the lock

NoOutput == 0
Foreign == MaxBuilds + 1
Nobody == 0

ASSUME OutputAssumption ==
  MaxBuilds \in Nat /\ MaxMeddles \in Nat /\ Nobody \notin Builders

VARIABLES
  output,     \* what is at the output path: NoOutput, a build, or Foreign
  lock,       \* the builder whose lock directory exists, or Nobody
  place,      \* where each builder is
  build,      \* the number of each builder's build
  before,     \* what its first inspection found
  workspace,  \* builders whose workspace directory exists
  backup,     \* builders that set the path `backup`
  kept,       \* the previous output a workspace holds and nothing replaced yet
  builds,     \* builds that got the lock so far
  candidates, \* builds that wrote a whole candidate
  meddles     \* changes made without the lock

outputVars == <<output, lock, place, build, before, workspace, backup, kept, builds,
                candidates, meddles>>

\* A builder that died, that ended and left its workspace for the backup in it, or
\* whose finally block raised.  It is not used again, so that its workspace keeps
\* its name: further builds are other builders'.
Spent == {"dead", "ended", "raised"}

Places == {"idle", "locked", "building", "checking", "moving", "placing", "restoring",
           "cleaning", "unlocking"} \cup Spent
Outputs == 0..MaxBuilds + 1

OutputTypeOK ==
  /\ output \in Outputs /\ lock \in Builders \cup {Nobody}
  /\ place \in [Builders -> Places]
  /\ build \in [Builders -> 0..MaxBuilds] /\ before \in [Builders -> Outputs]
  /\ workspace \subseteq Builders /\ backup \subseteq Builders
  /\ kept \in [Builders -> Outputs]
  /\ builds \in 0..MaxBuilds /\ candidates \subseteq 1..MaxBuilds
  /\ meddles \in 0..MaxMeddles

OutputInit ==
  /\ output = NoOutput /\ lock = Nobody
  /\ place = [b \in Builders |-> "idle"]
  /\ build = [b \in Builders |-> 0]
  /\ before = [b \in Builders |-> NoOutput]
  /\ workspace = {} /\ backup = {}
  /\ kept = [b \in Builders |-> NoOutput]
  /\ builds = 0 /\ candidates = {} /\ meddles = 0
-----------------------------------------------------------------------------
Goes(b, from, to) == place[b] = from /\ place' = [place EXCEPT ![b] = to]

\* mkdir of the lock; it refuses when the directory is there
TakeLock(b) ==
  /\ builds < MaxBuilds
  /\ lock = Nobody
  /\ Goes(b, "idle", "locked")
  /\ lock' = b
  /\ builds' = builds + 1 /\ build' = [build EXCEPT ![b] = builds']
  /\ UNCHANGED <<output, before, workspace, backup, kept, candidates, meddles>>

\* what inspect returns; it raises at a directory without the marker
Inspectable == output # Foreign

\* inspect, and the workspace is made
Inspect(b) ==
  /\ Inspectable
  /\ Goes(b, "locked", "building")
  /\ before' = [before EXCEPT ![b] = output]
  /\ workspace' = workspace \cup {b}
  /\ UNCHANGED <<output, lock, build, backup, kept, builds, candidates, meddles>>

Build(b) ==
  /\ Goes(b, "building", "checking")
  /\ candidates' = candidates \cup {build[b]}
  /\ UNCHANGED <<output, lock, build, before, workspace, backup, kept, builds, meddles>>

Unchanged(b) == Inspectable /\ before[b] = output

\* the second inspection; the path of the backup is set when there is an output
Check(b) ==
  /\ Unchanged(b)
  /\ Goes(b, "checking", IF output = NoOutput THEN "placing" ELSE "moving")
  /\ backup' = IF output = NoOutput THEN backup ELSE backup \cup {b}
  /\ UNCHANGED <<output, lock, build, before, workspace, kept, builds, candidates, meddles>>

\* the previous output is moved into the workspace
MoveAway(b) ==
  /\ output # NoOutput
  /\ Goes(b, "moving", "placing")
  /\ kept' = [kept EXCEPT ![b] = output] /\ output' = NoOutput
  /\ UNCHANGED <<lock, build, before, workspace, backup, builds, candidates, meddles>>

\* the candidate is moved to the output; a directory that is there prevents it
Place(b) ==
  /\ output = NoOutput
  /\ Goes(b, "placing", "cleaning")
  /\ output' = build[b]
  /\ backup' = backup \ {b} /\ kept' = [kept EXCEPT ![b] = NoOutput]
  /\ UNCHANGED <<lock, build, before, workspace, builds, candidates, meddles>>

CannotPlace(b) ==
  /\ Goes(b, "placing", IF b \in backup THEN "restoring" ELSE "cleaning")
  /\ UNCHANGED <<output, lock, build, before, workspace, backup, kept, builds, candidates,
                 meddles>>

Restore(b) ==
  /\ output = NoOutput
  /\ Goes(b, "restoring", "cleaning")
  /\ output' = kept[b] /\ kept' = [kept EXCEPT ![b] = NoOutput]
  /\ backup' = backup \ {b}
  /\ UNCHANGED <<lock, build, before, workspace, builds, candidates, meddles>>

\* Faulty: a raise leaves without the finally block.
RaiseHeedless(b) ==
  /\ \E p \in {"locked", "building", "checking", "moving", "restoring"} :
       Goes(b, p, "idle")
  /\ UNCHANGED <<output, lock, build, before, workspace, backup, kept, builds, candidates,
                 meddles>>

\* an operation raises: the finally block follows
Raise(b) ==
  /\ \E p \in {"locked", "building", "checking", "moving", "restoring"} :
       Goes(b, p, "cleaning")
  /\ UNCHANGED <<output, lock, build, before, workspace, backup, kept, builds, candidates,
                 meddles>>

\* Faulty: the workspace is removed whether or not it holds the backup.
CleansUpAlways(b) == TRUE

CleansUp(b) == b \notin backup

Clean(b) ==
  /\ Goes(b, "cleaning", "unlocking")
  /\ IF CleansUp(b)
     THEN workspace' = workspace \ {b} /\ kept' = [kept EXCEPT ![b] = NoOutput]
     ELSE UNCHANGED <<workspace, kept>>
  /\ UNCHANGED <<output, lock, build, before, backup, builds, candidates, meddles>>

\* removing the workspace raises: some of it stays, and the lock is not removed
CannotClean(b) ==
  /\ b \in workspace /\ CleansUp(b)
  /\ Goes(b, "cleaning", "raised")
  /\ UNCHANGED <<output, lock, build, before, workspace, backup, kept, builds, candidates,
                 meddles>>

Unlock(b) ==
  /\ Goes(b, "unlocking", IF b \in workspace THEN "ended" ELSE "idle")
  /\ lock' = Nobody
  /\ UNCHANGED <<output, build, before, workspace, backup, kept, builds, candidates, meddles>>

\* removing the lock raises
CannotUnlock(b) ==
  /\ Goes(b, "unlocking", "raised")
  /\ UNCHANGED <<output, lock, build, before, workspace, backup, kept, builds, candidates,
                 meddles>>

BuilderStep(b) ==
  \/ Inspect(b) \/ Build(b) \/ Check(b) \/ MoveAway(b)
  \/ Place(b) \/ CannotPlace(b) \/ Restore(b) \/ Raise(b)
  \/ Clean(b) \/ CannotClean(b) \/ Unlock(b) \/ CannotUnlock(b)
-----------------------------------------------------------------------------
Die(b) ==
  /\ place[b] \notin {"idle"} \cup Spent
  /\ place' = [place EXCEPT ![b] = "dead"]
  /\ UNCHANGED <<output, lock, build, before, workspace, backup, kept, builds, candidates,
                 meddles>>

\* a lock that nobody builds under any more
RemoveStaleLock ==
  /\ lock # Nobody /\ place[lock] \in {"dead", "raised"}
  /\ lock' = Nobody
  /\ UNCHANGED <<output, place, build, before, workspace, backup, kept, builds, candidates,
                 meddles>>

\* the builders whose workspaces hold the newest of what is kept, by their builds
NewestKept ==
  {b \in Builders : kept[b] # NoOutput
                    /\ \A c \in Builders : kept[c] # NoOutput => build[c] <= build[b]}

\* the manual recovery that the backup is retained for, from the newest workspace
RecoverByHand(b) ==
  /\ output = NoOutput /\ lock = Nobody
  /\ place[b] \in Spent /\ b \in NewestKept
  /\ output' = kept[b] /\ kept' = [kept EXCEPT ![b] = NoOutput]
  /\ UNCHANGED <<lock, place, build, before, workspace, backup, builds, candidates, meddles>>

MeddleWithOutput ==
  /\ meddles < MaxMeddles
  /\ meddles' = meddles + 1
  /\ output' \in {NoOutput, Foreign} \ {output}
  /\ UNCHANGED <<lock, place, build, before, workspace, backup, kept, builds, candidates>>

OutputNext ==
  \/ \E b \in Builders : TakeLock(b) \/ BuilderStep(b) \/ Die(b) \/ RecoverByHand(b)
  \/ RemoveStaleLock \/ MeddleWithOutput

OutputSpec == OutputInit /\ [][OutputNext]_outputVars

\* file operations return
OutputFairness == \A b \in Builders : WF_outputVars(BuilderStep(b))
-----------------------------------------------------------------------------
(* Properties. *)

\* what a reader or a recovery finds: the output, or else what the newest of the
\* workspaces that keep one holds
Recoverable ==
  IF output # NoOutput THEN output
  ELSE IF NewestKept = {} THEN NoOutput
  ELSE kept[CHOOSE b \in NewestKept : TRUE]

Promise == INSTANCE OutputPromise WITH
  Builds <- 1..MaxBuilds, copy <- Recoverable, complete <- candidates, meddled <- meddles

\* withGeneratedOutput (output-transaction.mjs:16): whatever fails or dies, the
\* last successful output is in place or in a workspace that is retained, and
\* only a later complete build takes its place.
KeepsOutput == Promise!PromiseSpec

\* However a build ends, the lock goes again (output-transaction.mjs:59), unless its
\* builder died or a removal of the finally block raised: when the workspace cannot
\* be removed (line 58), the code does not come to the lock.
LockIsFreed ==
  \A b \in Builders : lock = b ~> lock # b \/ place[b] \in {"dead", "raised"}
=============================================================================
