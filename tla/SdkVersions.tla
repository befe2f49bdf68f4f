----------------------------- MODULE SdkVersions -----------------------------
(***************************************************************************)
(* Installed versions of the SDK (release/luastra-install.mjs): commands   *)
(* that install, use and remove versions under one root, several at a      *)
(* time, each of which may die anywhere.                                   *)
(*                                                                         *)
(* A version is built in a directory of a partial name and renamed as a    *)
(* whole; removing one deletes its files one by one.  Which version is     *)
(* active is one small file, replaced by a rename, while the commands in   *)
(* bin, here taken as one file, are written in place.                      *)
(***************************************************************************)
EXTENDS Integers, FiniteSets

CONSTANTS
  SdkReleases,    \* versions there are releases of
  NoVersion,
  Processes,      \* commands under way at a time
  MaxSdkCommands  \* bound on the commands

ASSUME SdkAssumption == NoVersion \notin SdkReleases /\ MaxSdkCommands \in Nat

VARIABLES
  sdk,        \* what is in sdk/<version>: "absent", "whole" or "broken"
  active,     \* activeVersion of state.v1.json, or NoVersion
  shims,      \* the commands in bin: "none", "torn" or "whole"
  stands,     \* where each process is
  task,       \* what it does: the operation, the version, whether to activate it
  partial,    \* processes whose partial directory is there
  contested,  \* versions that were removed while another command made them active
  started     \* commands so far

sdkVars == <<sdk, active, shims, stands, task, partial, contested, started>>

Tasks == [op : {"install", "use", "remove"}, version : SdkReleases, activate : BOOLEAN]
NoTask == [op |-> "none", version |-> NoVersion, activate |-> FALSE]
Stands == {"idle", "looking", "staging", "moving", "shimming", "rewriting",
           "activating", "using", "asking", "checking", "removing", "dead", "dead rewriting"}

SdkTypeOK ==
  /\ sdk \in [SdkReleases -> {"absent", "whole", "broken"}]
  /\ active \in SdkReleases \cup {NoVersion} /\ shims \in {"none", "torn", "whole"}
  /\ stands \in [Processes -> Stands] /\ task \in [Processes -> Tasks \cup {NoTask}]
  /\ partial \subseteq Processes /\ contested \subseteq SdkReleases
  /\ started \in 0..MaxSdkCommands

SdkInit ==
  /\ sdk = [v \in SdkReleases |-> "absent"] /\ active = NoVersion /\ shims = "none"
  /\ stands = [p \in Processes |-> "idle"] /\ task = [p \in Processes |-> NoTask]
  /\ partial = {} /\ contested = {} /\ started = 0

-----------------------------------------------------------------------------
Step(p, from, to) ==
  /\ stands[p] = from /\ stands' = [stands EXCEPT ![p] = to] /\ UNCHANGED <<task, started>>

Version(p) == task[p].version

\* verifyInstalledSdk
Verified(v) == sdk[v] = "whole"

FirstStand == [install |-> "looking", use |-> "using", remove |-> "asking"]

Start(p) ==
  /\ stands[p] = "idle" /\ started < MaxSdkCommands /\ started' = started + 1
  /\ \E t \in Tasks :
       /\ task' = [task EXCEPT ![p] = t]
       /\ stands' = [stands EXCEPT ![p] = FirstStand[t.op]]
  /\ UNCHANGED <<sdk, active, shims, partial, contested>>

\* the release was verified; what is there already is only made active
LooksForVersion(p) ==
  /\ stands[p] = "looking" /\ UNCHANGED <<sdk, active, shims, contested>>
  /\ \/ sdk[Version(p)] = "absent" /\ Step(p, "looking", "staging") /\ partial' = partial \cup {p}
     \/ /\ sdk[Version(p)] # "absent" /\ UNCHANGED partial
        /\ Step(p, "looking", IF Verified(Version(p)) /\ task[p].activate THEN "using" ELSE "idle")

Extract(p) ==
  Step(p, "staging", "moving") /\ UNCHANGED <<sdk, active, shims, partial, contested>>

\* extraction or its verification fails, or the rename finds the version there
AbandonPartial(p) ==
  /\ stands[p] \in {"staging", "moving"} /\ Step(p, stands[p], "idle")
  /\ partial' = partial \ {p} /\ UNCHANGED <<sdk, active, shims, contested>>

MoveIntoPlace(p) ==
  /\ Step(p, "moving", "shimming") /\ sdk[Version(p)] = "absent"
  /\ sdk' = [sdk EXCEPT ![Version(p)] = "whole"] /\ partial' = partial \ {p}
  /\ UNCHANGED <<active, shims, contested>>

\* useSdkVersion
VerifyToUse(p) ==
  /\ stands[p] = "using" /\ Step(p, "using", IF Verified(Version(p)) THEN "shimming" ELSE "idle")
  /\ UNCHANGED <<sdk, active, shims, partial, contested>>

\* writeShims: truncated, then written
TruncateShims(p) ==
  Step(p, "shimming", "rewriting") /\ shims' = "torn" /\ UNCHANGED <<sdk, active, partial, contested>>

Activates(t) == t.op = "use" \/ t.activate

WriteShims(p) ==
  /\ Step(p, "rewriting", IF Activates(task[p]) THEN "activating" ELSE "idle")
  /\ shims' = "whole" /\ UNCHANGED <<sdk, active, partial, contested>>

\* somebody is on the way to remove the version, or did
UnderRemoval(v) ==
  \/ sdk[v] # "whole"
  \/ \E q \in Processes : task[q] # NoTask /\ Version(q) = v /\ stands[q] \in {"checking", "removing"}

\* writeState
Activate(p) ==
  /\ Step(p, "activating", "idle")
  /\ active' = Version(p)
  /\ contested' = IF UnderRemoval(Version(p)) THEN contested \cup {Version(p)} ELSE contested
  /\ UNCHANGED <<sdk, shims, partial>>

\* Faulty: the active version is removed like any other
AskToRemoveAny(p) ==
  Step(p, "asking", "checking") /\ UNCHANGED <<sdk, active, shims, partial, contested>>

\* removeSdkVersion: the active version is refused
AskToRemove(p) ==
  /\ stands[p] = "asking" /\ Step(p, "asking", IF active = Version(p) THEN "idle" ELSE "checking")
  /\ UNCHANGED <<sdk, active, shims, partial, contested>>

\* verified, and the first file is deleted
BeginRemoval(p) ==
  /\ stands[p] = "checking" /\ UNCHANGED <<active, shims, partial, contested>>
  /\ \/ Verified(Version(p)) /\ Step(p, "checking", "removing")
        /\ sdk' = [sdk EXCEPT ![Version(p)] = "broken"]
     \/ ~Verified(Version(p)) /\ Step(p, "checking", "idle") /\ UNCHANGED sdk

EndRemoval(p) ==
  /\ Step(p, "removing", "idle") /\ UNCHANGED <<active, shims, partial, contested>>
  /\ sdk' = [sdk EXCEPT ![Version(p)] = "absent"]

\* The command is killed, or fails with nothing to clean up, and ends where it is.
Dies(p) ==
  /\ stands[p] \notin {"idle", "dead", "dead rewriting"}
  /\ Step(p, stands[p], IF stands[p] = "rewriting" THEN "dead rewriting" ELSE "dead")
  /\ UNCHANGED <<sdk, active, shims, partial, contested>>

CommandStep(p) ==
  \/ Start(p) \/ LooksForVersion(p) \/ Extract(p) \/ AbandonPartial(p) \/ MoveIntoPlace(p)
  \/ VerifyToUse(p) \/ TruncateShims(p) \/ WriteShims(p) \/ Activate(p)
  \/ AskToRemove(p) \/ BeginRemoval(p) \/ EndRemoval(p) \/ Dies(p)

SdkVersionsNext == \E p \in Processes : CommandStep(p)

SdkVersionsSpec == SdkInit /\ [][SdkVersionsNext]_sdkVars

-----------------------------------------------------------------------------
(* Properties.                                                             *)

\* The active version is there as a whole, wherever commands die and however they
\* overlap, but for a version that one command removes while another makes it active:
\* neither looks again.  And it can be started, but for a command that is rewriting what
\* starts it, or died over that.
ActiveIsWhole ==
  active # NoVersion =>
    /\ active \in contested \/ sdk[active] = "whole"
    /\ shims = "whole" \/ \E p \in Processes : stands[p] \in {"rewriting", "dead rewriting"}

\* A partial directory belongs to an installation under way, or to one that died.
PartialsAccounted ==
  \A p \in partial : stands[p] \in {"staging", "moving", "dead"}

VersionsHold == ActiveIsWhole /\ PartialsAccounted
=============================================================================
