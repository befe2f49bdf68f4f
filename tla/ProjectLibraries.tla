--------------------------- MODULE ProjectLibraries ---------------------------
(***************************************************************************)
(* Installing, updating and removing the libraries of a project            *)
(* (project/library-packages.mjs): a lockfile says which version of which  *)
(* library the project has, and a directory of its own holds each.  The    *)
(* two change one after the other, by renames; every step may fail, and    *)
(* the command may die between any two.                                    *)
(*                                                                         *)
(* One command runs at a time.  The code does not enforce that: of two     *)
(* commands at once the later writer of the lockfile undoes the other.     *)
(***************************************************************************)
EXTENDS Integers, FiniteSets

CONSTANTS
  Libraries,
  Releases,     \* versions there are packages of, for each library
  Needs,        \* the <<library, version>> pairs each such pair depends on
  MaxCommands   \* bound on the commands

ASSUME LibrariesAssumption ==
  /\ Releases \subseteq Nat \ {0} /\ MaxCommands \in Nat
  /\ Needs \in [Libraries \X Releases -> SUBSET (Libraries \X Releases)]

NotLocked == 0
NoJob == [op |-> "none", library |-> "none", version |-> 0]

VARIABLES
  lockfile,   \* the locked version by library
  installed,  \* the <<library, version>> pairs whose directory is in place
  step,       \* where the command is, or "idle"
  job,        \* what it does
  read,       \* the lockfile as it read it
  aside,      \* directories under .staging and .remove names
  scars,      \* the steps at which commands died, or could not clean up
  commands

libraryVars == <<lockfile, installed, step, job, read, aside, scars, commands>>

Jobs == [op : {"add", "update", "remove"}, library : Libraries, version : Releases]
Lockfiles == [Libraries -> Releases \cup {NotLocked}]
InstallSteps == {"checked", "staged", "placed", "replacing"}
RemoveSteps == {"leaving", "quarantined", "restoring", "emptying"}

LibrariesTypeOK ==
  /\ lockfile \in Lockfiles /\ read \in Lockfiles
  /\ installed \subseteq Libraries \X Releases
  /\ step \in InstallSteps \cup RemoveSteps \cup {"idle"}
  /\ job \in Jobs \cup {NoJob}
  /\ aside \subseteq Libraries \X Releases
  /\ scars \subseteq InstallSteps \cup RemoveSteps
  /\ commands \in 0..MaxCommands

LibrariesInit ==
  /\ lockfile = [l \in Libraries |-> NotLocked] /\ read = lockfile
  /\ installed = {} /\ aside = {} /\ scars = {}
  /\ step = "idle" /\ job = NoJob /\ commands = 0

-----------------------------------------------------------------------------
Locked(l) == lockfile[l] # NotLocked
LockedPairs == {<<l, lockfile[l]>> : l \in {m \in Libraries : Locked(m)}}

\* loadLockedLibraries, with which a build and every command but the first begins
ProjectLoads ==
  /\ LockedPairs \subseteq installed
  /\ \A p \in LockedPairs : Needs[p] \subseteq LockedPairs

Package == <<job.library, job.version>>
Previous == <<job.library, read[job.library]>>

Advances(from, to) == step = from /\ step' = to /\ UNCHANGED <<job, read, commands>>

Begins(j, first) ==
  /\ step = "idle" /\ commands < MaxCommands /\ ProjectLoads
  /\ commands' = commands + 1 /\ job' = j /\ read' = lockfile /\ step' = first
  /\ UNCHANGED <<lockfile, installed, aside, scars>>

\* add and update: what the package needs is locked as it says, and its directory is
\* free.  What needs the library that is updated is looked at by its id only.
AddOrUpdate(j) ==
  /\ j.op = (IF Locked(j.library) THEN "update" ELSE "add")
  /\ Needs[<<j.library, j.version>>] \subseteq LockedPairs
  /\ <<j.library, j.version>> \notin installed
  /\ Begins(j, "checked")

Stage == Advances("checked", "staged") /\ aside' = aside \cup {Package}
         /\ UNCHANGED <<lockfile, installed, scars>>

\* rename(staging, destination)
PlacePackage ==
  /\ Advances("staged", "placed")
  /\ aside' = aside \ {Package} /\ installed' = installed \cup {Package}
  /\ UNCHANGED <<lockfile, scars>>

LockPackage ==
  /\ Advances("placed", IF job.op = "update" THEN "replacing" ELSE "idle")
  /\ lockfile' = [read EXCEPT ![job.library] = job.version]
  /\ UNCHANGED <<installed, aside, scars>>

\* writing the lockfile fails: the new directory goes
LockRefused ==
  /\ Advances("placed", "idle")
  /\ installed' = installed \ {Package} /\ UNCHANGED <<lockfile, aside, scars>>

DropPrevious ==
  /\ Advances("replacing", "idle")
  /\ installed' = installed \ {Previous} /\ UNCHANGED <<lockfile, aside, scars>>

\* a step before the rename fails, and the staging directory goes
GiveUp ==
  /\ step \in {"checked", "staged"} /\ Advances(step, "idle")
  /\ aside' = aside \ {Package} /\ UNCHANGED <<lockfile, installed, scars>>

-----------------------------------------------------------------------------
\* remove: nothing that is locked may need the library
Remove(j) ==
  /\ j.op = "remove" /\ Locked(j.library) /\ j.version = lockfile[j.library]
  /\ \A l \in Libraries \ {j.library} :
       Locked(l) => \A n \in Needs[<<l, lockfile[l]>>] : n[1] # j.library
  /\ Begins(j, "leaving")

\* rename(installed, quarantine)
Quarantine ==
  /\ Advances("leaving", "quarantined")
  /\ installed' = installed \ {Package} /\ aside' = aside \cup {Package}
  /\ UNCHANGED <<lockfile, scars>>

Unlist ==
  /\ Advances("quarantined", "emptying")
  /\ lockfile' = [read EXCEPT ![job.library] = NotLocked]
  /\ UNCHANGED <<installed, aside, scars>>

UnlistRefused ==
  Advances("quarantined", "restoring") /\ UNCHANGED <<lockfile, installed, aside, scars>>

PutBack ==
  /\ Advances("restoring", "idle")
  /\ installed' = installed \cup {Package} /\ aside' = aside \ {Package}
  /\ UNCHANGED <<lockfile, scars>>

Empty ==
  Advances("emptying", "idle") /\ aside' = aside \ {Package} /\ UNCHANGED <<lockfile, installed, scars>>

-----------------------------------------------------------------------------
\* The command dies, or what cleans up after it fails.
Scarred ==
  /\ step # "idle" /\ Advances(step, "idle") /\ scars' = scars \cup {step}
  /\ UNCHANGED <<lockfile, installed, aside>>

LibrariesNext ==
  \/ \E j \in Jobs : AddOrUpdate(j) \/ Remove(j)
  \/ Stage \/ PlacePackage \/ LockPackage \/ LockRefused \/ DropPrevious \/ GiveUp
  \/ Quarantine \/ Unlist \/ UnlistRefused \/ PutBack \/ Empty \/ Scarred

LibrariesSpec == LibrariesInit /\ [][LibrariesNext]_libraryVars

-----------------------------------------------------------------------------
(* Properties.                                                             *)

\* Whatever fails, and wherever an add or an update dies, what the lockfile names is in
\* its place.  A removal that dies half-way leaves a project that does not load, and that
\* no command repairs, since each begins with loading it.
LockedIsInstalled ==
  scars \cup {step} \subseteq (InstallSteps \cup {"leaving", "emptying", "idle"})
    => LockedPairs \subseteq installed

\* What a locked library needs is locked, though not in the version it needs when that
\* was updated since.
NeedsAreLocked ==
  \A p \in LockedPairs : \A n \in Needs[p] : Locked(n[1])

\* Whatever fails, nothing is left that would refuse the same command when it is repeated;
\* only a command that died after its rename leaves a directory the lockfile does not know.
FailuresLeaveNothing ==
  step = "idle" /\ scars \cap {"placed", "replacing"} = {} => installed \subseteq LockedPairs

LibrariesHold == LockedIsInstalled /\ NeedsAreLocked /\ FailuresLeaveNothing
=============================================================================
