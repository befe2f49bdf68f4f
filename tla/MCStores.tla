------------------------------- MODULE MCStores -------------------------------
(***************************************************************************)
(* What processes keep outside of themselves: the rows of the session      *)
(* store, and the files of a project that a server watches, builds replace *)
(* and commands install.  They share no state: the server's bundles lie    *)
(* where no other build writes, and its watcher disregards what builds     *)
(* write; libraries and SDK versions have directories of their own.  So a  *)
(* behaviour of one instance is one of the session rows, of the server, of *)
(* builds, of library commands or of SDK commands, and the others stand    *)
(* still.                                                                  *)
(***************************************************************************)
EXTENDS ServerSessions, DevServer, OutputTransaction, Installations

VARIABLE store

toolVars == <<serverVars, outputVars, libraryVars, sdkVars>>

\* package "ui" needs the package "base" of the same version
UiNeedsBase ==
  [p \in Libraries \X Releases |-> IF p[1] = "ui" THEN {<<"base", p[2]>>} ELSE {}]

StoresInit ==
  /\ store \in {"sessions", "server", "builds", "libraries", "sdk"}
  /\ Init /\ ServerInit /\ OutputInit /\ LibrariesInit /\ SdkInit

ToolsNext ==
  \/ store = "server" /\ ServerNext /\ UNCHANGED <<outputVars, libraryVars, sdkVars>>
  \/ store = "builds" /\ OutputNext /\ UNCHANGED <<serverVars, libraryVars, sdkVars>>
  \/ store = "libraries" /\ LibrariesNext /\ UNCHANGED <<serverVars, outputVars, sdkVars>>
  \/ store = "sdk" /\ SdkVersionsNext /\ UNCHANGED <<serverVars, outputVars, libraryVars>>

StoresNext ==
  \/ store = "sessions" /\ Next /\ UNCHANGED <<toolVars, store>>
  \/ ToolsNext /\ UNCHANGED <<vars, store>>

\* as FairSpec has it, when it is the sessions' turn
SessionsFairness ==
  WF_vars(store = "sessions" /\ Tick) /\ WF_vars(store = "sessions" /\ PruneAt(now))

StoresSpec ==
  /\ StoresInit /\ [][StoresNext]_<<vars, toolVars, store>>
  /\ SessionsFairness
  /\ ServerFairness /\ OutputFairness    \* ask nothing of the others

\* All stores keep to their types.
StoresTypeOK == TypeOK /\ ServerTypeOK /\ OutputTypeOK /\ LibrariesTypeOK /\ SdkTypeOK
=============================================================================
