----------------------------- MODULE Installations -----------------------------
(***************************************************************************)
(* What commands install on a developer's disk: the libraries of a project *)
(* and the versions of the SDK.                                            *)
(***************************************************************************)
EXTENDS ProjectLibraries, SdkVersions

\* What is locked is installed and what is active is whole, whatever failed.
InstallsHold == LibrariesHold /\ VersionsHold
=============================================================================
