----------------------------- MODULE MCBackend -----------------------------
(***************************************************************************)
(* The upload store, the runtime that executes mutations upon what the     *)
(* store promises, collections of records, sessions and grants:            *)
(* ContentUploads keeps UploadPromise, which BackendMutations uses; the    *)
(* others share nothing with either or one another.  A behaviour is one of *)
(* one of them; the others stand still.                                    *)
(***************************************************************************)
EXTENDS ContentUploads, BackendMutations, Records, AccessGrants, TLC

VARIABLE part

BackendInit ==
  /\ part \in {"store", "runtime", "records", "sessions", "grants"}
  /\ UploadsInit /\ Init /\ RecordsInit /\ AccessInit
  /\ part # "records" => \A i \in Ids : database[i] = Absent

BackendNext ==
  \/ part = "store" /\ UploadsNext /\ UNCHANGED <<part, vars, recordVars, accessVars>>
  \/ part = "runtime" /\ Next /\ UNCHANGED <<part, uploadVars, recordVars, accessVars>>
  \/ part = "records" /\ RecordsNext /\ UNCHANGED <<part, uploadVars, vars, accessVars>>
  \/ part = "sessions" /\ (SessionSteps \/ Dawns)
       /\ UNCHANGED <<part, uploadVars, vars, recordVars>>
  \/ part = "grants" /\ (GrantSteps \/ Dawns)
       /\ UNCHANGED <<part, uploadVars, vars, recordVars>>

BackendSpec ==
  BackendInit /\ [][BackendNext]_<<part, uploadVars, vars, recordVars, accessVars>>

\* All parts keep to their types.
BackendTypeOK == UploadsTypeOK /\ TypeOK /\ RecordsTypeOK /\ AccessTypeOK

\* Records and what is given out for a while: walks are complete, and only owners write;
\* tables at their limit lose no more than they have to.
EntriesHold == RecordsHold /\ AccessHolds

NameSymmetry ==
  Permutations(Calls) \cup Permutations(Keys) \cup Permutations(Uploads)
    \cup Permutations(CommitCalls)
=============================================================================
