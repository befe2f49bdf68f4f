------------------------------- MODULE MCSdk -------------------------------
(***************************************************************************)
(* The SDK's states live in one application each and share nothing: a      *)
(* behaviour of one instance is one of an application's features with      *)
(* their read and mutation states, of a paged collection, or of a router   *)
(* and the history of the browser the application runs in.                 *)
(***************************************************************************)
EXTENDS AppFeatures, Collections, HostHistory, TLC

VARIABLE kind

SdkInit ==
  /\ kind \in {"features", "collection", "navigation"}
  /\ Init /\ CollectionInit /\ HistoryInit
  /\ kind # "navigation" => native /\ stack = <<Home>>

SdkNext ==
  \/ kind = "features" /\ Next /\ UNCHANGED <<collectionVars, historyVars, kind>>
  \/ kind = "collection" /\ CollectionNext /\ UNCHANGED <<vars, historyVars, kind>>
  \/ kind = "navigation" /\ HistoryNext /\ UNCHANGED <<vars, collectionVars, kind>>

SdkSpec == SdkInit /\ [][SdkNext]_<<vars, collectionVars, historyVars, kind>>

FeatureSymmetry == Permutations(Features)

\* All kinds of states keep to their types.
SdkTypeOK == TypeOK /\ CollectionTypeOK /\ HistoryTypeOK

\* A collection is what its pages hold, and paging through it passes no record over.
CollectionHolds == WindowIsSound /\ RecordsContinue
=============================================================================
