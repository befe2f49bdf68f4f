------------------------- MODULE ContentUploadsProofs -------------------------
(***************************************************************************)
(* Proofs about the upload store, for any number of uploads of either      *)
(* provider, of commits and of intents: no pending file is forgotten, and  *)
(* local uploads keep UploadPromise.                                       *)
(***************************************************************************)
EXTENDS ContentUploads, FiniteSetTheorems, TLAPS

USE UploadsAssumption DEF Handles

Arrived(h) == intent[h].state \in {"uploaded", "committed"}
Inserted(h) == create[h] = "done"

\* An intent goes one way, along with its transfer, and there is nothing of an
\* upload before it was opened.
GoesOn(h) ==
  /\ intent[h].state = "none" <=> ~Inserted(h)
  /\ ~Inserted(h) => receive[h] = "none" /\ h \notin table
  /\ receive[h] \in {"none", "pruning"} => intent[h].state \in {"none", "created"}
  /\ receive[h] \in {"none", "pruning", "opening"} => files[h] = {}
  /\ receive[h] \in {"opening", "writing"} => intent[h].state = "uploading"
  /\ Arrived(h) => receive[h] = "ended"

IntentsGoOn == \A h \in Handles : GoesOn(h)

\* A transfer keeps its intent in the table, and a failed one waits for the
\* removal of what it left.
TransferKept(h) ==
  /\ ~disposed /\ receive[h] \in {"opening", "writing"} => h \in table
  /\ receive[h] = "failing" => h \in removing \/ "pending" \notin files[h]

TransfersKept == \A h \in Handles : TransferKept(h)

\* Which commit may be where: it named an upload, and passed over the first
\* look only when that had arrived.
CommitInPlace(c) ==
  /\ commit[c].at = "idle" <=> commit[c].handle = NoHandle
  /\ commit[c].at \in {"linking", "unlinking"} => commit[c].handle \in LocalHandles
  /\ commit[c].at = "inspecting" => commit[c].handle \in RemoteHandles
  /\ commit[c].at \in {"linking", "unlinking", "inspecting", "issuing", "published"}
       => Arrived(commit[c].handle)

CommitsInPlace == \A c \in CommitCalls : CommitInPlace(c)

\* An image with its final name, or one that was deleted, had arrived; after
\* its commit no pending file of it is left.
ImageInPlace(h) ==
  /\ h \in RemoteHandles => "pending" \notin files[h]
  /\ h \in LocalHandles =>
       /\ "object" \in files[h] \/ h \in deleted => Arrived(h)
       /\ h \in deleted => files[h] = {}

CommittedInPlace(c) ==
  Local(c) /\ commit[c].at \in {"unlinking", "issuing", "published"} =>
    /\ "object" \in files[commit[c].handle] \/ commit[c].handle \in deleted
    /\ commit[c].at # "unlinking" => "pending" \notin files[commit[c].handle]

ImagesInPlace ==
  /\ \A h \in Handles : ImageInPlace(h)
  /\ \A c \in CommitCalls : CommittedInPlace(c)

UploadsInv ==
  /\ UploadsTypeOK /\ IsFiniteSet(Active) /\ IsFiniteSet(Created) /\ IntentsGoOn /\ TransfersKept
  /\ CommitsInPlace /\ ImagesInPlace /\ PendingFilesAccounted
-----------------------------------------------------------------------------
\* prune takes intents out of the table to remove what they left, and no upload
\* that is under way.
LEMMA PruneMoves ==
  ASSUME UploadsInv, table' = table \ Victims, removing' = removing \cup Victims
  PROVE  /\ table' \subseteq table /\ removing' \subseteq Handles
         /\ Victims \subseteq Handles
         /\ table \cup removing \subseteq table' \cup removing'
         /\ removing \subseteq removing'
         /\ \A h \in table : Uploading(h) => h \in table'
<1>1. Victims \subseteq table /\ \A h \in Victims : ~Uploading(h)
  BY DEF Victims, Overdue, Evicted, Evictable, Remaining
<1> QED
  BY <1>1 DEF UploadsInv, UploadsTypeOK

\* The steps of prune that a process awaits.
LEMMA PruneAwaited ==
  ASSUME UploadsInv, NEW p \in Handles \cup CommitCalls, PruneFor(p)
  PROVE  /\ table' \subseteq Handles /\ removing' \subseteq Handles
         /\ waits' \in [Handles \cup CommitCalls -> SUBSET Handles]
<1>1. Victims \subseteq Handles /\ table' \subseteq table /\ removing' \subseteq Handles
  BY PruneMoves DEF PruneFor
<1>2. waits' = [waits EXCEPT ![p] = Victims]
  BY DEF PruneFor
<1> HIDE DEF Handles
<1> QED
  BY <1>1, <1>2 DEF UploadsInv, UploadsTypeOK

\* Transfers keep to their limit.
LEMMA TransfersLimited ==
  ASSUME UploadsInv, UploadsNext
  PROVE  IsFiniteSet(Active') /\ Cardinality(Active') <= MaxConcurrent
<1> HIDE DEF Handles
<1>1. /\ IsFiniteSet(Active) /\ Cardinality(Active) <= MaxConcurrent
      /\ Cardinality(Active) \in Nat /\ MaxConcurrent \in Nat
      /\ receive \in [Handles -> ReceivePlaces]
  BY FS_CardinalityType DEF UploadsInv, UploadsTypeOK
<1>2. ASSUME Active' \subseteq Active
      PROVE  IsFiniteSet(Active') /\ Cardinality(Active') <= MaxConcurrent
  <2>1. /\ IsFiniteSet(Active') /\ Cardinality(Active') <= Cardinality(Active)
        /\ Cardinality(Active') \in Nat
    BY <1>1, <1>2, FS_Subset, FS_CardinalityType
  <2> QED
    BY <1>1, <2>1
<1>3. CASE UNCHANGED receive
  BY <1>2, <1>3 DEF Active
<1>4. ASSUME NEW h \in Handles, NEW place \in {"pruning", "ended"},
             receive' = [receive EXCEPT ![h] = place]
      PROVE  Active' \subseteq Active
  BY <1>1, <1>4 DEF Active
<1>5. ASSUME NEW h \in Handles, receive[h] \in {"opening", "writing"},
             NEW place \in {"writing", "failing"}, receive' = [receive EXCEPT ![h] = place]
      PROVE  Active' \subseteq Active
  BY <1>1, <1>5 DEF Active
<1>6. ASSUME NEW h \in Handles, ReceiveAdmit(h)
      PROVE  IsFiniteSet(Active') /\ Cardinality(Active') <= MaxConcurrent
  <2>1. /\ Cardinality(Active) < MaxConcurrent
        /\ receive' = [receive EXCEPT ![h] = "opening"]
    BY <1>6 DEF ReceiveAdmit, Receivable
  <2>2. Active' = Active \cup {h}
    BY <1>1, <2>1 DEF Active
  <2>3. /\ IsFiniteSet(Active \cup {h})
        /\ Cardinality(Active \cup {h}) \in {Cardinality(Active), Cardinality(Active) + 1}
    BY <1>1, FS_AddElement
  <2> QED
    BY <1>1, <2>1, <2>2, <2>3
<1>7. ASSUME NEW h \in Handles,
             \/ ReceiveBegin(h) \/ ReceiveRefused(h) \/ ReceiveDone(h) \/ ReceiveFailed(h)
      PROVE  Active' \subseteq Active
  BY <1>4, <1>7 DEF ReceiveBegin, ReceiveRefused, ReceiveDone, ReceiveFailed
<1>8. ASSUME NEW h \in Handles, ReceiveOpen(h) \/ ReceiveFail(h)
      PROVE  Active' \subseteq Active
  <2>1. CASE ReceiveOpen(h)
    BY <1>5, <2>1 DEF ReceiveOpen
  <2>2. CASE ReceiveFail(h)
    BY <1>5, <2>2 DEF ReceiveFail
  <2> QED
    BY <1>8, <2>1, <2>2
<1>9. CASE \/ Cleanup \/ Dispose \/ UploadsTick
           \/ \E h \in Handles :
                \/ Removed(h) \/ CreateBegin(h) \/ CreateEnd(h) \/ DeleteUploaded(h)
           \/ \E c \in CommitCalls :
                CommitStep(c) \/ \E h \in Handles : CommitBegin(c, h)
  BY <1>3, <1>9 DEF Cleanup, Dispose, UploadsTick, Removed, CreateBegin, CreateEnd,
     DeleteUploaded, CommitBegin, CommitStep, CommitRefused, CommitAdmit, CommitLink,
     CommitUnlink, CommitInspect, CommitInspectFails, CommitIssue
<1> QED
  BY <1>2, <1>6, <1>7, <1>8, <1>9 DEF UploadsNext

\* Only so many intents were created.
LEMMA CreatedFinite == UploadsInv /\ UploadsNext => IsFiniteSet(Created')
<1> SUFFICES ASSUME UploadsInv, UploadsNext PROVE IsFiniteSet(Created')
  OBVIOUS
<1> HIDE DEF Handles
<1>1. IsFiniteSet(Created) /\ create \in [Handles -> {"none", "pruning", "done", "failed"}]
  BY DEF UploadsInv, UploadsTypeOK
<1>2. ASSUME NEW h \in Handles, CreateBegin(h) \/ CreateEnd(h)
      PROVE  IsFiniteSet(Created')
  <2>1. Created' \subseteq Created \cup {h}
    BY <1>1, <1>2 DEF CreateBegin, CreateEnd, Created
  <2> QED
    BY <1>1, <2>1, FS_AddElement, FS_Subset
<1>3. CASE UNCHANGED create
  BY <1>1, <1>3 DEF Created
<1> QED
  BY <1>2, <1>3 DEF UploadsNext, Cleanup, Dispose, UploadsTick, Removed, DeleteUploaded,
     ReceiveBegin, ReceiveRefused, ReceiveAdmit, ReceiveOpen, ReceiveDone, ReceiveFail,
     ReceiveFailed, CommitBegin, CommitStep, CommitRefused, CommitAdmit, CommitLink,
     CommitUnlink, CommitInspect, CommitInspectFails, CommitIssue

\* The records of the store keep their types.
LEMMA UploadTypes == UploadsInv /\ UploadsNext => UploadsTypeOK'
<1> SUFFICES ASSUME UploadsInv, UploadsNext PROVE UploadsTypeOK'
  OBVIOUS
<1> DEFINE Rows == /\ clock \in Nat /\ disposed \in BOOLEAN /\ deleted \subseteq Handles
                   /\ table \subseteq Handles /\ removing \subseteq Handles
                   /\ intent \in [Handles -> IntentRow]
                   /\ files \in [Handles -> SUBSET {"pending", "object"}]
                   /\ create \in [Handles -> {"none", "pruning", "done", "failed"}]
                   /\ receive \in [Handles -> ReceivePlaces]
                   /\ commit \in [CommitCalls -> CommitRow]
                   /\ waits \in [Handles \cup CommitCalls -> SUBSET Handles]
<1> HIDE DEF Handles
<1>1. Rows
  BY DEF UploadsInv, UploadsTypeOK
<1>2. SUFFICES Rows'
  BY TransfersLimited DEF UploadsTypeOK
<1>3. ASSUME NEW h \in Handles, NEW s \in States, intent' = [intent EXCEPT ![h].state = s]
      PROVE  intent' \in [Handles -> IntentRow]
  BY <1>1, <1>3 DEF IntentRow
<1>4. ASSUME NEW c \in CommitCalls, NEW place \in CommitPlaces, Goto(c, place)
      PROVE  commit' \in [CommitCalls -> CommitRow]
  BY <1>1, <1>4 DEF Goto, CommitRow
<1>5. CASE Cleanup \/ Dispose \/ UploadsTick
  <2>1. CASE Cleanup
    BY <1>1, <2>1, PruneMoves DEF Cleanup
  <2>2. CASE Dispose
    BY <1>1, <2>2 DEF Dispose
  <2>3. CASE UploadsTick
    BY <1>1, <2>3 DEF UploadsTick
  <2> QED
    BY <1>5, <2>1, <2>2, <2>3
<1>6. ASSUME NEW h \in Handles, Removed(h) \/ DeleteUploaded(h)
      PROVE  Rows'
  BY <1>1, <1>6 DEF Removed, DeleteUploaded
<1>7. ASSUME NEW h \in Handles, CreateBegin(h)
      PROVE  Rows'
  BY <1>1, <1>7, PruneAwaited DEF CreateBegin
<1>8. ASSUME NEW h \in Handles, CreateEnd(h)
      PROVE  Rows'
  <2>1. Cardinality(Created) \in Nat
    BY FS_CardinalityType DEF UploadsInv
  <2>2. clock + IntentTtl \in Nat
    BY <1>1
  <2>3. intent' \in [Handles -> IntentRow]
    BY <1>1, <1>8, <2>1, <2>2 DEF CreateEnd, IntentRow, States
  <2> QED
    BY <1>1, <1>8, <2>3 DEF CreateEnd
<1>9. ASSUME NEW h \in Handles, ReceiveBegin(h)
      PROVE  Rows'
  BY <1>1, <1>9, PruneAwaited DEF ReceiveBegin, ReceivePlaces
<1>10. ASSUME NEW h \in Handles, ReceiveAdmit(h) \/ ReceiveDone(h)
       PROVE  Rows'
  <2>1. intent' \in [Handles -> IntentRow]
    BY <1>3, <1>10 DEF ReceiveAdmit, ReceiveDone, States
  <2> QED
    BY <1>1, <1>10, <2>1 DEF ReceiveAdmit, ReceiveDone, ReceivePlaces
<1>11. ASSUME NEW h \in Handles,
              ReceiveRefused(h) \/ ReceiveOpen(h) \/ ReceiveFail(h) \/ ReceiveFailed(h)
       PROVE  Rows'
  <2>1. CASE ReceiveRefused(h) \/ ReceiveFailed(h)
    BY <1>1, <2>1 DEF ReceiveRefused, ReceiveFailed, ReceivePlaces
  <2>2. CASE ReceiveOpen(h)
    BY <1>1, <2>2 DEF ReceiveOpen, ReceivePlaces, StoredAs
  <2>3. CASE ReceiveFail(h)
    BY <1>1, <2>3 DEF ReceiveFail, ReceivePlaces, Discarded
  <2> QED
    BY <1>11, <2>1, <2>2, <2>3
<1>12. ASSUME NEW c \in CommitCalls, NEW h \in Handles, CommitBegin(c, h)
       PROVE  Rows'
  <2>1. commit' \in [CommitCalls -> CommitRow]
    BY <1>1, <1>12 DEF CommitBegin, CommitRow, CommitPlaces
  <2> QED
    BY <1>1, <1>12, <2>1, PruneAwaited DEF CommitBegin
<1>13. ASSUME NEW c \in CommitCalls, CommitStep(c)
       PROVE  Rows'
  <2>1. commit' \in [CommitCalls -> CommitRow]
    BY <1>4, <1>13 DEF CommitStep, CommitRefused, CommitAdmit, CommitLink, CommitUnlink,
       CommitInspect, CommitInspectFails, CommitIssue, CommitPlaces
  <2>2. CASE CommitRefused(c) \/ CommitAdmit(c) \/ CommitInspectFails(c) \/ CommitIssue(c)
    BY <1>1, <2>1, <2>2 DEF CommitRefused, CommitAdmit, CommitInspectFails, CommitIssue
  <2>3. CASE CommitLink(c)
    BY <1>1, <2>1, <2>3 DEF CommitLink
  <2>4. CASE CommitUnlink(c) \/ CommitInspect(c)
    <3>1. Settled(commit[c].handle) /\ commit[c].handle \in Handles \cup {NoHandle}
      BY <1>1, <2>4 DEF CommitUnlink, CommitInspect, CommitRow
    <3>2. intent' \in [Handles -> IntentRow]
      BY <1>1, <3>1 DEF Settled, IntentRow, States
    <3> QED
      BY <1>1, <2>1, <2>4, <3>1, <3>2 DEF CommitUnlink, CommitInspect, Settled
  <2> QED
    BY <1>13, <2>2, <2>3, <2>4 DEF CommitStep
<1> QED
  BY <1>5, <1>6, <1>7, <1>8, <1>9, <1>10, <1>11, <1>12, <1>13 DEF UploadsNext
-----------------------------------------------------------------------------
(* What a step does to intents, transfers and commits. *)

\* Steps that only shrink the table, remove files, or wait.
Quiet(h) ==
  /\ UNCHANGED <<create, receive, intent>> /\ table' \subseteq table
  /\ files'[h] \subseteq files[h]

Moves(h) ==
  \/ CreateBegin(h) \/ CreateEnd(h) \/ ReceiveBegin(h) \/ ReceiveRefused(h)
  \/ ReceiveAdmit(h) \/ ReceiveOpen(h) \/ ReceiveDone(h) \/ ReceiveFail(h)
  \/ ReceiveFailed(h)

Settles(c) == CommitLink(c) \/ CommitUnlink(c) \/ CommitInspect(c)

\* All steps but those of a transfer and those that give an image its name are
\* such steps.
LEMMA QuietSteps ==
  ASSUME UploadsInv, UploadsNext,
         \A h \in Handles : ~Moves(h), \A c \in CommitCalls : ~Settles(c),
         NEW h \in Handles
  PROVE  Quiet(h)
<1> HIDE DEF Handles
<1>1. files \in [Handles -> SUBSET {"pending", "object"}]
  BY DEF UploadsInv, UploadsTypeOK
<1>2. ASSUME NEW g \in Handles, Removed(g) \/ DeleteUploaded(g)
      PROVE  Quiet(h)
  BY <1>1, <1>2 DEF Removed, DeleteUploaded, Quiet
<1>3. CASE Cleanup \/ Dispose \/ UploadsTick
  BY <1>3 DEF Cleanup, Dispose, UploadsTick, Quiet
<1>4. ASSUME NEW c \in CommitCalls, ~Settles(c),
             CommitStep(c) \/ \E g \in Handles : CommitBegin(c, g)
      PROVE  Quiet(h)
  BY <1>4 DEF CommitStep, CommitBegin, PruneFor, CommitRefused, CommitAdmit,
     CommitInspectFails, CommitIssue, Quiet, Settles
<1> QED
  BY <1>2, <1>3, <1>4 DEF UploadsNext, Moves

\* Intents go one way.
LEMMA IntentsStep == UploadsInv /\ UploadsNext => IntentsGoOn'
<1> SUFFICES ASSUME UploadsInv, UploadsNext, NEW h \in Handles PROVE GoesOn(h)'
  BY DEF IntentsGoOn
<1> HIDE DEF Handles
<1>1. /\ files \in [Handles -> SUBSET {"pending", "object"}]
      /\ intent \in [Handles -> IntentRow] /\ receive \in [Handles -> ReceivePlaces]
      /\ create \in [Handles -> {"none", "pruning", "done", "failed"}]
  BY DEF UploadsInv, UploadsTypeOK
<1>2. \A g \in Handles : GoesOn(g)
  BY DEF UploadsInv, IntentsGoOn
<1> USE DEF GoesOn, Inserted, Arrived
<1>3. ASSUME NEW g \in Handles, Moves(g)
      PROVE  GoesOn(h)'
  <2>1. CASE CreateBegin(g)
    BY <1>1, <1>2, <2>1 DEF CreateBegin, PruneFor
  <2>2. CASE CreateEnd(g)
    BY <1>1, <1>2, <2>2 DEF CreateEnd, IntentRow
  <2>3. CASE ReceiveBegin(g)
    BY <1>1, <1>2, <2>3 DEF ReceiveBegin, PruneFor
  <2>4. CASE ReceiveAdmit(g)
    BY <1>1, <1>2, <2>4 DEF ReceiveAdmit, Receivable, IntentRow
  <2>5. CASE ReceiveOpen(g)
    BY <1>1, <1>2, <2>5 DEF ReceiveOpen
  <2>6. CASE ReceiveDone(g)
    BY <1>1, <1>2, <2>6 DEF ReceiveDone, IntentRow
  <2>7. CASE ReceiveRefused(g) \/ ReceiveFail(g) \/ ReceiveFailed(g)
    BY <1>1, <1>2, <2>7 DEF ReceiveRefused, ReceiveFail, ReceiveFailed, Discarded
  <2> QED
    BY <1>3, <2>1, <2>2, <2>3, <2>4, <2>5, <2>6, <2>7 DEF Moves
<1>4. ASSUME NEW c \in CommitCalls, Settles(c)
      PROVE  GoesOn(h)'
  <2>1. Arrived(commit[c].handle) /\ commit[c].handle \in Handles
    BY <1>4 DEF UploadsInv, CommitsInPlace, CommitInPlace, Settles, CommitLink, CommitUnlink, CommitInspect,
       Handles
  <2>2. CASE CommitLink(c)
    BY <1>1, <1>2, <2>1, <2>2 DEF CommitLink
  <2>3. CASE CommitUnlink(c) \/ CommitInspect(c)
    BY <1>1, <1>2, <2>1, <2>3 DEF CommitUnlink, CommitInspect, Settled, IntentRow
  <2> QED
    BY <1>4, <2>2, <2>3 DEF Settles
<1>5. CASE Quiet(h)
  BY <1>1, <1>2, <1>5 DEF Quiet
<1> QED
  BY <1>3, <1>4, <1>5, QuietSteps

\* Transfers keep their intents.
LEMMA TransfersStep == UploadsInv /\ UploadsNext => TransfersKept'
<1> SUFFICES ASSUME UploadsInv, UploadsNext, NEW h \in Handles
             PROVE  TransferKept(h)'
  BY DEF TransfersKept
<1> HIDE DEF Handles
<1>1. /\ files \in [Handles -> SUBSET {"pending", "object"}]
      /\ receive \in [Handles -> ReceivePlaces]
  BY DEF UploadsInv, UploadsTypeOK
<1>2. \A g \in Handles : TransferKept(g)
  BY DEF UploadsInv, TransfersKept
<1> USE DEF TransferKept
<1>3. /\ receive[h] \in {"opening", "writing"} => Uploading(h)
      /\ Arrived(h) => receive[h] = "ended"
  BY DEF UploadsInv, IntentsGoOn, GoesOn, Uploading
<1>4. ASSUME table' = table \ Victims, removing' = removing \cup Victims,
             UNCHANGED <<files, receive, disposed>>
      PROVE  TransferKept(h)'
  BY <1>2, <1>3, <1>4, PruneMoves
<1>5. CASE \/ Cleanup \/ \E g \in Handles : CreateBegin(g)
           \/ \E c \in CommitCalls, g \in Handles : CommitBegin(c, g)
  BY <1>4, <1>5 DEF Cleanup, CreateBegin, CommitBegin, PruneFor
<1>6. CASE Dispose \/ UploadsTick
  BY <1>2, <1>6 DEF Dispose, UploadsTick
<1>7. ASSUME NEW g \in Handles, Removed(g)
      PROVE  TransferKept(h)'
  <2>1. g \notin LocalHandles => "pending" \notin files[g]
    BY DEF UploadsInv, ImagesInPlace, ImageInPlace, Handles
  <2>2. "pending" \notin files'[g] /\ \A f \in Handles : f # g => files'[f] = files[f]
    BY <1>1, <1>7, <2>1 DEF Removed, StoredAs
  <2> QED
    BY <1>2, <1>7, <2>2 DEF Removed
<1>8. ASSUME NEW g \in Handles, CreateEnd(g) \/ DeleteUploaded(g)
      PROVE  TransferKept(h)'
  BY <1>1, <1>2, <1>8 DEF CreateEnd, DeleteUploaded
<1>9. ASSUME NEW g \in Handles, ReceiveBegin(g)
      PROVE  TransferKept(h)'
  BY <1>1, <1>2, <1>3, <1>9, PruneMoves DEF ReceiveBegin, PruneFor
<1>10. ASSUME NEW g \in Handles,
              \/ ReceiveRefused(g) \/ ReceiveAdmit(g) \/ ReceiveOpen(g) \/ ReceiveDone(g)
              \/ ReceiveFail(g) \/ ReceiveFailed(g)
       PROVE  TransferKept(h)'
  BY <1>1, <1>2, <1>10 DEF ReceiveRefused, ReceiveAdmit, Receivable, Owned, ReceiveOpen,
     ReceiveDone, ReceiveFail, Discarded, ReceiveFailed
<1>11. ASSUME NEW c \in CommitCalls, CommitStep(c), ~Settles(c)
       PROVE  TransferKept(h)'
  BY <1>2, <1>11 DEF CommitStep, Settles, CommitRefused, CommitAdmit, CommitInspectFails,
     CommitIssue
<1>12. ASSUME NEW c \in CommitCalls, Settles(c)
       PROVE  TransferKept(h)'
  <2>1. Arrived(commit[c].handle)
    BY <1>12 DEF UploadsInv, CommitsInPlace, CommitInPlace, Settles, CommitLink, CommitUnlink, CommitInspect
  <2>2. UNCHANGED <<receive, removing, disposed>> /\ table \ {commit[c].handle} \subseteq table'
    BY <1>12 DEF Settles, CommitLink, CommitUnlink, CommitInspect, Settled
  <2>3. "pending" \in files'[h] => "pending" \in files[h]
    BY <1>1, <1>12 DEF Settles, CommitLink, CommitUnlink, CommitInspect
  <2> QED
    BY <1>2, <1>3, <2>1, <2>2, <2>3
<1> QED
  BY <1>5, <1>6, <1>7, <1>8, <1>9, <1>10, <1>11, <1>12 DEF UploadsNext

\* What has arrived stays so.
LEMMA ArrivedStay ==
  ASSUME UploadsInv, UploadsNext, NEW h \in Handles, Arrived(h)
  PROVE  Arrived(h)'
<1> HIDE DEF Handles
<1>1. intent \in [Handles -> IntentRow] /\ GoesOn(h)
  BY DEF UploadsInv, UploadsTypeOK, IntentsGoOn
<1>2. receive[h] = "ended" /\ Inserted(h)
  BY <1>1 DEF GoesOn, Arrived
<1>3. ASSUME NEW g \in Handles, CreateEnd(g) \/ ReceiveAdmit(g) \/ ReceiveDone(g)
      PROVE  Arrived(h)'
  BY <1>1, <1>2, <1>3 DEF CreateEnd, ReceiveAdmit, ReceiveDone, Arrived, Inserted, IntentRow
<1>4. ASSUME NEW c \in CommitCalls, CommitUnlink(c) \/ CommitInspect(c)
      PROVE  Arrived(h)'
  BY <1>1, <1>4 DEF CommitUnlink, CommitInspect, Settled, Arrived, IntentRow
<1>5. CASE UNCHANGED intent
  BY <1>5 DEF Arrived
<1> QED
  BY <1>3, <1>4, <1>5 DEF UploadsNext, Cleanup, Dispose, UploadsTick, Removed, DeleteUploaded,
     CreateBegin, ReceiveBegin, ReceiveRefused, ReceiveOpen, ReceiveFail,
     ReceiveFailed, CommitBegin, CommitStep, CommitRefused, CommitAdmit, CommitLink,
     CommitInspectFails, CommitIssue

\* Commits are where their uploads allow.
LEMMA CommitsStep == UploadsInv /\ UploadsNext => CommitsInPlace'
<1> SUFFICES ASSUME UploadsInv, UploadsNext, NEW c \in CommitCalls PROVE CommitInPlace(c)'
  BY DEF CommitsInPlace
<1>1. commit \in [CommitCalls -> CommitRow] /\ CommitInPlace(c)
  BY DEF UploadsInv, UploadsTypeOK, CommitsInPlace
<1>2. \A h \in Handles : Arrived(h) => Arrived(h)'
  BY ArrivedStay
<1> HIDE DEF Handles
<1>3. ASSUME commit'[c] = commit[c]
      PROVE  CommitInPlace(c)'
  <2>1. commit[c].handle \in Handles \cup {NoHandle}
    BY <1>1 DEF CommitRow
  <2>2. commit[c].at \in {"linking", "unlinking", "inspecting", "issuing", "published"}
          => commit[c].handle \in Handles
    BY <1>1, <2>1 DEF CommitInPlace
  <2> QED
    BY <1>1, <1>2, <1>3, <2>2 DEF CommitInPlace, Arrived
<1>4. ASSUME NEW d \in CommitCalls, NEW place \in CommitPlaces, Goto(d, place),
             d = c => /\ place # "idle" /\ commit[c].at # "idle"
                      /\ place \in {"linking", "unlinking"} => commit[c].handle \in LocalHandles
                      /\ place = "inspecting" => commit[c].handle \in RemoteHandles
                      /\ place # "failed" => Arrived(commit[c].handle)
      PROVE  CommitInPlace(c)'
  <2>1. CASE d = c
    <3>1. commit'[c].at = place /\ commit'[c].handle = commit[c].handle
      BY <1>1, <1>4, <2>1 DEF Goto, CommitRow
    <3>2. commit[c].handle \in Handles
      BY <1>1, <1>4, <2>1 DEF CommitInPlace, CommitRow
    <3> QED
      BY <1>1, <1>2, <1>4, <2>1, <3>1, <3>2 DEF CommitInPlace, Arrived
  <2>2. CASE d # c
    BY <1>1, <1>3, <1>4, <2>2 DEF Goto
  <2> QED
    BY <2>1, <2>2
<1>5. ASSUME NEW d \in CommitCalls, CommitStep(d)
      PROVE  CommitInPlace(c)'
  <2>1. /\ commit[d].handle \in Handles \cup {NoHandle}
        /\ CommitInPlace(d)
    BY <1>1 DEF CommitRow, UploadsInv, CommitsInPlace
  <2> USE DEF CommitPlaces
  <2>2. CASE CommitRefused(d) \/ CommitInspectFails(d)
    BY <1>4, <2>2 DEF CommitRefused, CommitInspectFails
  <2>3. CASE CommitAdmit(d)
    <3>1. commit[d].handle \in Handles
      BY <2>1, <2>3 DEF CommitAdmit, CommitInPlace
    <3>2. Arrived(commit[d].handle)
      BY <2>3 DEF CommitAdmit, Committable, Arrived
    <3> QED
      BY <1>4, <2>3, <3>1, <3>2 DEF CommitAdmit, Handles
  <2>4. CASE CommitLink(d)
    BY <1>4, <2>1, <2>4 DEF CommitLink, CommitInPlace
  <2>5. CASE CommitUnlink(d) \/ CommitInspect(d)
    BY <1>4, <2>1, <2>5 DEF CommitUnlink, CommitInspect, CommitInPlace
  <2>6. CASE CommitIssue(d)
    BY <1>4, <2>1, <2>6 DEF CommitIssue, CommitInPlace
  <2> QED
    BY <1>5, <2>2, <2>3, <2>4, <2>5, <2>6 DEF CommitStep
<1>6. ASSUME NEW d \in CommitCalls, NEW g \in Handles, CommitBegin(d, g)
      PROVE  CommitInPlace(c)'
  BY <1>1, <1>3, <1>6 DEF CommitBegin, CommitInPlace
<1>7. CASE UNCHANGED commit
  BY <1>3, <1>7
<1> QED
  BY <1>5, <1>6, <1>7 DEF UploadsNext, Cleanup, Dispose, UploadsTick, Removed,
     DeleteUploaded, CreateBegin, CreateEnd, ReceiveBegin, ReceiveRefused, ReceiveAdmit,
     ReceiveOpen, ReceiveDone, ReceiveFail, ReceiveFailed

\* A pending file comes from a transfer that begins, a name from a commit of
\* what has arrived; a local image loses its name only to its owner.
FilesMove(h) ==
  /\ files'[h] \subseteq {"pending", "object"}
  /\ "pending" \in files'[h] \ files[h] => h \in LocalHandles /\ receive[h] = "opening"
  /\ h \in deleted => h \in deleted'
  /\ h \in LocalHandles =>
       /\ "object" \in files'[h] \ files[h] => Arrived(h) /\ "pending" \in files[h]
       /\ "object" \in files[h] \ files'[h] => h \in deleted'
       /\ h \in deleted' \ deleted =>
            /\ "object" \notin files'[h]
            /\ \E c \in CommitCalls : commit[c].at = "published" /\ commit[c].handle = h

LEMMA FilesSteps == UploadsInv /\ UploadsNext => \A h \in Handles : FilesMove(h)
<1> SUFFICES ASSUME UploadsInv, UploadsNext, NEW h \in Handles PROVE FilesMove(h)
  OBVIOUS
<1>1. files \in [Handles -> SUBSET {"pending", "object"}]
  BY DEF UploadsInv, UploadsTypeOK
<1>2. ASSUME NEW g \in Handles, Removed(g) \/ ReceiveOpen(g)
      PROVE  FilesMove(h)
  BY <1>1, <1>2 DEF Removed, ReceiveOpen, StoredAs, FilesMove
<1>3. ASSUME NEW g \in Handles, DeleteUploaded(g)
      PROVE  FilesMove(h)
  BY <1>1, <1>3 DEF DeleteUploaded, FilesMove
<1>4. ASSUME NEW c \in CommitCalls, CommitLink(c) \/ CommitUnlink(c)
      PROVE  FilesMove(h)
  <2>1. /\ CommitInPlace(c) /\ UNCHANGED deleted
        /\ commit[c].at \in {"linking", "unlinking"}
    BY <1>4 DEF UploadsInv, CommitsInPlace, CommitLink, CommitUnlink
  <2>2. commit[c].handle \in LocalHandles /\ Arrived(commit[c].handle)
    BY <2>1 DEF CommitInPlace
  <2>3. CASE CommitLink(c)
    BY <1>1, <2>1, <2>2, <2>3 DEF CommitLink, Linkable, FilesMove
  <2>4. CASE CommitUnlink(c)
    BY <1>1, <2>1, <2>2, <2>4 DEF CommitUnlink, FilesMove
  <2> QED
    BY <1>4, <2>3, <2>4
<1>5. CASE UNCHANGED <<files, deleted>>
  BY <1>1, <1>5 DEF FilesMove
<1> QED
  BY <1>2, <1>3, <1>4, <1>5 DEF UploadsNext, Cleanup, Dispose, UploadsTick, CreateBegin,
     CreateEnd, ReceiveBegin, ReceiveRefused, ReceiveAdmit, ReceiveDone, ReceiveFail,
     ReceiveFailed, CommitBegin, CommitStep, CommitRefused, CommitAdmit, CommitInspect,
     CommitInspectFails, CommitIssue

\* Files with a name, deleted ones and committed ones are as they should be.
LEMMA ImagesStep == UploadsInv /\ UploadsNext => ImagesInPlace'
<1> SUFFICES ASSUME UploadsInv, UploadsNext PROVE ImagesInPlace'
  OBVIOUS
<1>1. /\ \A h \in Handles : GoesOn(h) /\ ImageInPlace(h) /\ FilesMove(h)
      /\ \A h \in Handles : Arrived(h) => Arrived(h)'
      /\ \A c \in CommitCalls : CommitInPlace(c) /\ CommittedInPlace(c)
      /\ files \in [Handles -> SUBSET {"pending", "object"}]
      /\ commit \in [CommitCalls -> CommitRow]
  BY FilesSteps, ArrivedStay DEF UploadsInv, UploadsTypeOK, IntentsGoOn, CommitsInPlace,
     ImagesInPlace
<1>2. ASSUME NEW h \in Handles
      PROVE  ImageInPlace(h)'
  <2>1. CASE h \in RemoteHandles
    BY <1>1, <2>1 DEF ImageInPlace, FilesMove
  <2>2. ASSUME h \in LocalHandles, h \in deleted' \ deleted
        PROVE  ImageInPlace(h)'
    <3>1. PICK c \in CommitCalls : commit[c].at = "published" /\ commit[c].handle = h
      BY <1>1, <2>2 DEF FilesMove
    <3>2. Arrived(h) /\ "pending" \notin files[h]
      BY <1>1, <2>2, <3>1 DEF CommitInPlace, CommittedInPlace, Local
    <3>3. "pending" \notin files'[h] /\ "object" \notin files'[h]
      BY <1>1, <2>2, <3>2 DEF FilesMove, GoesOn
    <3>4. files'[h] = {}
      BY <1>1, <3>3 DEF FilesMove
    <3> QED
      BY <1>1, <2>2, <3>2, <3>4 DEF ImageInPlace
  <2>3. ASSUME h \in LocalHandles, h \notin deleted' \ deleted
        PROVE  ImageInPlace(h)'
    <3>1. "object" \in files'[h] \/ h \in deleted' => Arrived(h)'
      BY <1>1, <2>3 DEF ImageInPlace, FilesMove
    <3>2. ASSUME h \in deleted
          PROVE  files'[h] = {}
      <4>1. files[h] = {} /\ receive[h] = "ended"
        BY <1>1, <2>3, <3>2 DEF ImageInPlace, GoesOn
      <4> QED
        BY <1>1, <2>3, <4>1 DEF FilesMove
    <3> QED
      BY <2>3, <3>1, <3>2 DEF ImageInPlace
  <2> QED
    BY <2>1, <2>2, <2>3 DEF Handles
<1>3. ASSUME NEW c \in CommitCalls
      PROVE  CommittedInPlace(c)'
  <2> DEFINE g == commit[c].handle
  <2>1. ASSUME g \in LocalHandles,
               "object" \in files[g] \/ g \in deleted
        PROVE  "object" \in files'[g] \/ g \in deleted'
    BY <1>1, <2>1 DEF FilesMove
  <2>2. ASSUME g \in LocalHandles, Arrived(g), "pending" \notin files[g]
        PROVE  "pending" \notin files'[g]
    BY <1>1, <2>2 DEF FilesMove, GoesOn
  <2>3. CASE commit'[c] = commit[c]
    BY <1>1, <2>1, <2>2, <2>3 DEF CommittedInPlace, CommitInPlace, Local
  <2>4. CASE CommitStep(c)
    <3>1. commit'[c].handle = g
      BY <1>1, <2>4 DEF CommitStep, CommitRefused, CommitAdmit, CommitLink, CommitUnlink,
         CommitInspect, CommitInspectFails, CommitIssue, Goto, CommitRow
    <3>2. CASE CommitRefused(c) \/ CommitInspectFails(c) \/ CommitAdmit(c)
      BY <1>1, <3>2 DEF CommitRefused, CommitAdmit, CommitInspectFails, Goto, CommitRow,
         CommittedInPlace
    <3>3. CASE CommitInspect(c)
      BY <1>1, <3>1, <3>3 DEF CommitInspect, CommitInPlace, CommittedInPlace, Local
    <3>4. CASE CommitLink(c)
      <4>1. /\ commit'[c].at = "failed" \/ "object" \in files'[g]
            /\ commit'[c].at \in {"failed", "unlinking"}
        BY <1>1, <3>4 DEF CommitLink, Goto, CommitRow, CommitInPlace
      <4> QED
        BY <3>1, <4>1 DEF CommittedInPlace
    <3>5. CASE CommitUnlink(c)
      <4>1. g \in LocalHandles /\ ("object" \in files[g] \/ g \in deleted)
        BY <1>1, <3>5 DEF CommitUnlink, CommitInPlace, CommittedInPlace, Local
      <4>2. "pending" \notin files'[g]
        BY <1>1, <3>5, <4>1 DEF CommitUnlink
      <4> QED
        BY <2>1, <3>1, <4>1, <4>2 DEF CommittedInPlace
    <3>6. CASE CommitIssue(c)
      <4>1. commit[c].at = "issuing" /\ Arrived(g)
        BY <1>1, <3>6 DEF CommitIssue, CommitInPlace
      <4>2. ASSUME g \in LocalHandles
            PROVE  /\ "object" \in files'[g] \/ g \in deleted'
                   /\ "pending" \notin files'[g]
        BY <1>1, <2>1, <2>2, <4>1, <4>2 DEF CommittedInPlace, Local
      <4> QED
        BY <3>1, <4>2 DEF CommittedInPlace, Local
    <3> QED
      BY <2>4, <3>2, <3>3, <3>4, <3>5, <3>6 DEF CommitStep
  <2>5. ASSUME NEW h \in Handles, CommitBegin(c, h)
        PROVE  CommittedInPlace(c)'
    BY <1>1, <2>5 DEF CommitBegin, CommittedInPlace
  <2>6. commit'[c] = commit[c] \/ CommitStep(c) \/ \E h \in Handles : CommitBegin(c, h)
    <3>1. ASSUME NEW d \in CommitCalls, CommitStep(d), d # c
          PROVE  commit'[c] = commit[c]
      BY <1>1, <3>1 DEF CommitStep, CommitRefused, CommitAdmit, CommitLink, CommitUnlink,
         CommitInspect, CommitInspectFails, CommitIssue, Goto
    <3>2. ASSUME NEW d \in CommitCalls, NEW h \in Handles, CommitBegin(d, h), d # c
          PROVE  commit'[c] = commit[c]
      BY <1>1, <3>2 DEF CommitBegin
    <3>3. CASE UNCHANGED commit
      BY <3>3
    <3> QED
      BY <3>1, <3>2, <3>3 DEF UploadsNext, Cleanup, Dispose, UploadsTick, Removed,
         DeleteUploaded, CreateBegin, CreateEnd, ReceiveBegin, ReceiveRefused, ReceiveAdmit,
         ReceiveOpen, ReceiveDone, ReceiveFail, ReceiveFailed
  <2> QED
    BY <2>3, <2>4, <2>5, <2>6
<1> QED
  BY <1>2, <1>3 DEF ImagesInPlace

\* Somebody comes back to a pending file.
Accounted(h) ==
  \/ h \in table \cup removing
  \/ h \in Active
  \/ \E c \in CommitCalls : commit[c].at = "unlinking" /\ commit[c].handle = h

LEMMA PendingStep == UploadsInv /\ UploadsNext => PendingFilesAccounted'
<1> SUFFICES ASSUME UploadsInv, UploadsNext, ~disposed', NEW h \in Handles,
                    "pending" \in files'[h]
             PROVE  Accounted(h)'
  BY DEF PendingFilesAccounted, Accounted
<1> HIDE DEF Handles
<1>1. /\ files \in [Handles -> SUBSET {"pending", "object"}]
      /\ receive \in [Handles -> ReceivePlaces]
      /\ commit \in [CommitCalls -> CommitRow]
      /\ GoesOn(h) /\ ImageInPlace(h) /\ TransferKept(h) /\ FilesMove(h)
      /\ ~disposed => ("pending" \in files[h] => Accounted(h))
  BY FilesSteps DEF UploadsInv, UploadsTypeOK, IntentsGoOn, ImagesInPlace, TransfersKept,
     PendingFilesAccounted, Accounted
<1>2. ~disposed
  BY DEF UploadsNext, Cleanup, Dispose, UploadsTick, Removed, DeleteUploaded, CreateBegin,
     CreateEnd, ReceiveBegin, ReceiveRefused, ReceiveAdmit, ReceiveOpen, ReceiveDone,
     ReceiveFail, ReceiveFailed, CommitBegin, CommitStep, CommitRefused, CommitAdmit,
     CommitLink, CommitUnlink, CommitInspect, CommitInspectFails, CommitIssue
<1>3. ASSUME NEW g \in Handles, ReceiveOpen(g)
      PROVE  Accounted(h)'
  BY <1>1, <1>2, <1>3 DEF ReceiveOpen, Active, Accounted
<1>4. ASSUME ~\E g \in Handles : ReceiveOpen(g)
      PROVE  "pending" \in files[h] /\ Accounted(h)
  <2>1. receive[h] = "opening" => h \in table
    BY <1>1, <1>2 DEF TransferKept
  <2>2. "pending" \in files[h]
    <3>1. ASSUME NEW g \in Handles, Removed(g) \/ DeleteUploaded(g)
          PROVE  "pending" \in files[h]
      BY <1>1, <3>1 DEF Removed, DeleteUploaded
    <3>2. ASSUME NEW c \in CommitCalls, CommitLink(c) \/ CommitUnlink(c)
          PROVE  "pending" \in files[h]
      BY <1>1, <3>2 DEF CommitLink, CommitUnlink
    <3> QED
      BY <1>4, <3>1, <3>2 DEF UploadsNext, Cleanup, Dispose, UploadsTick, CreateBegin,
         CreateEnd, ReceiveBegin, ReceiveRefused, ReceiveAdmit, ReceiveDone, ReceiveFail,
         ReceiveFailed, CommitBegin, CommitStep, CommitRefused, CommitAdmit, CommitInspect,
         CommitInspectFails, CommitIssue
  <2> QED
    BY <1>1, <1>2, <2>2
<1> SUFFICES ASSUME "pending" \in files[h], Accounted(h) PROVE Accounted(h)'
  BY <1>3, <1>4
<1>5. ASSUME table \cup removing \subseteq table' \cup removing',
             UNCHANGED <<receive, commit>>
      PROVE  Accounted(h)'
  BY <1>5 DEF Accounted, Active
<1>6. ASSUME table' = table \ Victims, removing' = removing \cup Victims
      PROVE  table \cup removing \subseteq table' \cup removing'
  BY <1>6, PruneMoves
<1>7. CASE Cleanup \/ UploadsTick \/ \E g \in Handles : CreateBegin(g)
  BY <1>5, <1>6, <1>7 DEF Cleanup, UploadsTick, CreateBegin, PruneFor
<1>8. ASSUME NEW g \in Handles, CreateEnd(g) \/ DeleteUploaded(g)
      PROVE  Accounted(h)'
  BY <1>5, <1>8 DEF CreateEnd, DeleteUploaded
<1>9. ASSUME NEW g \in Handles, Removed(g)
      PROVE  Accounted(h)'
  <2>1. h # g
    BY <1>1, <1>9 DEF Removed, StoredAs, ImageInPlace, Handles
  <2> QED
    BY <1>9, <2>1 DEF Removed, Accounted, Active
<1>10. ASSUME NEW g \in Handles,
              \/ ReceiveBegin(g) \/ ReceiveRefused(g) \/ ReceiveAdmit(g) \/ ReceiveOpen(g)
              \/ ReceiveDone(g) \/ ReceiveFail(g) \/ ReceiveFailed(g)
       PROVE  Accounted(h)'
  <2>1. UNCHANGED commit
    BY <1>10 DEF ReceiveBegin, ReceiveRefused, ReceiveAdmit, ReceiveOpen, ReceiveDone,
       ReceiveFail, ReceiveFailed
  <2>2. CASE ReceiveBegin(g)
    <3>1. table \cup removing \subseteq table' \cup removing'
      BY <1>6, <2>2 DEF ReceiveBegin, PruneFor
    <3>2. h \in Active => h \in Active'
      BY <1>1, <2>2 DEF ReceiveBegin, Active
    <3> QED
      BY <2>1, <3>1, <3>2 DEF Accounted
  <2>3. CASE ReceiveRefused(g) \/ ReceiveAdmit(g) \/ ReceiveOpen(g)
    <3>1. UNCHANGED <<table, removing>>
      BY <2>3 DEF ReceiveRefused, ReceiveAdmit, ReceiveOpen
    <3>2. h \in Active => h \in Active'
      BY <1>1, <2>3 DEF ReceiveRefused, ReceiveAdmit, ReceiveOpen, Active
    <3> QED
      BY <2>1, <3>1, <3>2 DEF Accounted
  <2>4. CASE ReceiveDone(g) \/ ReceiveFailed(g)
    <3>1. UNCHANGED <<table, removing>>
      BY <2>4 DEF ReceiveDone, ReceiveFailed
    <3>2. h \in Active => h \in Active' \/ h \in table \cup removing
      BY <1>1, <1>2, <2>4 DEF ReceiveDone, ReceiveFailed, Active, TransferKept
    <3> QED
      BY <2>1, <3>1, <3>2 DEF Accounted
  <2>5. CASE ReceiveFail(g)
    <3>1. table \cup removing \subseteq table' \cup removing'
      BY <2>5 DEF ReceiveFail, Discarded
    <3>2. h \in Active => h \in Active'
      BY <1>1, <2>5 DEF ReceiveFail, Active
    <3> QED
      BY <2>1, <3>1, <3>2 DEF Accounted
  <2> QED
    BY <1>10, <2>2, <2>3, <2>4, <2>5
<1>11. ASSUME NEW c \in CommitCalls, NEW g \in Handles, CommitBegin(c, g)
       PROVE  Accounted(h)'
  <2>1. table \cup removing \subseteq table' \cup removing' /\ UNCHANGED receive
    BY <1>6, <1>11 DEF CommitBegin, PruneFor
  <2>2. \A d \in CommitCalls : commit[d].at = "unlinking" => commit'[d] = commit[d]
    BY <1>1, <1>11 DEF CommitBegin
  <2> QED
    BY <2>1, <2>2 DEF Accounted, Active
<1>12. ASSUME NEW c \in CommitCalls, CommitStep(c)
       PROVE  Accounted(h)'
  <2>1. UNCHANGED <<receive, removing>>
    BY <1>12 DEF CommitStep, CommitRefused, CommitAdmit, CommitLink, CommitUnlink,
       CommitInspect, CommitInspectFails, CommitIssue
  <2>2. CASE CommitUnlink(c)
    <3>1. h # commit[c].handle
      BY <1>1, <2>2 DEF CommitUnlink
    <3>2. /\ h \in table => h \in table'
          /\ \A d \in CommitCalls : d # c => commit'[d] = commit[d]
      BY <1>1, <2>2, <3>1 DEF CommitUnlink, Settled, Goto
    <3> QED
      BY <2>1, <3>1, <3>2 DEF Accounted, Active
  <2>3. CASE CommitInspect(c)
    <3>1. CommitInPlace(c)
      BY DEF UploadsInv, CommitsInPlace
    <3>2. h # commit[c].handle
      BY <1>1, <2>3, <3>1 DEF CommitInspect, CommitInPlace, ImageInPlace
    <3>3. /\ h \in table => h \in table'
          /\ \A d \in CommitCalls : commit[d].at = "unlinking" => commit'[d] = commit[d]
      BY <1>1, <2>3, <3>2 DEF CommitInspect, Settled, Goto
    <3> QED
      BY <2>1, <3>3 DEF Accounted, Active
  <2>4. CASE \/ CommitRefused(c) \/ CommitAdmit(c) \/ CommitLink(c) \/ CommitInspectFails(c)
             \/ CommitIssue(c)
    <3>1. /\ table' = table
          /\ \A d \in CommitCalls : commit[d].at = "unlinking" => commit'[d] = commit[d]
      BY <1>1, <2>4 DEF CommitRefused, CommitAdmit, CommitLink, CommitInspectFails,
         CommitIssue, Goto
    <3> QED
      BY <2>1, <3>1 DEF Accounted, Active
  <2> QED
    BY <1>12, <2>2, <2>3, <2>4 DEF CommitStep
<1>13. ~Dispose
  BY DEF Dispose
<1> QED
  BY <1>7, <1>8, <1>9, <1>10, <1>11, <1>12, <1>13 DEF UploadsNext
-----------------------------------------------------------------------------
\* The inductive invariant of the store holds in every reachable state.
LEMMA UploadsInductive == UploadsSpec => []UploadsInv
<1>1. UploadsInit => UploadsInv
  <2> SUFFICES ASSUME UploadsInit PROVE UploadsInv
    OBVIOUS
  <2> HIDE DEF Handles
  <2> USE DEF UploadsInit
  <2>1. Active = {} /\ Created = {}
    BY DEF Active, Created
  <2>2. /\ IsFiniteSet(Active) /\ IsFiniteSet(Created) /\ Cardinality(Active) <= MaxConcurrent
    BY <2>1, FS_EmptySet
  <2>3. UploadsTypeOK
    BY <2>2 DEF UploadsTypeOK, IntentRow, CommitRow, States, ReceivePlaces, CommitPlaces
  <2>4. IntentsGoOn /\ TransfersKept
    BY DEF IntentsGoOn, GoesOn, Inserted, Arrived, TransfersKept, TransferKept
  <2>5. CommitsInPlace /\ ImagesInPlace /\ PendingFilesAccounted
    BY DEF CommitsInPlace, CommitInPlace, ImagesInPlace, ImageInPlace, CommittedInPlace,
       PendingFilesAccounted, Local
  <2> QED
    BY <2>2, <2>3, <2>4, <2>5 DEF UploadsInv
<1>2. UploadsInv /\ [UploadsNext]_uploadVars => UploadsInv'
  <2>1. CASE UploadsNext
    BY <2>1, TransfersLimited, CreatedFinite, UploadTypes, IntentsStep, TransfersStep,
       CommitsStep, ImagesStep, PendingStep DEF UploadsInv
  <2>2. CASE UNCHANGED uploadVars
    <3> HIDE DEF Handles
    <3>1. /\ IntentsGoOn' = IntentsGoOn /\ TransfersKept' = TransfersKept
          /\ CommitsInPlace' = CommitsInPlace /\ ImagesInPlace' = ImagesInPlace
          /\ PendingFilesAccounted' = PendingFilesAccounted
          /\ Active' = Active /\ Created' = Created /\ UploadsTypeOK' = UploadsTypeOK
      BY <2>2 DEF uploadVars, IntentsGoOn, GoesOn, Inserted, Arrived, TransfersKept,
         TransferKept, CommitsInPlace, CommitInPlace, ImagesInPlace, ImageInPlace,
         CommittedInPlace, PendingFilesAccounted, Local, Active, Created, UploadsTypeOK
    <3> QED
      BY <3>1 DEF UploadsInv
  <2> QED
    BY <2>1, <2>2
<1> QED
  BY <1>1, <1>2, PTL DEF UploadsSpec

\* backend/uploads.mjs keeps at most as many transfers open as it was told, and
\* its records keep their types.
THEOREM UploadsTypeCorrect == UploadsSpec => []UploadsTypeOK
<1>1. UploadsInv => UploadsTypeOK
  BY DEF UploadsInv
<1> QED
  BY <1>1, UploadsInductive, PTL

\* Until backend/uploads.mjs is disposed of, no pending file is forgotten: its
\* intent, its transfer, its removal or a commit comes back to it.
THEOREM NoFileForgotten == UploadsSpec => []PendingFilesAccounted
<1>1. UploadsInv => PendingFilesAccounted
  BY DEF UploadsInv
<1> QED
  BY <1>1, UploadsInductive, PTL
-----------------------------------------------------------------------------
(* The store keeps UploadPromise. *)

Images == [h \in LocalHandles |-> ImageOf(h)]
Outcomes == [c \in CommitCalls |-> OutcomeOf(c)]
Targets == [c \in CommitCalls |-> IF Local(c) THEN commit[c].handle ELSE NoHandle]

\* An image changes with one of four steps, and as the promise has it.
ImageMoves(h) ==
  \/ ImageOf(h)' = ImageOf(h)
  \/ ReceiveDone(h) /\ ImageOf(h) = "none" /\ ImageOf(h)' = "uploaded"
  \/ Removed(h) /\ ImageOf(h) = "uploaded" /\ ImageOf(h)' = "dropped"
  \/ DeleteUploaded(h) /\ ImageOf(h) = "published" /\ ImageOf(h)' = "deleted"
  \/ /\ \E c \in CommitCalls : CommitLink(c) /\ commit[c].handle = h /\ Linkable(h)
     /\ ImageOf(h) = "uploaded" /\ ImageOf(h)' = "published"

LEMMA ImagesMove ==
  ASSUME UploadsInv, UploadsNext, NEW h \in LocalHandles
  PROVE  ImageMoves(h)
<1>1. /\ h \in Handles /\ files \in [Handles -> SUBSET {"pending", "object"}]
      /\ intent \in [Handles -> IntentRow] /\ receive \in [Handles -> ReceivePlaces]
      /\ GoesOn(h) /\ ImageInPlace(h)
      /\ \A c \in CommitCalls : CommitInPlace(c) /\ CommittedInPlace(c)
  BY DEF UploadsInv, UploadsTypeOK, IntentsGoOn, ImagesInPlace, CommitsInPlace
<1>2. ASSUME h \in deleted' <=> h \in deleted,
             "object" \in files'[h] <=> "object" \in files[h],
             Arrived(h)' <=> Arrived(h),
             Arrived(h) /\ "object" \notin files[h] /\ h \notin deleted
               => ("pending" \in files'[h] <=> "pending" \in files[h])
      PROVE  ImageOf(h)' = ImageOf(h)
  <2>1. intent[h].state \in States /\ intent'[h].state \in States
    BY <1>1, UploadTypes DEF UploadsTypeOK, IntentRow
  <2> QED
    BY <1>2, <2>1 DEF ImageOf, Arrived, States
<1> HIDE DEF Handles
<1>3. ASSUME NEW g \in Handles, Removed(g)
      PROVE  ImageMoves(h)
  <2>1. /\ UNCHANGED <<intent, deleted>>
        /\ "object" \in files'[h] <=> "object" \in files[h]
        /\ h # g => files'[h] = files[h]
    BY <1>1, <1>3 DEF Removed, StoredAs
  <2>2. CASE Arrived(h) /\ "object" \notin files[h] /\ h \notin deleted /\ g = h
             /\ "pending" \in files[h] /\ "pending" \notin files'[h]
    BY <1>3, <2>1, <2>2 DEF ImageMoves, ImageOf, Arrived
  <2>3. CASE ~(Arrived(h) /\ "object" \notin files[h] /\ h \notin deleted /\ g = h
               /\ "pending" \in files[h] /\ "pending" \notin files'[h])
    <3>1. "pending" \in files'[h] => "pending" \in files[h]
      BY <1>1, <1>3 DEF Removed
    <3> QED
      BY <1>2, <2>1, <2>3, <3>1 DEF ImageMoves, Arrived
  <2> QED
    BY <2>2, <2>3
<1>4. ASSUME NEW g \in Handles, DeleteUploaded(g)
      PROVE  ImageMoves(h)
  <2>1. CASE g = h
    <3>1. PICK c \in CommitCalls : commit[c].at = "published" /\ commit[c].handle = h
      BY <1>4, <2>1 DEF DeleteUploaded
    <3>2. h \notin deleted /\ "object" \in files[h] /\ h \in deleted'
      BY <1>1, <1>4, <2>1, <3>1 DEF DeleteUploaded, CommittedInPlace, Local
    <3> QED
      BY <1>4, <2>1, <3>2 DEF ImageMoves, ImageOf
  <2>2. CASE g # h
    BY <1>1, <1>2, <1>4, <2>2 DEF DeleteUploaded, ImageMoves, Arrived
  <2> QED
    BY <2>1, <2>2
<1>5. ASSUME NEW g \in Handles, ReceiveDone(g)
      PROVE  ImageMoves(h)
  <2>1. CASE g = h
    <3>1. receive[h] = "writing" /\ "pending" \in files[h] /\ UNCHANGED <<files, deleted>>
      BY <1>5, <2>1 DEF ReceiveDone
    <3>2. intent[h].state = "uploading" /\ intent'[h].state = "uploaded"
      BY <1>1, <1>5, <2>1, <3>1 DEF ReceiveDone, GoesOn, IntentRow
    <3>3. h \notin deleted /\ "object" \notin files[h]
      BY <1>1, <3>2 DEF ImageInPlace, Arrived
    <3> QED
      BY <1>5, <2>1, <3>1, <3>2, <3>3 DEF ImageMoves, ImageOf
  <2>2. CASE g # h
    BY <1>1, <1>2, <1>5, <2>2 DEF ReceiveDone, ImageMoves, Arrived
  <2> QED
    BY <2>1, <2>2
<1>6. ASSUME NEW c \in CommitCalls, CommitLink(c)
      PROVE  ImageMoves(h)
  <2>1. CASE commit[c].handle = h /\ Linkable(h)
    <3>1. /\ Arrived(h) /\ "pending" \in files[h] /\ "object" \notin files[h]
          /\ UNCHANGED <<intent, deleted>> /\ "object" \in files'[h]
      BY <1>1, <1>6, <2>1 DEF CommitLink, CommitInPlace, Linkable
    <3>2. h \notin deleted
      BY <1>1, <3>1 DEF ImageInPlace
    <3>3. ImageOf(h) = "uploaded" /\ ImageOf(h)' = "published"
      BY <3>1, <3>2 DEF ImageOf, Arrived
    <3> QED
      BY <1>6, <2>1, <3>3 DEF ImageMoves
  <2>2. CASE ~(commit[c].handle = h /\ Linkable(h))
    BY <1>1, <1>2, <1>6, <2>2 DEF CommitLink, ImageMoves, Arrived
  <2> QED
    BY <2>1, <2>2
<1>7. ASSUME NEW c \in CommitCalls, CommitUnlink(c) \/ CommitInspect(c)
      PROVE  ImageMoves(h)
  <2>1. CommitInPlace(c) /\ CommittedInPlace(c)
    BY <1>1
  <2>2. Arrived(h)' <=> Arrived(h)
    BY <1>1, <1>7, <2>1 DEF CommitUnlink, CommitInspect, Settled, CommitInPlace, Arrived,
       IntentRow
  <2>3. /\ UNCHANGED deleted
        /\ "object" \in files'[h] <=> "object" \in files[h]
        /\ h # commit[c].handle => files'[h] = files[h]
    BY <1>1, <1>7 DEF CommitUnlink, CommitInspect
  <2>4. CASE CommitUnlink(c) /\ h = commit[c].handle
    BY <1>2, <2>1, <2>2, <2>3, <2>4 DEF CommitUnlink, CommittedInPlace, Local, ImageMoves
  <2>5. CASE ~(CommitUnlink(c) /\ h = commit[c].handle)
    BY <1>2, <1>7, <2>2, <2>3, <2>5 DEF CommitInspect, ImageMoves
  <2> QED
    BY <2>4, <2>5
<1>8. ASSUME NEW g \in Handles, CreateEnd(g) \/ ReceiveAdmit(g)
      PROVE  ImageMoves(h)
  <2>1. Arrived(h)' <=> Arrived(h)
    BY <1>1, <1>8 DEF CreateEnd, ReceiveAdmit, Receivable, GoesOn, Inserted, Arrived, IntentRow
  <2> QED
    BY <1>2, <1>8, <2>1 DEF CreateEnd, ReceiveAdmit, ImageMoves
<1>9. ASSUME NEW g \in Handles, ReceiveOpen(g)
      PROVE  ImageMoves(h)
  <2>1. CASE g = h
    <3>1. /\ ~Arrived(h)
          /\ "object" \in files'[h] <=> "object" \in files[h]
      BY <1>1, <1>9, <2>1 DEF ReceiveOpen, StoredAs, GoesOn
    <3> QED
      BY <1>2, <1>9, <3>1 DEF ReceiveOpen, ImageMoves, Arrived
  <2>2. CASE g # h
    BY <1>1, <1>2, <1>9, <2>2 DEF ReceiveOpen, ImageMoves, Arrived
  <2> QED
    BY <2>1, <2>2
<1>10. CASE UNCHANGED <<intent, files, deleted>>
  BY <1>2, <1>10 DEF ImageMoves, Arrived
<1> QED
  BY <1>3, <1>4, <1>5, <1>6, <1>7, <1>8, <1>9, <1>10 DEF UploadsNext, Cleanup, Dispose,
     UploadsTick, CreateBegin, ReceiveBegin, ReceiveRefused, ReceiveFail, ReceiveFailed,
     CommitBegin, CommitStep, CommitRefused, CommitAdmit, CommitInspectFails, CommitIssue

\* A commit that stands still, or goes on with its upload.
LEMMA OutcomesMove ==
  ASSUME UploadsInv, NEW c \in CommitCalls, commit'[c].handle = commit[c].handle,
         \A d \in CommitCalls : d # c => commit'[d] = commit[d]
  PROVE  /\ Targets' = Targets
         /\ Outcomes' = [Outcomes EXCEPT ![c] = OutcomeOf(c)']
         /\ OutcomeOf(c)' = OutcomeOf(c) => Outcomes' = Outcomes
<1>1. \A d \in CommitCalls : Local(d)' <=> Local(d)
  BY DEF Local
<1>2. \A d \in CommitCalls : d # c => OutcomeOf(d)' = OutcomeOf(d)
  BY DEF OutcomeOf, Local
<1>3. Targets' = Targets
  BY <1>1 DEF Targets, Local
<1> QED
  BY <1>2, <1>3 DEF Outcomes

PromiseStands == UNCHANGED <<Images, Outcomes, Targets>>

\* removal, the end of a transfer, and deletion
LEMMA ImageStepsKeepPromise ==
  ASSUME UploadsInv, UploadsNext, NEW h \in Handles,
         Removed(h) \/ ReceiveDone(h) \/ DeleteUploaded(h)
  PROVE  Promise!PromiseNext \/ PromiseStands
<1>1. UNCHANGED commit
  BY DEF Removed, ReceiveDone, DeleteUploaded
<1>2. UNCHANGED <<Outcomes, Targets>>
  BY <1>1 DEF Outcomes, OutcomeOf, Targets, Local
<1>3. ASSUME NEW g \in LocalHandles, g # h
      PROVE  ImageOf(g)' = ImageOf(g)
  <2>1. /\ files \in [Handles -> SUBSET {"pending", "object"}]
        /\ intent \in [Handles -> IntentRow]
    BY DEF UploadsInv, UploadsTypeOK
  <2>2. /\ g \in deleted' <=> g \in deleted
        /\ files'[g] = files[g] /\ intent'[g] = intent[g]
    BY <1>3, <2>1 DEF Removed, ReceiveDone, DeleteUploaded
  <2> QED
    BY <2>2 DEF ImageOf
<1>4. CASE h \notin LocalHandles
  BY <1>2, <1>3, <1>4 DEF Images, PromiseStands
<1>5. CASE h \in LocalHandles
  <2>1. ImageMoves(h)
    BY <1>5, ImagesMove
  <2>2. Images' = [Images EXCEPT ![h] = ImageOf(h)'] /\ Images[h] = ImageOf(h)
    BY <1>3, <1>5 DEF Images
  <2>3. CASE ImageOf(h)' = ImageOf(h)
    BY <1>2, <1>3, <2>3 DEF Images, PromiseStands
  <2>4. CASE ImageOf(h) = "none" /\ ImageOf(h)' = "uploaded"
    <3>1. Promise!Arrive(h)
      BY <1>2, <2>2, <2>4 DEF Promise!Arrive, Promise!Become, Images, Outcomes, Targets
    <3> QED
      BY <1>5, <3>1 DEF Promise!PromiseNext
  <2>5. CASE ImageOf(h) = "uploaded" /\ ImageOf(h)' = "dropped"
    <3>1. Promise!Drop(h)
      BY <1>2, <2>2, <2>5 DEF Promise!Drop, Promise!Become, Images, Outcomes, Targets
    <3> QED
      BY <1>5, <3>1 DEF Promise!PromiseNext
  <2>6. CASE DeleteUploaded(h) /\ ImageOf(h) = "published" /\ ImageOf(h)' = "deleted"
    <3>1. PICK c \in CommitCalls : commit[c].at = "published" /\ commit[c].handle = h
      BY <2>6 DEF DeleteUploaded
    <3>2. OutcomeOf(c) = "published" /\ Local(c)
      BY <1>5, <3>1 DEF OutcomeOf, Local
    <3>3. Promise!Delete(h)
      BY <1>2, <2>2, <2>6, <3>1, <3>2 DEF Promise!Delete, Promise!Become, Images, Outcomes,
         Targets
    <3> QED
      BY <1>5, <3>3 DEF Promise!PromiseNext
  <2>7. ~\E c \in CommitCalls : CommitLink(c) /\ Linkable(h)
    BY <1>1 DEF CommitLink, Goto, UploadsInv, UploadsTypeOK, CommitRow
  <2> QED
    BY <2>1, <2>3, <2>4, <2>5, <2>6, <2>7 DEF ImageMoves
<1> QED
  BY <1>4, <1>5

\* commit, from its begin to its answer
LEMMA CommitsKeepPromise ==
  ASSUME UploadsInv, UploadsNext, NEW c \in CommitCalls, CommitStep(c)
  PROVE  Promise!PromiseNext \/ PromiseStands
<1>1. /\ commit \in [CommitCalls -> CommitRow] /\ CommitInPlace(c)
      /\ commit[c].handle \in Handles \cup {NoHandle}
  BY DEF UploadsInv, UploadsTypeOK, CommitsInPlace, CommitRow
<1> HIDE DEF Handles
<1>2. /\ commit'[c].handle = commit[c].handle
      /\ \A d \in CommitCalls : d # c => commit'[d] = commit[d]
  BY <1>1 DEF CommitStep, CommitRefused, CommitAdmit, CommitLink, CommitUnlink,
     CommitInspect, CommitInspectFails, CommitIssue, Goto, CommitRow
<1>3. /\ Targets' = Targets
      /\ Outcomes' = [Outcomes EXCEPT ![c] = OutcomeOf(c)']
      /\ OutcomeOf(c)' = OutcomeOf(c) => Outcomes' = Outcomes
      /\ Outcomes[c] = OutcomeOf(c)
      /\ Local(c) => Targets[c] = commit[c].handle
  BY <1>2, OutcomesMove DEF Outcomes, Targets
<1>4. ~CommitLink(c) \/ ~Linkable(commit[c].handle) => Images' = Images
  <2> SUFFICES ASSUME ~CommitLink(c) \/ ~Linkable(commit[c].handle), NEW h \in LocalHandles
               PROVE  ImageOf(h)' = ImageOf(h)
    BY DEF Images
  <2>1. ImageMoves(h)
    BY ImagesMove
  <2>2. ~Removed(h) /\ ~ReceiveDone(h) /\ ~DeleteUploaded(h)
    <3>1. commit'[c] # commit[c]
      BY <1>1 DEF CommitStep, CommitRefused, CommitAdmit, CommitLink, CommitUnlink,
         CommitInspect, CommitInspectFails, CommitIssue, Goto, CommitRow
    <3> QED
      BY <3>1 DEF Removed, ReceiveDone, DeleteUploaded
  <2>3. ASSUME NEW d \in CommitCalls, CommitLink(d), commit[d].handle = h, Linkable(h)
        PROVE  FALSE
    <3>1. d = c
      BY <1>1, <1>2, <2>3 DEF CommitLink, Goto, CommitRow
    <3> QED
      BY <2>3, <3>1
  <2> QED
    BY <2>1, <2>2, <2>3 DEF ImageMoves
<1>5. ASSUME Local(c), OutcomeOf(c) \in {"running", "publishing"},
             OutcomeOf(c)' = "failed", Images' = Images
      PROVE  Promise!PromiseNext
  <2>1. Promise!Refuse(c)
    BY <1>3, <1>5 DEF Promise!Refuse, Images, Outcomes, Targets
  <2> QED
    BY <2>1 DEF Promise!PromiseNext, Promise!Commits
<1>6. ASSUME OutcomeOf(c)' = OutcomeOf(c), Images' = Images
      PROVE  PromiseStands
  BY <1>3, <1>6 DEF PromiseStands
<1>7. CASE CommitRefused(c) \/ CommitInspectFails(c)
  <2>1. /\ commit[c].at \in {"pruning", "inspecting"} /\ commit'[c].at = "failed"
        /\ Images' = Images
    BY <1>1, <1>4, <1>7 DEF CommitRefused, CommitInspectFails, CommitLink, Goto, CommitRow
  <2>2. Local(c)' <=> Local(c)
    BY <1>2 DEF Local
  <2>3. CASE Local(c)
    <3>1. commit[c].at = "pruning"
      BY <1>1, <2>1, <2>3 DEF CommitInPlace, Local
    <3> QED
      BY <1>5, <2>1, <2>2, <2>3, <3>1 DEF OutcomeOf
  <2>4. CASE ~Local(c)
    BY <1>6, <2>1, <2>2, <2>4 DEF OutcomeOf
  <2> QED
    BY <2>3, <2>4
<1>8. CASE CommitAdmit(c)
  <2>1. /\ commit[c].at = "pruning" /\ Images' = Images
        /\ commit'[c].at = IF Local(c) THEN "linking" ELSE "inspecting"
    BY <1>1, <1>4, <1>8 DEF CommitAdmit, CommitLink, Goto, CommitRow, Local
  <2>2. OutcomeOf(c)' = OutcomeOf(c)
    BY <1>2, <2>1 DEF OutcomeOf, Local
  <2> QED
    BY <1>6, <2>1, <2>2
<1>9. CASE CommitLink(c)
  <2> DEFINE h == commit[c].handle
  <2>1. /\ commit[c].at = "linking" /\ h \in LocalHandles /\ Local(c) /\ Local(c)'
        /\ commit'[c].at = IF Linkable(h) THEN "unlinking" ELSE "failed"
    BY <1>1, <1>2, <1>9 DEF CommitLink, Goto, CommitRow, CommitInPlace, Local
  <2>2. OutcomeOf(c) = "running"
    BY <2>1 DEF OutcomeOf
  <2>3. CASE ~Linkable(h)
    BY <1>4, <1>5, <2>1, <2>2, <2>3 DEF OutcomeOf
  <2>4. CASE Linkable(h)
    <3>1. OutcomeOf(c)' = "publishing"
      BY <2>1, <2>4 DEF OutcomeOf
    <3>2. Arrived(h) /\ "pending" \in files[h] /\ "object" \notin files[h]
      BY <1>1, <2>1, <2>4 DEF Linkable, CommitInPlace
    <3>3. h \in Handles /\ ImageInPlace(h) /\ files \in [Handles -> SUBSET {"pending", "object"}]
      BY <2>1 DEF UploadsInv, UploadsTypeOK, ImagesInPlace, Handles
    <3>4. ImageOf(h) = "uploaded"
      BY <2>1, <3>2, <3>3 DEF ImageOf, ImageInPlace, Arrived
    <3>5. Images' = [Images EXCEPT ![h] = "published"]
      <4>1. PICK g \in LocalHandles : g = h
        BY <2>1
      <4>2. /\ files' = [files EXCEPT ![g] = @ \cup {"object"}]
            /\ UNCHANGED <<intent, deleted>> /\ g \in Handles /\ g \notin deleted
        BY <1>9, <2>4, <3>2, <3>3, <4>1 DEF CommitLink, ImageInPlace
      <4>3. ASSUME NEW f \in LocalHandles, f # g
            PROVE  ImageOf(f)' = ImageOf(f)
        <5>1. f \in Handles
          BY DEF Handles
        <5> QED
          BY <3>3, <4>2, <4>3, <5>1 DEF ImageOf
      <4>4. ImageOf(g)' = "published"
        BY <3>3, <4>2 DEF ImageOf
      <4> QED
        BY <4>1, <4>3, <4>4 DEF Images
    <3>6. Promise!Publish(c)
      BY <1>3, <2>1, <2>2, <3>1, <3>4, <3>5 DEF Promise!Publish, Promise!Publishable, Images,
         Outcomes, Targets
    <3> QED
      BY <3>6 DEF Promise!PromiseNext, Promise!Commits
  <2> QED
    BY <2>3, <2>4
<1>10. CASE CommitUnlink(c) \/ CommitInspect(c)
  <2>1. /\ commit[c].at \in {"unlinking", "inspecting"} /\ commit'[c].at = "issuing"
        /\ commit[c].at = "inspecting" => ~Local(c)
        /\ Images' = Images
    BY <1>1, <1>4, <1>10 DEF CommitUnlink, CommitInspect, CommitLink, Goto, CommitRow,
       CommitInPlace, Local
  <2>2. OutcomeOf(c)' = OutcomeOf(c)
    BY <1>2, <2>1 DEF OutcomeOf, Local
  <2> QED
    BY <1>6, <2>1, <2>2
<1>11. CASE CommitIssue(c)
  <2>1. /\ commit[c].at = "issuing" /\ commit'[c].at \in {"published", "failed"}
        /\ Images' = Images /\ (Local(c)' <=> Local(c))
    BY <1>1, <1>2, <1>4, <1>11 DEF CommitIssue, CommitLink, Goto, CommitRow, Local
  <2>2. CASE ~Local(c)
    BY <1>6, <2>1, <2>2 DEF OutcomeOf
  <2>3. CASE Local(c) /\ commit'[c].at = "failed"
    BY <1>5, <2>1, <2>3 DEF OutcomeOf
  <2>4. CASE Local(c) /\ commit'[c].at = "published"
    <3>1. OutcomeOf(c) = "publishing" /\ OutcomeOf(c)' = "published"
      BY <2>1, <2>4 DEF OutcomeOf
    <3>2. Promise!Tell(c)
      BY <1>3, <2>1, <3>1 DEF Promise!Tell, Images, Outcomes, Targets
    <3> QED
      BY <3>2 DEF Promise!PromiseNext, Promise!Commits
  <2> QED
    BY <2>1, <2>2, <2>3, <2>4
<1> QED
  BY <1>7, <1>8, <1>9, <1>10, <1>11 DEF CommitStep

\* the begin of a commit, which the store may refuse at once
LEMMA BeginsKeepPromise ==
  ASSUME UploadsInv, UploadsNext, NEW c \in CommitCalls, NEW h \in Handles, CommitBegin(c, h)
  PROVE  Promise!PromiseNext \/ PromiseStands
<1>1. /\ commit \in [CommitCalls -> CommitRow] /\ CommitInPlace(c)
      /\ commit[c].handle = NoHandle /\ commit[c].at = "idle"
  BY DEF UploadsInv, UploadsTypeOK, CommitsInPlace, CommitInPlace, CommitBegin
<1>2. Images' = Images
  BY DEF CommitBegin, Images, ImageOf
<1>3. /\ commit'[c].at \in {"failed", "pruning"} /\ commit'[c].handle = h
      /\ \A d \in CommitCalls : d # c => commit'[d] = commit[d]
  BY <1>1 DEF CommitBegin
<1>4. ~Local(c)
  BY <1>1 DEF Local, Handles
<1>5. \A d \in CommitCalls : d # c => /\ OutcomeOf(d)' = OutcomeOf(d)
                                      /\ Local(d)' <=> Local(d)
  BY <1>3 DEF OutcomeOf, Local
<1>6. CASE h \notin LocalHandles
  <2>1. ~Local(c)'
    BY <1>3, <1>6 DEF Local
  <2>2. OutcomeOf(c)' = OutcomeOf(c)
    BY <1>4, <2>1 DEF OutcomeOf
  <2> QED
    BY <1>2, <1>3, <1>4, <1>5, <2>1, <2>2 DEF Outcomes, Targets, PromiseStands
<1>7. CASE h \in LocalHandles
  <2>1. /\ OutcomeOf(c) = "idle" /\ OutcomeOf(c)' \in {"running", "failed"}
    BY <1>3, <1>4, <1>7 DEF OutcomeOf, Local
  <2>2. Outcomes' = [Outcomes EXCEPT ![c] = OutcomeOf(c)']
    BY <1>5 DEF Outcomes
  <2>3. Targets' = [Targets EXCEPT ![c] = h]
    BY <1>3, <1>5, <1>7 DEF Targets, Local
  <2>4. Promise!Ask(c, h) \/ Promise!AskInVain(c, h)
    BY <1>2, <2>1, <2>2, <2>3 DEF Promise!Ask, Promise!AskInVain, Images, Outcomes, Targets
  <2> QED
    BY <1>7, <2>4 DEF Promise!PromiseNext
<1> QED
  BY <1>6, <1>7

\* Every step of the store is one of the promise or leaves it alone.
LEMMA StepsKeepPromise ==
  UploadsInv /\ [UploadsNext]_uploadVars => [Promise!PromiseNext]_(Promise!promiseVars)
<1> SUFFICES ASSUME UploadsInv, [UploadsNext]_uploadVars
             PROVE  Promise!PromiseNext \/ PromiseStands
  BY DEF Promise!promiseVars, PromiseStands, Images, Outcomes, Targets
<1>1. CASE UNCHANGED uploadVars
  BY <1>1 DEF uploadVars, PromiseStands, Images, Outcomes, Targets, ImageOf, OutcomeOf, Local
<1> SUFFICES ASSUME UploadsNext PROVE Promise!PromiseNext \/ PromiseStands
  BY <1>1
<1>2. ASSUME NEW h \in Handles, Removed(h) \/ ReceiveDone(h) \/ DeleteUploaded(h)
      PROVE  Promise!PromiseNext \/ PromiseStands
  BY <1>2, ImageStepsKeepPromise
<1>3. ASSUME NEW c \in CommitCalls, CommitStep(c)
      PROVE  Promise!PromiseNext \/ PromiseStands
  BY <1>3, CommitsKeepPromise
<1>4. ASSUME NEW c \in CommitCalls, NEW h \in Handles, CommitBegin(c, h)
      PROVE  Promise!PromiseNext \/ PromiseStands
  BY <1>4, BeginsKeepPromise
<1>5. ASSUME \A h \in Handles : ~(Removed(h) \/ ReceiveDone(h) \/ DeleteUploaded(h)),
             \A c \in CommitCalls : ~CommitLink(c), UNCHANGED commit
      PROVE  PromiseStands
  <2>1. UNCHANGED <<Outcomes, Targets>>
    BY <1>5 DEF Outcomes, OutcomeOf, Targets, Local
  <2>2. \A h \in LocalHandles : ImageOf(h)' = ImageOf(h)
    BY <1>5, ImagesMove DEF ImageMoves, Handles
  <2> QED
    BY <2>1, <2>2 DEF Images, PromiseStands
<1>6. (\A c \in CommitCalls : ~CommitStep(c) /\ \A h \in Handles : ~CommitBegin(c, h))
        => UNCHANGED commit
  BY DEF UploadsNext, Cleanup, Dispose, UploadsTick, Removed, DeleteUploaded, CreateBegin,
     CreateEnd, ReceiveBegin, ReceiveRefused, ReceiveAdmit, ReceiveOpen, ReceiveDone,
     ReceiveFail, ReceiveFailed
<1> QED
  BY <1>2, <1>3, <1>4, <1>5, <1>6 DEF CommitStep

\* commit and deleteUploaded of backend/uploads.mjs: however commits of one local
\* upload, its transfer, its expiry and disposal overlap, its image is published
\* by one commit at most and stays until it is deleted.
THEOREM StoreKeepsPromise == UploadsSpec => KeepsPromise
<1>1. UploadsInit => Promise!PromiseInit
  BY DEF UploadsInit, Promise!PromiseInit, ImageOf, OutcomeOf, Local, Handles
<1> QED
  BY <1>1, StepsKeepPromise, UploadsInductive, PTL
     DEF UploadsSpec, KeepsPromise, Promise!PromiseSpec
=============================================================================
