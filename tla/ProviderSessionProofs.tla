------------------------ MODULE ProviderSessionProofs ------------------------
(* Proofs about ProviderSession, for any number of calls and any timing. *)
EXTENDS ProviderSession, TLAPS

USE NoCallAssumption, TimingAssumption

\* What the store writes is a row, whatever the write.
LEMMA RowTypes ==
  ASSUME TypeOK
  PROVE  /\ Deleted \in Row /\ Swept \in Row /\ Revoked \in Row
         /\ ReadMaterial \in [gen: Nat, revision: Nat]
         /\ \A ttl \in TokenTtls : Issued(ttl) \in Row
         /\ \A c \in Calls : Released(c) \in Row /\ Rotated(c) \in Row
                             /\ LeasedTo(c) \in Row
<1> row \in Row /\ now \in Nat
  BY DEF TypeOK
<1>1. Deleted \in Row
  BY DEF Deleted, Row
<1>2. Swept \in Row /\ Revoked \in Row
  BY <1>1 DEF Swept, Revoked
<1>3. ReadMaterial \in [gen: Nat, revision: Nat]
  BY DEF ReadMaterial, Row
<1>4. ASSUME NEW c \in Calls
      PROVE  Released(c) \in Row /\ Rotated(c) \in Row /\ LeasedTo(c) \in Row
  <2>1. Released(c) \in Row
    BY DEF Released, Row
  <2>2. reply[c].gen \in Nat /\ reply[c].until \in Nat /\ row.revision + 1 \in Nat
    BY DEF TypeOK, Row
  <2>3. Rotated(c) \in Row
    BY <2>2 DEF Rotated, Row
  <2>4. now + LeaseMs \in Nat
    OBVIOUS
  <2>5. LeasedTo(c) \in Row
    BY <2>4 DEF LeasedTo, Row
  <2> QED
    BY <2>1, <2>3, <2>5
<1>5. ASSUME NEW ttl \in TokenTtls
      PROVE  Issued(ttl) \in Row
  <2>1. now + ttl \in Nat /\ now + SessionTtl \in Nat
    OBVIOUS
  <2> QED
    BY <2>1 DEF Issued, Row
<1> QED
  BY <1>1, <1>2, <1>3, <1>4, <1>5

\* The row, the provider and the bookkeeping of every call keep their types.
THEOREM TypeCorrect == Spec => []TypeOK
<1>1. Init => TypeOK
  BY DEF Init, TypeOK, Row, NoReply
<1>2. TypeOK /\ [Next]_vars => TypeOK'
  <2> SUFFICES ASSUME TypeOK, [Next]_vars PROVE TypeOK'
    OBVIOUS
  <2> USE RowTypes DEF TypeOK, Ended, InFlight, Goto
  <2>1. CASE SignIn
    BY <2>1 DEF SignIn
  <2>2. CASE Prune \/ Tick
    BY <2>2 DEF Prune, Tick
  <2>3. ASSUME NEW c \in Calls,
               UseInvalid(c) \/ UseUnreadable(c) \/ UseBusy(c) \/ UseMismatch(c)
        PROVE  TypeOK'
    BY <2>3 DEF UseInvalid, UseUnreadable, UseBusy, UseMismatch
  <2>4. ASSUME NEW c \in Calls, UseFresh(c) \/ UseAcquire(c)
        PROVE  TypeOK'
    <3>1. CASE UseFresh(c)
      BY <3>1 DEF UseFresh
    <3>2. CASE UseAcquire(c)
      BY <3>2 DEF UseAcquire
    <3> QED
      BY <2>4, <3>1, <3>2
  <2>5. ASSUME NEW c \in Calls,
               RefreshFailed(c) \/ RefreshRefused(c) \/ RevokeRefused(c)
               \/ LeaseLost(c) \/ MaterialRejected(c) \/ AbortRejected(c)
               \/ MaterialAccepted(c)
        PROVE  TypeOK'
    <3>1. CASE RefreshFailed(c)
      BY <3>1 DEF RefreshFailed
    <3>4. CASE RefreshRefused(c)
      BY <3>4 DEF RefreshRefused
    <3>5. CASE AbortRejected(c)
      BY <3>5 DEF AbortRejected
    <3>2. CASE RevokeRefused(c)
      BY <3>2 DEF RevokeRefused
    <3>3. CASE LeaseLost(c) \/ MaterialRejected(c) \/ MaterialAccepted(c)
      BY <3>3 DEF LeaseLost, MaterialRejected, MaterialAccepted
    <3> QED
      BY <2>5, <3>1, <3>2, <3>3, <3>4, <3>5
  <2>6. ASSUME NEW c \in Calls, CommitRefresh(c) \/ ReadBack(c)
        PROVE  TypeOK'
    BY <2>6 DEF CommitRefresh, ReadBack
  <2>7. ASSUME NEW c \in Calls, OperationDone(c) \/ SignOutNothing(c)
               \/ SignOutStart(c) \/ SignOutFinish(c) \/ Crash(c)
        PROVE  TypeOK'
    BY <2>7 DEF OperationDone, SignOutNothing, SignOutStart, SignOutFinish,
                Crash
  <2>8. ASSUME NEW c \in Calls, ProviderRefresh(c)
        PROVE  TypeOK'
    <3>1. provider.gen + 1 \in Nat
          /\ \A ttl \in TokenTtls : now + ttl \in Nat
      OBVIOUS
    <3>2. provider' \in [gen: Nat, alive: BOOLEAN]
      BY <2>8, <3>1 DEF ProviderRefresh
    <3>3. reply' \in [Calls -> [kind: {"none", "rotated", "malformed", "refused"},
                               gen: Nat, until: Nat]]
      <4>1. CASE provider.alive /\ material[c].gen = provider.gen
        <5>1. PICK ttl \in TokenTtls, kind \in {"rotated", "malformed"} :
                reply' = [reply EXCEPT ![c] = [kind |-> kind,
                            gen |-> provider.gen + 1, until |-> now + ttl]]
          BY <2>8, <4>1 DEF ProviderRefresh
        <5> QED
          BY <3>1, <5>1
      <4>2. CASE ~(provider.alive /\ material[c].gen = provider.gen)
        BY <2>8, <4>2 DEF ProviderRefresh, Refused
      <4> QED
        BY <4>1, <4>2
    <3> QED
      BY <2>8, <3>2, <3>3 DEF ProviderRefresh
  <2>9. ASSUME NEW c \in Calls, ProviderLogout(c)
        PROVE  TypeOK'
    BY <2>9 DEF ProviderLogout
  <2>10. CASE UNCHANGED vars
    BY <2>10 DEF vars
  <2> QED
    BY <2>1, <2>2, <2>3, <2>4, <2>5, <2>6, <2>7, <2>8, <2>9, <2>10
       DEF Next, Call
<1> QED
  BY <1>1, <1>2, PTL DEF Spec
-----------------------------------------------------------------------------
(* The inductive invariant.  Most steps disturb one or two of its parts and  *)
(* follow from their own definitions; the provider's rotation and the commit *)
(* of a refresh, which move the two token generations, are argued in full.   *)

\* A rotation at the provider: its new token is now the one the caller was sent.
LEMMA RotationInductive ==
  ASSUME SessionInv, NEW c \in Calls, ProviderRefresh(c), TypeOK'
  PROVE  SessionInv'
<1> USE DEF SessionInv
<1>1. /\ wire[c] = "refresh" /\ reply[c].gen = 0
      /\ pc[c] \in {"refreshing", "unavailable", "crashed"}
      /\ row.state # "none"
  BY DEF ProviderRefresh, WireAgrees, NoReply, IssuedFirst
<1>2. LeaseBinds' /\ IssuedFirst' /\ SignedOutStaysOut'
  BY DEF ProviderRefresh, LeaseBinds, IssuedFirst, SignedOutStaysOut, Holds,
         ReadMaterial, Lapsed, TypeOK
<1>3. WireAgrees'
  BY <1>1 DEF ProviderRefresh, WireAgrees, TypeOK
<1>5. ReplyAgrees'
  BY <1>1 DEF ProviderRefresh, ReplyAgrees, Refused, TypeOK
<1>6. OperatesOnRotatedMaterial'
  BY <1>1 DEF ProviderRefresh, OperatesOnRotatedMaterial, TypeOK
<1>4. StoredTokenAccounted'
  <2>1. CASE provider.alive /\ material[c].gen = provider.gen
    <3>1. reply'[c].gen = provider'.gen /\ pc' = pc
      BY <2>1 DEF ProviderRefresh, TypeOK
    <3> QED
      BY <1>1, <3>1 DEF StoredTokenAccounted
  <2>2. CASE ~(provider.alive /\ material[c].gen = provider.gen)
    <3>1. provider' = provider /\ row' = row /\ pc' = pc
          /\ \A e \in Calls : e # c => reply'[e] = reply[e]
      BY <2>2 DEF ProviderRefresh, TypeOK
    <3>2. provider.gen # reply[c].gen
      BY <1>1 DEF IssuedFirst, TypeOK
    <3> QED
      BY <3>1, <3>2 DEF StoredTokenAccounted
  <2> QED
    BY <2>1, <2>2
<1> QED
  BY <1>2, <1>3, <1>4, <1>5, <1>6

\* The commit of a refresh: the lease held until now ties the row to what the
\* call redeemed, so the row moves one generation up and not past the provider.
LEMMA CommitInductive ==
  ASSUME SessionInv, NEW c \in Calls, CommitRefresh(c), TypeOK'
  PROVE  SessionInv'
<1> USE DEF SessionInv
<1>1. CASE ~CanFinish(c)
  BY <1>1 DEF CommitRefresh, CanFinish, Goto, LeaseBinds, WireAgrees,
         ReplyAgrees, IssuedFirst, SignedOutStaysOut, StoredTokenAccounted,
         OperatesOnRotatedMaterial, TypeOK, Row, Holds, Lapsed, ReadMaterial
<1>2. CASE CanFinish(c)
  <2>1. /\ row' = Rotated(c) /\ pc' = [pc EXCEPT ![c] = "reading"]
        /\ pc[c] = "committing" /\ Holds(c)
        /\ UNCHANGED <<now, provider, material, wire, reply>>
    BY <1>2 DEF CommitRefresh, CanFinish, Goto
  <2>2. /\ row.state = "live" /\ row'.state = "live"
        /\ row'.gen = reply[c].gen /\ row'.lease = NoCall
    BY <2>1 DEF Rotated, Holds, TypeOK, Row
  <2>3. row'.gen = row.gen + 1 /\ row'.gen <= provider.gen
    BY <2>1, <2>2 DEF LeaseBinds, ReplyAgrees, ReadMaterial, TypeOK, Row
  <2>4. LeaseBinds'
    BY <2>2 DEF LeaseBinds, Holds
  <2>5. WireAgrees' /\ IssuedFirst' /\ OperatesOnRotatedMaterial'
    BY <2>1, <2>2 DEF WireAgrees, IssuedFirst, OperatesOnRotatedMaterial, TypeOK
  <2>6. ReplyAgrees'
    <3>1. ASSUME NEW e \in Calls, pc'[e] = "reading"
          PROVE  row'.gen >= reply[e].gen
      <4>1. e = c \/ pc[e] = "reading"
        BY <2>1, <3>1 DEF TypeOK
      <4>2. row'.gen \in Nat /\ row.gen \in Nat /\ reply[e].gen \in Nat
        BY <2>3 DEF TypeOK, Row
      <4>3. pc[e] = "reading" => row.gen >= reply[e].gen
        BY DEF ReplyAgrees
      <4> HIDE DEF SessionInv
      <4>4. CASE e = c
        BY <4>4, <4>2, <2>2
      <4>5. CASE pc[e] = "reading"
        BY <4>5, <4>2, <4>3, <2>3
      <4> QED
        BY <4>1, <4>4, <4>5
    <3>2. ASSUME NEW e \in Calls, pc'[e] \in {"refreshing", "committing"}
          PROVE  pc[e] = pc'[e]
      BY <2>1, <3>2 DEF TypeOK
    <3> QED
      BY <2>1, <3>1, <3>2 DEF ReplyAgrees
  <2>7. SignedOutStaysOut'
    BY <2>1, <2>2 DEF SignedOutStaysOut, TypeOK
  <2>8. StoredTokenAccounted'
    <3>1. SUFFICES ASSUME row'.gen # provider.gen
                   PROVE  \E e \in Calls : reply[e].gen = provider.gen
                            /\ pc'[e] \notin {"idle", "reading", "operating",
                                              "operated"}
      BY <2>1 DEF StoredTokenAccounted
    <3>2. row.gen # provider.gen
      BY <2>3 DEF TypeOK, Row
    <3>3. PICK e \in Calls : reply[e].gen = provider.gen
                   /\ pc[e] \notin {"idle", "reading", "operating", "operated"}
      BY <2>2, <3>2 DEF StoredTokenAccounted
    <3>4. e # c
      BY <2>2, <3>1, <3>3
    <3> QED
      BY <2>1, <3>3, <3>4 DEF TypeOK
  <2> QED
    BY <2>4, <2>5, <2>6, <2>7, <2>8
<1> QED
  BY <1>1, <1>2

\* Reading the row back: a call that committed finds its token or a later one.
LEMMA ReadBackInductive ==
  ASSUME SessionInv, NEW c \in Calls, ReadBack(c), TypeOK'
  PROVE  SessionInv'
<1> USE DEF SessionInv, ReadBack, Goto, TypeOK, Row, ReadMaterial
<1>1. /\ pc[c] = "reading" /\ pc'[c] \in {"operating", "unauthorized"}
      /\ \A e \in Calls : e # c => pc'[e] = pc[e] /\ material'[e] = material[e]
      /\ UNCHANGED <<now, provider, wire, reply>>
  OBVIOUS
<1>2. row' = row \/ (row.state = "live" /\ row' = Deleted)
  BY DEF Swept
<1>3. /\ row'.gen = row.gen /\ row'.revision = row.revision
      /\ row'.lease = row.lease /\ row'.leaseUntil = row.leaseUntil
      /\ row'.sessionUntil = row.sessionUntil
      /\ row'.state = "live" => row.state = "live"
      /\ row.state = "gone" => row'.state = "gone"
      /\ row'.state = "none" <=> row.state = "none"
  BY <1>2 DEF Deleted
<1>4. LeaseBinds'
  BY <1>1, <1>3 DEF LeaseBinds, Holds, Lapsed
<1>5. WireAgrees' /\ IssuedFirst'
  BY <1>1, <1>3 DEF WireAgrees, IssuedFirst
<1>6. ReplyAgrees'
  BY <1>1, <1>3 DEF ReplyAgrees
<1>7. SignedOutStaysOut'
  BY <1>1, <1>3 DEF SignedOutStaysOut
<1>10. StoredTokenAccounted'
  <2>1. SUFFICES ASSUME row.state = "live", row.gen # provider.gen
                 PROVE  \E e \in Calls : reply[e].gen = provider.gen
                          /\ pc'[e] \notin {"idle", "reading", "operating",
                                            "operated"}
    BY <1>1, <1>3 DEF StoredTokenAccounted
  <2>2. PICK e \in Calls : reply[e].gen = provider.gen
                 /\ pc[e] \notin {"idle", "reading", "operating", "operated"}
    BY <2>1 DEF StoredTokenAccounted
  <2> QED
    BY <1>1, <2>2
<1>8. pc'[c] = "operating" => material'[c].gen >= reply'[c].gen
  BY <1>1 DEF ReplyAgrees
<1>9. OperatesOnRotatedMaterial'
  BY <1>1, <1>8 DEF OperatesOnRotatedMaterial
<1> QED
  BY <1>4, <1>5, <1>6, <1>7, <1>9, <1>10

LEMMA SessionInductive == Spec => []SessionInv
<1>1. Init => SessionInv
  BY DEF Init, SessionInv, TypeOK, Row, NoReply, Holds, LeaseBinds, WireAgrees,
         ReplyAgrees, IssuedFirst, SignedOutStaysOut, StoredTokenAccounted,
         OperatesOnRotatedMaterial
<1>2. SessionInv /\ TypeOK' /\ [Next]_vars => SessionInv'
  <2> SUFFICES ASSUME SessionInv, TypeOK', [Next]_vars PROVE SessionInv'
    OBVIOUS
  <2>1. ASSUME NEW c \in Calls, CommitRefresh(c) PROVE SessionInv'
    BY <2>1, CommitInductive
  <2>2. ASSUME NEW c \in Calls, ProviderRefresh(c) PROVE SessionInv'
    BY <2>2, RotationInductive
  <2> USE DEF SessionInv, LeaseBinds, WireAgrees, ReplyAgrees, IssuedFirst,
              SignedOutStaysOut, StoredTokenAccounted,
              OperatesOnRotatedMaterial, TypeOK, Row, Holds, Lapsed, Active,
              Goto, ReadMaterial, NoReply, Ended, InFlight
  <2>3. ASSUME NEW c \in Calls, UseInvalid(c) PROVE SessionInv'
    BY <2>3 DEF UseInvalid, Swept, Deleted
  <2>4. ASSUME NEW c \in Calls, UseUnreadable(c) PROVE SessionInv'
    BY <2>4 DEF UseUnreadable, Revoked, Deleted
  <2>5. ASSUME NEW c \in Calls, UseBusy(c) PROVE SessionInv'
    BY <2>5 DEF UseBusy
  <2>6. ASSUME NEW c \in Calls, UseMismatch(c) PROVE SessionInv'
    BY <2>6 DEF UseMismatch, Revoked, Deleted
  <2>7. ASSUME NEW c \in Calls, UseFresh(c) PROVE SessionInv'
    BY <2>7 DEF UseFresh
  <2>8. ASSUME NEW c \in Calls, UseAcquire(c) PROVE SessionInv'
    BY <2>8 DEF UseAcquire, LeasedTo
  <2>9. ASSUME NEW c \in Calls, RefreshFailed(c) PROVE SessionInv'
    BY <2>9 DEF RefreshFailed, Released
  <2>10. ASSUME NEW c \in Calls, RefreshRefused(c) PROVE SessionInv'
    BY <2>10 DEF RefreshRefused, Released
  <2>11. ASSUME NEW c \in Calls, RevokeRefused(c) PROVE SessionInv'
    BY <2>11 DEF RevokeRefused, Revoked, Deleted
  <2>12. ASSUME NEW c \in Calls, LeaseLost(c) PROVE SessionInv'
    BY <2>12 DEF LeaseLost
  <2>13. ASSUME NEW c \in Calls, MaterialRejected(c) PROVE SessionInv'
    BY <2>13 DEF MaterialRejected
  <2>14. ASSUME NEW c \in Calls, AbortRejected(c) PROVE SessionInv'
    BY <2>14 DEF AbortRejected, Released
  <2>15. ASSUME NEW c \in Calls, MaterialAccepted(c) PROVE SessionInv'
    BY <2>15 DEF MaterialAccepted
  <2>16. ASSUME NEW c \in Calls, ReadBack(c) PROVE SessionInv'
    BY <2>16, ReadBackInductive
  <2>17. ASSUME NEW c \in Calls, OperationDone(c) PROVE SessionInv'
    BY <2>17 DEF OperationDone
  <2>18. ASSUME NEW c \in Calls, SignOutNothing(c) PROVE SessionInv'
    BY <2>18 DEF SignOutNothing, Swept, Deleted
  <2>19. ASSUME NEW c \in Calls, SignOutStart(c) PROVE SessionInv'
    BY <2>19 DEF SignOutStart
  <2>20. ASSUME NEW c \in Calls, SignOutFinish(c) PROVE SessionInv'
    BY <2>20 DEF SignOutFinish, Revoked, Deleted
  <2>21. ASSUME NEW c \in Calls, Crash(c) PROVE SessionInv'
    BY <2>21 DEF Crash
  <2>22. ASSUME NEW c \in Calls, ProviderLogout(c) PROVE SessionInv'
    BY <2>22 DEF ProviderLogout
  <2>23. CASE SignIn
    BY <2>23 DEF SignIn, Issued
  <2>24. CASE Prune
    BY <2>24 DEF Prune, Deleted
  <2>25. CASE Tick
    BY <2>25 DEF Tick
  <2>26. CASE UNCHANGED vars
    BY <2>26 DEF vars
  <2> HIDE DEF SessionInv
  <2> QED
    BY <2>1, <2>2, <2>3, <2>4, <2>5, <2>6, <2>7, <2>8, <2>9, <2>10, <2>11, <2>12, <2>13, <2>14, <2>15, <2>16, <2>17, <2>18, <2>19, <2>20, <2>21, <2>22, <2>23, <2>24, <2>25, <2>26 DEF Next, Call
<1> QED
  BY <1>1, <1>2, TypeCorrect, PTL DEF Spec

-----------------------------------------------------------------------------
(* The properties. *)

\* Sign-out is final, and the token in the row is accounted for.
THEOREM SignOutFinal == Spec => []SignedOutStaysOut
<1>1. SessionInv => SignedOutStaysOut
  BY DEF SessionInv
<1> QED
  BY <1>1, SessionInductive, PTL

THEOREM TokenAccounted == Spec => []StoredTokenAccounted
<1>1. SessionInv => StoredTokenAccounted
  BY DEF SessionInv
<1> QED
  BY <1>1, SessionInductive, PTL

THEOREM RotatedMaterialUsed == Spec => []OperatesOnRotatedMaterial
<1>1. SessionInv => OperatesOnRotatedMaterial
  BY DEF SessionInv
<1> QED
  BY <1>1, SessionInductive, PTL

\* No call that is over keeps an unexpired lease.
THEOREM NoStuckLease == Spec => []EndedCallsHoldNoLease
<1>1. SessionInv => EndedCallsHoldNoLease
  BY DEF SessionInv, LeaseBinds, EndedCallsHoldNoLease, Ended
<1> QED
  BY <1>1, SessionInductive, PTL

\* No lost update: only the holder of the lease replaces the material, and what
\* it replaces is what it redeemed.
THEOREM NoLostUpdate == Spec => CommitFromCurrent
<1> DEFINE Step == row.state = "live" /\ row'.gen # row.gen =>
              \E c \in Calls :
                /\ pc[c] = "committing" /\ pc'[c] # "committing"
                /\ \A d \in Calls \ {c} : ~Holds(d)
                /\ material[c] = ReadMaterial
                /\ row'.gen = reply[c].gen /\ row'.gen > row.gen
<1>1. SessionInv /\ [Next]_vars => [Step]_vars
  <2> SUFFICES ASSUME SessionInv, [Next]_vars, row.state = "live",
                      row'.gen # row.gen
               PROVE  Step
    OBVIOUS
  <2>1. PICK c \in Calls : CommitRefresh(c) /\ CanFinish(c)
    <3> USE DEF SessionInv, TypeOK, Row, Deleted, Swept, Revoked, Released
    <3>1. ~SignIn /\ ~Prune /\ ~Tick /\ ~UNCHANGED vars
      BY DEF SignIn, Prune, Tick, vars
    <3>2. ASSUME NEW c \in Calls
          PROVE  ~(UseInvalid(c) \/ UseUnreadable(c) \/ UseBusy(c)
                   \/ UseMismatch(c) \/ UseFresh(c) \/ UseAcquire(c))
      BY DEF UseInvalid, UseUnreadable, UseBusy, UseMismatch, UseFresh,
             UseAcquire, LeasedTo
    <3>3. ASSUME NEW c \in Calls
          PROVE  ~(RefreshFailed(c) \/ RefreshRefused(c) \/ RevokeRefused(c)
                   \/ LeaseLost(c) \/ MaterialRejected(c) \/ AbortRejected(c)
                   \/ MaterialAccepted(c) \/ ReadBack(c) \/ OperationDone(c))
      BY DEF RefreshFailed, RefreshRefused, RevokeRefused, LeaseLost,
             MaterialRejected, AbortRejected, MaterialAccepted, ReadBack,
             OperationDone
    <3>4. ASSUME NEW c \in Calls
          PROVE  ~(SignOutNothing(c) \/ SignOutStart(c) \/ SignOutFinish(c)
                   \/ Crash(c) \/ ProviderRefresh(c) \/ ProviderLogout(c))
      BY DEF SignOutNothing, SignOutStart, SignOutFinish, Crash,
             ProviderRefresh, ProviderLogout
    <3>5. ASSUME NEW c \in Calls, CommitRefresh(c)
          PROVE  CanFinish(c)
      BY <3>5 DEF CommitRefresh
    <3> QED
      BY <3>1, <3>2, <3>3, <3>4, <3>5 DEF Next, Call
  <2>2. /\ row' = Rotated(c) /\ pc' = [pc EXCEPT ![c] = "reading"]
        /\ pc[c] = "committing" /\ Holds(c)
    BY <2>1 DEF CommitRefresh, CanFinish, Goto
  <2>3. row'.gen = reply[c].gen /\ pc'[c] = "reading"
    BY <2>2 DEF Rotated, SessionInv, TypeOK, Row
  <2>4. material[c] = ReadMaterial /\ reply[c].gen = material[c].gen + 1
    BY <2>2 DEF SessionInv, LeaseBinds, ReplyAgrees
  <2>5. reply[c].gen > row.gen
    BY <2>4 DEF ReadMaterial, SessionInv, TypeOK, Row
  <2>6. \A d \in Calls \ {c} : ~Holds(d)
    BY <2>2 DEF Holds
  <2> QED
    BY <2>2, <2>3, <2>4, <2>5, <2>6
<1> QED
  BY <1>1, SessionInductive, PTL DEF Spec, CommitFromCurrent
=============================================================================
