---------------------------- MODULE RequestLedger ----------------------------
(***************************************************************************)
(* The host's ledger of capability requests                                *)
(* (platform/protocol/request-ledger.mjs): it correlates an answer with    *)
(* the request it is for, and refuses answers that come too late, twice,   *)
(* or to a request that was cancelled.  Every method is synchronous, so    *)
(* each call is one step; callers choose any order of calls.               *)
(***************************************************************************)
EXTENDS Integers, FiniteSets

CONSTANTS
  LedgerIds,        \* requestId
  Traces,     \* traceId
  Deadlines,  \* deadlineMs
  Capacity,   \* Protocol.limits.inFlightRequests
  MaxBegins,  \* bound: how often one id is begun
  MaxClock     \* bound on the clock

ASSUME LedgerAssumption ==
  /\ Deadlines \subseteq Nat \ {0}
  /\ Capacity \in Nat \ {0} /\ MaxBegins \in Nat /\ MaxClock \in Nat

VARIABLES
  clock,       \* performance.now()
  pending,   \* #pending: traceId and deadlineAt by requestId
  closed,  \* #disposed
  begun,     \* how often each id was admitted
  reported   \* how often its end was reported to the caller, by kind of end

ledgerVars == <<clock, pending, closed, begun, reported>>

LedgerEnds == {"settled", "deadline", "cancelled", "expired", "disposed"}
Entry == [trace: Traces, deadlineAt: Nat]
Unreported == [end \in LedgerEnds |-> 0]

LedgerTypeOK ==
  /\ clock \in Nat
  /\ DOMAIN pending \subseteq LedgerIds /\ pending \in [DOMAIN pending -> Entry]
  /\ Cardinality(DOMAIN pending) <= Capacity
  /\ closed \in BOOLEAN
  /\ begun \in [LedgerIds -> 0..MaxBegins]
  /\ reported \in [LedgerIds -> [LedgerEnds -> 0..MaxBegins]]

LedgerInit ==
  /\ clock = 0
  /\ pending = [id \in {} |-> 0]
  /\ closed = FALSE
  /\ begun = [id \in LedgerIds |-> 0]
  /\ reported = [id \in LedgerIds |-> Unreported]
-----------------------------------------------------------------------------
EntriesWithout(ids) == [id \in DOMAIN pending \ ids |-> pending[id]]

Report(ids, end) ==
  reported' = [id \in LedgerIds |-> IF id \in ids
                              THEN [reported[id] EXCEPT ![end] = @ + 1]
                              ELSE reported[id]]

\* Faulty: the limit admits one request too many.
AdmissibleAtLimit(id) ==
  /\ ~closed /\ id \notin DOMAIN pending
  /\ Cardinality(DOMAIN pending) <= Capacity

Admissible(id) ==
  /\ ~closed /\ id \notin DOMAIN pending
  /\ Cardinality(DOMAIN pending) < Capacity

Begin(id, trace, deadline) ==
  /\ begun[id] < MaxBegins
  /\ Admissible(id)
  /\ pending' = [i \in DOMAIN pending \cup {id} |->
                   IF i = id THEN [trace |-> trace, deadlineAt |-> clock + deadline]
                             ELSE pending[i]]
  /\ begun' = [begun EXCEPT ![id] = @ + 1]
  /\ UNCHANGED <<clock, closed, reported>>

\* an answer for this id and trace can take effect
Answerable(id, trace) ==
  ~closed /\ id \in DOMAIN pending /\ pending[id].trace = trace

OverdueEntry(id) == clock >= pending[id].deadlineAt

SettleOverdue(id, trace) ==
  /\ Answerable(id, trace)
  /\ OverdueEntry(id)
  /\ pending' = EntriesWithout({id})
  /\ Report({id}, "deadline")
  /\ UNCHANGED <<clock, closed, begun>>

\* A malformed answer in time leaves the request pending: only a
\* well-formed one settles it.
Settle(id, trace) ==
  /\ Answerable(id, trace)
  /\ ~OverdueEntry(id)
  /\ pending' = EntriesWithout({id})
  /\ Report({id}, "settled")
  /\ UNCHANGED <<clock, closed, begun>>

Cancel(id, trace) ==
  /\ Answerable(id, trace)
  /\ pending' = EntriesWithout({id})
  /\ Report({id}, "cancelled")
  /\ UNCHANGED <<clock, closed, begun>>

ExpireEntries ==
  /\ ~closed
  /\ LET late == {id \in DOMAIN pending : OverdueEntry(id)}
     IN  late # {} /\ pending' = EntriesWithout(late) /\ Report(late, "expired")
  /\ UNCHANGED <<clock, closed, begun>>

DisposeLedger ==
  /\ ~closed
  /\ closed' = TRUE
  /\ pending' = EntriesWithout(LedgerIds)
  /\ Report(DOMAIN pending, "disposed")
  /\ UNCHANGED <<clock, begun>>

LedgerTick ==
  /\ clock < MaxClock
  /\ clock' = clock + 1
  /\ UNCHANGED <<pending, closed, begun, reported>>

LedgerNext ==
  \/ ExpireEntries \/ DisposeLedger \/ LedgerTick
  \/ \E id \in LedgerIds, trace \in Traces :
       \/ \E deadline \in Deadlines : Begin(id, trace, deadline)
       \/ Settle(id, trace) \/ SettleOverdue(id, trace) \/ Cancel(id, trace)

LedgerSpec == LedgerInit /\ [][LedgerNext]_ledgerVars
-----------------------------------------------------------------------------
(* Properties. *)

EndsReported(id) ==
  reported[id]["settled"] + reported[id]["deadline"] + reported[id]["cancelled"]
    + reported[id]["expired"] + reported[id]["disposed"]

\* Every admitted request ends exactly once: while it is pending no end was
\* reported for it, afterwards exactly one, whichever of settle, cancel, expire
\* and dispose came first and however often the id is used again.
OneEndPerRequest ==
  \A id \in LedgerIds :
    begun[id] = EndsReported(id) + (IF id \in DOMAIN pending THEN 1 ELSE 0)
=============================================================================
