----------------------------- MODULE RequestBooks -----------------------------
(***************************************************************************)
(* The two books the browser host keeps of requests: the one of the VM and *)
(* its loops, with the deadlines that the loops ask the ledger for, and    *)
(* the ledger itself with its callers left open.                           *)
(***************************************************************************)
EXTENDS HostRequests, RequestLedger

\* Both books of requests, the loops' and the ledger's, are true to what happened.
RequestsHold == RequestsAccounted /\ OneEndPerRequest
=============================================================================
