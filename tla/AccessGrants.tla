----------------------------- MODULE AccessGrants -----------------------------
(***************************************************************************)
(* What the backend gives out for a while and keeps in memory: sessions    *)
(* (backend/session.mjs) and grants to fetch protected content             *)
(* (backend/content.mjs).  Both are tables, pruned by every operation that *)
(* looks at them.  Tokens are numbers: the n-th that was issued, so that   *)
(* their order is the one in which the code's Map keeps its entries.       *)
(*                                                                         *)
(* Everything in Node runs to its next await; but a grant to a local file  *)
(* reads the file and then looks at its time, and whoever writes the file  *)
(* may do so in between.                                                   *)
(***************************************************************************)
EXTENDS Integers, Sequences, FiniteSetsExt

CONSTANTS
  MaxSessions,     \* maximumSessions
  MaxGrants,       \* maximumGrants
  Lifetimes,       \* ttlMs
  MaxDeliveries,   \* bound on the remote deliveries asked for at a time
  MaxIssued,       \* bound on what is issued
  MaxDay,          \* bound on the clock
  MaxReplaced      \* bound on the changes of the file

ASSUME AccessAssumption ==
  /\ {MaxSessions, MaxGrants} \subseteq Nat \ {0, 1}
  /\ Lifetimes \subseteq Nat \ {0} /\ Lifetimes # {}
  /\ {MaxDeliveries, MaxIssued, MaxDay, MaxReplaced} \subseteq Nat

VARIABLES
  day,
  sessions,     \* the table, entries [token, until]
  byId,         \* sessions that can be revoked
  issued,       \* history: when each session ends, and whether it was revoked
  crowd,        \* history: the most sessions that were live at once
  grants,       \* the table, entries [token, until, mark, torn]; mark 0: a remote item
  given,        \* the number of grants so far
  deliveries,   \* remote deliveries asked for
  reading,      \* the lifetime of a grant whose file has been read, or 0
  file,         \* the protected file: its time, and whether it has what was admitted
  misserved     \* history: other content was served

sessionVars == <<sessions, byId, issued, crowd>>
grantVars == <<grants, given, deliveries, reading, file, misserved>>
accessVars == <<day, sessionVars, grantVars>>

AccessInit ==
  /\ day = 0
  /\ sessions = {} /\ byId = {} /\ issued = <<>> /\ crowd = 0
  /\ grants = {} /\ given = 0 /\ deliveries = 0 /\ reading = 0 /\ misserved = FALSE
  /\ file = [mark |-> 1, admitted |-> TRUE]
-----------------------------------------------------------------------------
(* Tables. *)

Unexpired(table) == {e \in table : e.until > day}
\* prune: at the limit the oldest go, so that one more would fit
Admitting(table, limit) ==
  LET live == Unexpired(table)
  IN  {e \in live : Cardinality({f \in live : f.token >= e.token}) < limit}

TokensIn(table) == {e.token : e \in table}

Outstanding(all) == {t \in DOMAIN all : ~all[t].revoked /\ all[t].until > day}
-----------------------------------------------------------------------------
(* Sessions. *)

\* what prune takes out of one table it takes out of the other
SessionsPruned(table) ==
  byId \ (TokensIn(sessions) \ TokensIn(table))

Issue(ttl) ==
  LET table == Admitting(sessions, MaxSessions)
      token == Len(issued) + 1
  IN
  /\ token <= MaxIssued
  /\ sessions' = table \cup {[token |-> token, until |-> day + ttl]}
  /\ byId' = SessionsPruned(table) \cup {token}
  /\ issued' = Append(issued, [until |-> day + ttl, revoked |-> FALSE])
  /\ crowd' = Max({crowd, Cardinality(Outstanding(issued'))})
  /\ UNCHANGED <<day, grantVars>>

\* resolve, or a look at size
ResolveAny ==
  /\ sessions' = Admitting(sessions, MaxSessions)
  /\ byId' = SessionsPruned(sessions')
  /\ UNCHANGED <<day, issued, crowd, grantVars>>

\* revoke; the caller's principal was resolved at some time before
Revoke(t) ==
  /\ t \in byId
  /\ byId' = byId \ {t}
  /\ sessions' = {e \in sessions : e.token # t}
  /\ issued' = [issued EXCEPT ![t].revoked = TRUE]
  /\ UNCHANGED <<day, crowd, grantVars>>
-----------------------------------------------------------------------------
(* Grants. *)

\* storeGrant
Granted(table, until, mark, torn) ==
  /\ given < MaxIssued
  /\ given' = given + 1
  /\ grants' = table \cup {[token |-> given', until |-> until, mark |-> mark, torn |-> torn]}

\* issueItem of a local file: its bytes are compared
ReadFile(ttl) ==
  /\ reading = 0 /\ given < MaxIssued
  /\ grants' = Admitting(grants, MaxGrants)
  /\ reading' = IF file.admitted THEN ttl ELSE 0
  /\ UNCHANGED <<day, sessionVars, given, deliveries, file, misserved>>

\* and its time is remembered
StatFile ==
  /\ reading # 0
  /\ Granted(grants, day + reading, file.mark, ~file.admitted)
  /\ reading' = 0
  /\ UNCHANGED <<day, sessionVars, deliveries, file, misserved>>

\* issueItem of a remote item, and what the provider answers
AskDelivery ==
  /\ reading = 0 /\ deliveries < MaxDeliveries
  /\ grants' = Admitting(grants, MaxGrants)
  /\ deliveries' = deliveries + 1
  /\ UNCHANGED <<day, sessionVars, given, reading, file, misserved>>

DeliveryEnds ==
  /\ reading = 0 /\ deliveries > 0
  /\ deliveries' = deliveries - 1
  /\ \/ UNCHANGED <<grants, given>>
     \/ \E ttl \in Lifetimes : Granted(Admitting(grants, MaxGrants), day + ttl, 0, FALSE)
  /\ UNCHANGED <<day, sessionVars, reading, file, misserved>>

\* resolve, which compares the times, and the server serves what is there
Fetch(token) ==
  LET table   == Admitting(grants, MaxGrants)
      found   == {e \in table : e.token = token}
      changed == {e \in found : e.mark \notin {0, file.mark}}
  IN
  /\ reading = 0
  /\ grants' = table \ changed
  /\ misserved' = (misserved \/ \E e \in found \ changed :
                                   e.mark # 0 /\ ~e.torn /\ ~file.admitted)
  /\ UNCHANGED <<day, sessionVars, given, deliveries, reading, file>>

DisposeGrants ==
  /\ reading = 0 /\ grants' = {}
  /\ UNCHANGED <<day, sessionVars, given, deliveries, reading, file, misserved>>

\* with as many bytes as before, but for a later time
ReplaceFile ==
  /\ file.mark <= MaxReplaced
  /\ file' \in [mark: {file.mark + 1}, admitted: BOOLEAN]
  /\ UNCHANGED <<day, sessionVars, grants, given, deliveries, reading, misserved>>

Dawns ==
  /\ day < MaxDay /\ reading = 0 /\ day' = day + 1
  /\ UNCHANGED <<sessionVars, grantVars>>

SessionSteps ==
  \/ \E ttl \in Lifetimes : Issue(ttl)
  \/ ResolveAny
  \/ \E t \in byId : Revoke(t)

GrantSteps ==
  \/ \E ttl \in Lifetimes : ReadFile(ttl)
  \/ StatFile \/ AskDelivery \/ DeliveryEnds \/ DisposeGrants \/ ReplaceFile
  \/ \E t \in TokensIn(grants) : Fetch(t)

AccessNext == SessionSteps \/ GrantSteps \/ Dawns

AccessSpec == AccessInit /\ [][AccessNext]_accessVars
-----------------------------------------------------------------------------
(* Properties. *)

SessionsTypeOK ==
  /\ issued \in Seq([until : Nat, revoked : BOOLEAN]) /\ crowd \in Nat
  /\ sessions \subseteq [token : DOMAIN issued, until : Nat] /\ byId \subseteq DOMAIN issued
  /\ \A e, f \in sessions : e.token = f.token => e = f

GrantsTypeOK ==
  /\ given \in 0..MaxIssued
  /\ grants \subseteq [token : 1..given, until : Nat, mark : 0..file.mark, torn : BOOLEAN]
  /\ \A e, f \in grants : e.token = f.token => e = f
  /\ deliveries \in 0..MaxDeliveries /\ reading \in Lifetimes \cup {0}
  /\ file \in [mark : 1..(MaxReplaced + 1), admitted : BOOLEAN] /\ misserved \in BOOLEAN

\* No table has one token twice.
AccessTypeOK == day \in Nat /\ SessionsTypeOK /\ GrantsTypeOK

\* Who was given a session and did not give it back is known until it expires, as long as
\* never so many were live at once as the table takes, expired ones and revoked ones
\* not counted; the one issued last is known in any case.  Nobody else is known, and
\* whoever is known can sign out.
SessionsKept ==
  LET known == TokensIn(Admitting(sessions, MaxSessions)) IN
  /\ known \subseteq Outstanding(issued)
  /\ crowd < MaxSessions => known = Outstanding(issued)
  /\ Len(issued) \in Outstanding(issued) => Len(issued) \in known
  /\ byId = TokensIn(sessions) /\ Cardinality(sessions) <= MaxSessions

\* However many deliveries are awaited at once, the grants stay within their limit; and
\* a local grant serves what was admitted, or nothing, but for a file that was replaced
\* after its bytes were compared and before its time was taken.
GrantsKept == Cardinality(grants) <= MaxGrants /\ ~misserved

AccessHolds == SessionsKept /\ GrantsKept
=============================================================================
