------------------------------- MODULE Records -------------------------------
(***************************************************************************)
(* A collection of records (backend/records.mjs) over the local database   *)
(* (backend/database.mjs): writers that read a record, wait for the        *)
(* authorization of what they read and then write, and a reader that       *)
(* follows the cursors of list() through all pages and back again.         *)
(*                                                                         *)
(* The order is by a field that may change and then by id, as every sort   *)
(* ends with the id.  A record of owner mode is visible to its owner only. *)
(***************************************************************************)
EXTENDS Integers, SequencesExt

CONSTANTS
  Ids,         \* ids of records, in their order
  Ranks,       \* values of the field that is sorted by
  Owners,      \* principals
  Reader,      \* the one of them who reads
  Writers,     \* calls under way at a time
  Absent,
  Limit,       \* limit of the reader's queries
  MaxWrites    \* bound on the calls of the writers

ASSUME RecordsAssumption ==
  /\ Ids \subseteq Nat /\ Ranks \subseteq Nat /\ IsFiniteSet(Ids)
  /\ Reader \in Owners /\ Limit \in Nat \ {0} /\ MaxWrites \in Nat
  /\ Absent \notin [id : Ids, rank : Ranks, owner : Owners, born : 0..MaxWrites]

VARIABLES
  database,   \* the records by id
  asked,      \* what each writer asks for, or NoCall
  current,    \* the record it read, when the record was there and allowed to it
  writes,     \* calls so far
  trespassed, \* ids whose record was written or deleted by somebody else than its owner
  walk,       \* the direction the reader goes, or "done"
  cursor,     \* the boundary its next query starts at, or Absent
  seen,       \* the records it was given, by direction
  stayed      \* ids that ought to be among them: there, and not moved, all the while

recordVars == <<database, asked, current, writes, trespassed, walk, cursor, seen, stayed>>

\* born tells apart the records an id had one after the other
Record == [id : Ids, rank : Ranks, owner : Owners, born : 0..MaxWrites]
NoCall == [op |-> "none", id |-> 0, rank |-> 0, by |-> Absent]
Requested == [op : {"insert", "update", "delete"}, id : Ids, rank : Ranks, by : Owners]
Directions == {"forward", "backward"}

RecordsTypeOK ==
  /\ database \in [Ids -> Record \cup {Absent}]
  /\ \A i \in Ids : database[i] # Absent => database[i].id = i
  /\ asked \in [Writers -> Requested \cup {NoCall}]
  /\ current \in [Writers -> Record \cup {Absent}]
  /\ writes \in 0..MaxWrites /\ trespassed \subseteq Ids
  /\ walk \in Directions \cup {"done"} /\ cursor \in Record \cup {Absent}
  /\ seen \in [Directions -> Seq(Record)] /\ stayed \in [Directions -> SUBSET Ids]

-----------------------------------------------------------------------------
(* list().                                                                 *)

\* compareRecord, compareBoundary
Before(a, b) == a.rank < b.rank \/ (a.rank = b.rank /\ a.id < b.id)

Visible == {database[i] : i \in {j \in Ids : database[j] # Absent /\ database[j].owner = Reader}}

\* every record where as many come before it
Sorted(records) ==
  [n \in 1..Cardinality(records) |->
     CHOOSE r \in records : Cardinality({q \in records : Before(q, r)}) = n - 1]

\* what is on the far side of the boundary
Beyond(direction, boundary) ==
  {r \in Visible : \/ boundary = Absent
                   \/ IF direction = "forward" THEN Before(boundary, r) ELSE Before(r, boundary)}

Bounded(direction, boundary) == Sorted(Beyond(direction, boundary))

HasMore(direction, boundary) == Len(Bounded(direction, boundary)) > Limit

\* Faulty: a page backward is cut at the wrong end
ItemsFromTheStart(direction, boundary) ==
  LET all == Bounded(direction, boundary) IN
  IF ~HasMore(direction, boundary) THEN all ELSE SubSeq(all, 1, Limit)

\* the page next to the boundary
Items(direction, boundary) ==
  LET all == Bounded(direction, boundary) IN
  IF ~HasMore(direction, boundary) THEN all
  ELSE IF direction = "forward" THEN SubSeq(all, 1, Limit)
  ELSE SubSeq(all, Len(all) - Limit + 1, Len(all))

NextCursor(direction, boundary) ==
  LET items == Items(direction, boundary) IN
  IF items # <<>> /\ (direction = "backward" \/ HasMore(direction, boundary))
    THEN Last(items) ELSE Absent

PreviousCursor(direction, boundary) ==
  LET items == Items(direction, boundary)
      more == IF direction = "forward" THEN boundary # Absent ELSE HasMore(direction, boundary) IN
  IF items # <<>> /\ more THEN Head(items) ELSE Absent

-----------------------------------------------------------------------------
RecordsInit ==
  /\ \E ranks \in [Ids -> Ranks], there \in SUBSET Ids :
       database = [i \in Ids |->
         IF i \in there THEN [id |-> i, rank |-> ranks[i], owner |-> Reader, born |-> 0]
         ELSE Absent]
  /\ asked = [w \in Writers |-> NoCall] /\ current = [w \in Writers |-> Absent]
  /\ writes = 0 /\ trespassed = {}
  /\ walk = "forward" /\ cursor = Absent
  /\ seen = [d \in Directions |-> <<>>]
  /\ stayed = [d \in Directions |-> IF d = "forward" THEN {r.id : r \in Visible} ELSE {}]

\* A query forward; the last page turns the reader round.
WalksOn ==
  /\ walk = "forward"
  /\ seen' = [seen EXCEPT !["forward"] = @ \o Items("forward", cursor)]
  /\ \/ /\ NextCursor("forward", cursor) # Absent
        /\ cursor' = NextCursor("forward", cursor) /\ UNCHANGED <<walk, stayed>>
     \/ /\ NextCursor("forward", cursor) = Absent
        /\ cursor' = PreviousCursor("forward", cursor)
        /\ walk' = IF cursor' = Absent THEN "done" ELSE "backward"
        /\ stayed' = [stayed EXCEPT !["backward"] =
             IF cursor' = Absent THEN {} ELSE {r.id : r \in {v \in Visible : Before(v, cursor')}}]
  /\ UNCHANGED <<database, asked, current, writes, trespassed>>

\* A query backward, until there is nothing before.
WalksBack ==
  /\ walk = "backward"
  /\ seen' = [seen EXCEPT !["backward"] = Items("backward", cursor) \o @]
  /\ cursor' = PreviousCursor("backward", cursor)
  /\ walk' = IF cursor' = Absent THEN "done" ELSE "backward"
  /\ UNCHANGED <<database, asked, current, writes, trespassed, stayed>>

-----------------------------------------------------------------------------
(* insert, update and delete.  What is read is authorized, and the call    *)
(* waits for that; an insert has nothing to read.                          *)

Allowed(record, principal) == record # Absent /\ record.owner = principal

Asks(w, c) ==
  /\ asked[w] = NoCall /\ writes < MaxWrites
  /\ writes' = writes + 1
  /\ asked' = [asked EXCEPT ![w] = c]
  /\ \/ c.op = "insert" /\ UNCHANGED current
     \/ /\ c.op # "insert" /\ Allowed(database[c.id], c.by)      \* or FORBIDDEN at once
        /\ current' = [current EXCEPT ![w] = database[c.id]]
  /\ UNCHANGED <<database, trespassed, walk, cursor, seen, stayed>>

Answered(w) ==
  /\ asked' = [asked EXCEPT ![w] = NoCall] /\ current' = [current EXCEPT ![w] = Absent]
  /\ UNCHANGED <<writes, walk, cursor, seen>>

Stores(i, record) ==
  /\ database' = [database EXCEPT ![i] = record]
  /\ stayed' = IF record # Absent /\ database[i] # Absent /\ record.rank = database[i].rank
                    /\ record.owner = database[i].owner
                 THEN stayed ELSE [d \in Directions |-> stayed[d] \ {i}]

\* the record that is replaced is another one's, and the one that was read all the same
Trespasses(w, i) ==
  trespassed' = IF database[i].owner # asked[w].by /\ database[i].born = current[w].born
                  THEN trespassed \cup {i} ELSE trespassed

\* database.insert refuses an id that is there
Inserts(w) ==
  LET c == asked[w] IN
  /\ c.op = "insert"
  /\ IF database[c.id] = Absent
       THEN Stores(c.id, [id |-> c.id, rank |-> c.rank, owner |-> c.by, born |-> writes])
       ELSE UNCHANGED <<database, stayed>>
  /\ Answered(w) /\ UNCHANGED trespassed

\* the patch is applied to what was read, and the whole is stored
Updates(w) ==
  LET c == asked[w] IN
  /\ c.op = "update"
  /\ IF database[c.id] # Absent
       THEN Stores(c.id, [current[w] EXCEPT !.rank = c.rank]) /\ Trespasses(w, c.id)
       ELSE UNCHANGED <<database, stayed, trespassed>>
  /\ Answered(w)

Deletes(w) ==
  LET c == asked[w] IN
  /\ c.op = "delete"
  /\ IF database[c.id] # Absent
       THEN Stores(c.id, Absent) /\ Trespasses(w, c.id)
       ELSE UNCHANGED <<database, stayed, trespassed>>
  /\ Answered(w)

RecordsNext ==
  \/ WalksOn \/ WalksBack
  \/ \E w \in Writers :
       \/ \E c \in Requested : Asks(w, c)
       \/ Inserts(w) \/ Updates(w) \/ Deletes(w)

RecordsSpec == RecordsInit /\ [][RecordsNext]_recordVars

-----------------------------------------------------------------------------
(* Properties.                                                             *)

\* Pages continue one another: no record comes twice in one place, and none out of order.
InOrder(records) == \A i \in 1..Len(records) - 1 : Before(records[i], records[i + 1])

\* A reader who follows the cursors to the end, and then back, is given every record
\* that was there and not moved meanwhile, however others insert, move and delete.
WalkIsComplete ==
  /\ \A d \in Directions : InOrder(seen[d])
  /\ walk # "forward" => stayed["forward"] \subseteq {r.id : r \in Range(seen["forward"])}
  /\ walk = "done" => stayed["backward"] \subseteq {r.id : r \in Range(seen["backward"])}

\* Only its owner changes or deletes a record, however long the authorization takes,
\* but for a record that came under the same id after the authorization.
RecordsStayOwned == trespassed = {}

RecordsHold == WalkIsComplete /\ RecordsStayOwned
=============================================================================
