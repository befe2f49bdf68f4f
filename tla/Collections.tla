----------------------------- MODULE Collections -----------------------------
(***************************************************************************)
(* A paged collection (sdk/luastra/collection.luau): pages of keyed items  *)
(* around an anchor, within a budget of items and pages, loaded one at a   *)
(* time at either end by cursors the provider gives out, while the         *)
(* application inserts and removes items.                                  *)
(*                                                                         *)
(* An item is its key.  The provider holds the records 1..Records in that  *)
(* order and answers with a part of them; its cursor k stands between the  *)
(* records k and k + 1 (as in examples/state-foundations/src/main.luau).   *)
(* Malformed pages fail like rejections.  What raises an assertion changes *)
(* nothing and is left out.                                                *)
(***************************************************************************)
EXTENDS Naturals, FiniteSets, Sequences

CONSTANTS
  Records,         \* the provider's records are 1..Records
  Drafts,          \* keys of items that only the application has
  PageItems,       \* the items of the provider's pages, within maxPageItems
  MaxItems,        \* maxItems
  MaxPages,        \* maxPages
  Strays,          \* one page may not continue what is loaded, until all are replaced
  MaxGenerations   \* bound on the generations

ASSUME CollectionAssumption ==
  /\ {Records, PageItems, MaxItems, MaxPages, MaxGenerations} \subseteq Nat \ {0}
  /\ PageItems <= MaxItems
  /\ Drafts \cap (0..Records) = {}
  /\ Strays \in BOOLEAN

VARIABLES
  status, pages, active, errors, generation, stale,
  anchor,      \* anchorKey
  consumed,    \* consumedNext and consumedPrevious
  calls,       \* tickets whose page or error has not come
  touched,     \* items the application inserted or removed since all pages were replaced
  strayed,     \* a page did not continue what was loaded since then
  overtaken,   \* the page that the active ticket continues was evicted
  skipped,     \* a page was accepted after that
  wronged      \* a page that continues what is loaded was refused

collectionVars == <<status, pages, active, errors, generation, stale, anchor, consumed, calls,
                    touched, strayed, overtaken, skipped, wronged>>
history == <<touched, strayed, overtaken, skipped, wronged>>

NoKey == 0
NoCursor == Records + 1
Cursors == 0..Records
ItemKeys == (1..Records) \cup Drafts
Edges == {"next", "previous"}
Directions == Edges \cup {"initial", "refresh"}

Page == [keys : Seq(ItemKeys), previous : Cursors \cup {NoCursor}, next : Cursors \cup {NoCursor}]
PageTickets == [direction : Directions, cursor : Cursors \cup {NoCursor}, generation : 1..MaxGenerations]
NoLoad == [direction |-> "none", cursor |-> NoCursor, generation |-> 0]

CollectionTypeOK ==
  /\ status \in {"idle", "loading", "ready", "empty", "refreshing", "error", "stale-error",
                 "cancelled"}
  /\ pages \in Seq(Page)
  /\ active \in PageTickets \cup {NoLoad} /\ calls \subseteq PageTickets
  /\ active # NoLoad => active \in calls
  /\ errors \subseteq Edges \cup {"whole"}
  /\ generation \in 0..MaxGenerations /\ stale \in BOOLEAN
  /\ anchor \in ItemKeys \cup {NoKey}
  /\ consumed \in [Edges -> SUBSET Cursors]
  /\ touched \subseteq ItemKeys
  /\ {strayed, overtaken, skipped, wronged} \subseteq BOOLEAN

CollectionInit ==
  /\ status = "idle" /\ pages = <<>> /\ active = NoLoad /\ errors = {}
  /\ generation = 0 /\ stale = FALSE /\ anchor = NoKey
  /\ consumed = [e \in Edges |-> {}]
  /\ calls = {} /\ touched = {}
  /\ strayed = FALSE /\ overtaken = FALSE /\ skipped = FALSE /\ wronged = FALSE
-----------------------------------------------------------------------------
(* The provider. *)

\* the records after cursor a, up to b
Part(a, b) ==
  [keys |-> [i \in 1..(b - a) |-> a + i],
   previous |-> IF a > 0 THEN a ELSE NoCursor,
   next |-> IF b < Records THEN b ELSE NoCursor]

Parts == {Part(ab[1], ab[2]) :
            ab \in {ab \in Cursors \X Cursors : ab[1] <= ab[2] /\ ab[2] - ab[1] <= PageItems}}

\* the answer of a provider whose records do not change
Continuation(t) ==
  LET from == IF t.cursor = NoCursor THEN 0 ELSE t.cursor IN
  IF t.direction = "previous"
  THEN Part(IF from > PageItems THEN from - PageItems ELSE 0, from)
  ELSE Part(from, IF from + PageItems < Records THEN from + PageItems ELSE Records)
-----------------------------------------------------------------------------
(* Pages. *)

\* the places of the items, and what is at them
Spots(ps) == UNION {{i} \X DOMAIN ps[i].keys : i \in DOMAIN ps}
KeyAt(ps, x) == ps[x[1]].keys[x[2]]
Held(ps) == {KeyAt(ps, x) : x \in Spots(ps)}
ItemCount(ps) == Cardinality(Spots(ps))

KeysOf(p) == {p.keys[m] : m \in DOMAIN p.keys}

\* the elements of s at the indices I, in their order
At(s, I) == [n \in 1..Cardinality(I) |-> s[CHOOSE i \in I : Cardinality({j \in I : j < i}) = n - 1]]

RemoveKeys(ps, ks) ==
  [i \in DOMAIN ps |-> [ps[i] EXCEPT !.keys = At(@, {m \in DOMAIN @ : @[m] \notin ks})]]

PruneEmptyInterior(ps) == At(ps, {i \in DOMAIN ps : ps[i].keys # <<>> \/ i = 1 \/ i = Len(ps)})

AnchorPages(ps, a) == {i \in DOMAIN ps : \E m \in DOMAIN ps[i].keys : ps[i].keys[m] = a}

Opposite(edge) == IF edge = "previous" THEN "next" ELSE "previous"

\* the end that is farther from the anchor, or opposite to what was loaded
EvictionEdge(ps, inserted, a) ==
  LET before == (CHOOSE i \in AnchorPages(ps, a) : TRUE) - 1
      after  == Len(ps) - 1 - before
  IN  IF AnchorPages(ps, a) = {} \/ before = after THEN Opposite(inserted)
      ELSE IF before > after THEN "previous" ELSE "next"

OverBudget(ps) == Len(ps) > 1 /\ (Len(ps) > MaxPages \/ ItemCount(ps) > MaxItems)

Trimmed(ps, inserted, a) ==
  IF ~OverBudget(ps) THEN ps
  ELSE IF EvictionEdge(ps, inserted, a) = "previous" THEN Tail(ps)
  ELSE SubSeq(ps, 1, Len(ps) - 1)

\* page by page, until the budget is kept
Evicted(ps, inserted, a) ==
  LET kept == PruneEmptyInterior(ps)
      rest[n \in 0..Len(kept)] == IF n = 0 THEN kept ELSE Trimmed(rest[n - 1], inserted, a)
  IN  rest[Len(kept)]

\* the pages become ps, an end was changed, and anchor a stays if its item does
Evict(ps, inserted, a) ==
  /\ pages' = Evicted(ps, inserted, a)
  /\ anchor' = IF a \in Held(pages') THEN a ELSE NoKey

EdgeCursor(ps, edge) ==
  IF ps = <<>> THEN NoCursor
  ELSE IF edge = "next" THEN ps[Len(ps)].next ELSE Head(ps).previous
-----------------------------------------------------------------------------
(* Loading. *)

Scope(direction) == IF direction \in Edges THEN direction ELSE "whole"

Begin(direction, cursor) ==
  /\ active = NoLoad /\ generation < MaxGenerations
  /\ CASE direction \in Edges    -> cursor = EdgeCursor(pages, direction) /\ cursor # NoCursor
       [] direction = "initial"  -> cursor = NoCursor
       [] direction = "refresh"  -> TRUE
  /\ generation' = generation + 1
  /\ active' = [direction |-> direction, cursor |-> cursor, generation |-> generation']
  /\ calls' = calls \cup {active'}
  /\ errors' = errors \ {Scope(direction)}
  /\ status' = CASE direction = "initial" -> "loading"
                 [] direction = "refresh" -> "refreshing"
                 [] OTHER -> status
  /\ UNCHANGED <<pages, stale, anchor, consumed, history>>

\* setFailure
Fail(t) ==
  /\ active' = NoLoad /\ overtaken' = FALSE
  /\ errors' = errors \cup {Scope(t.direction)}
  /\ status' = IF t.direction \in Edges THEN status
               ELSE IF ItemCount(pages) = 0 THEN "error" ELSE "stale-error"
  /\ UNCHANGED <<pages, generation, stale, anchor, consumed, touched, strayed, skipped>>

\* the provider's cursor repeats in its direction
Cycle(t, p) ==
  /\ t.direction \in Edges
  /\ p[t.direction] = t.cursor \/ p[t.direction] \in consumed[t.direction]

\* items that come again move to the new page
Merged(direction, p) ==
  LET others == RemoveKeys(pages, KeysOf(p)) IN
  CASE direction = "next"     -> Append(others, p)
    [] direction = "previous" -> <<p>> \o others
    [] OTHER                  -> <<p>>

AcceptPage(t, p) ==
  /\ Evict(Merged(t.direction, p), t.direction, anchor)
  /\ consumed' = IF t.direction \in Edges
                 THEN [consumed EXCEPT ![t.direction] = @ \cup {t.cursor}]
                 ELSE [e \in Edges |-> {}]
  /\ active' = NoLoad /\ errors' = {} /\ stale' = FALSE
  /\ status' = IF ItemCount(pages') = 0 THEN "empty" ELSE "ready"
  /\ touched' = IF t.direction \in Edges THEN touched \ KeysOf(p) ELSE {}
  /\ strayed' = (p # Continuation(t) \/ (t.direction \in Edges /\ strayed))
  /\ skipped' = (t.direction \in Edges /\ (overtaken \/ skipped))
  /\ overtaken' = FALSE
  /\ UNCHANGED generation

Arrives(t) == t \in calls /\ calls' = calls \ {t}
OtherThanCalls == <<status, pages, active, errors, generation, stale, anchor, consumed, history>>

Resolve(t, p) ==
  /\ Arrives(t)
  /\ p = Continuation(t) \/ (Strays /\ ~strayed)
  /\ CASE t # active  -> UNCHANGED OtherThanCalls
       [] t = active /\ Cycle(t, p) ->
            Fail(t) /\ wronged' = (wronged \/ (p = Continuation(t) /\ ~strayed))
       [] OTHER -> AcceptPage(t, p) /\ UNCHANGED wronged

\* an error, or a page that is not admitted
Reject(t) ==
  /\ Arrives(t)
  /\ IF t # active THEN UNCHANGED OtherThanCalls ELSE Fail(t) /\ UNCHANGED wronged

\* Faulty: the status of the load stays.
CancelQuietly ==
  /\ active # NoLoad /\ generation < MaxGenerations
  /\ generation' = generation + 1
  /\ active' = NoLoad /\ overtaken' = FALSE
  /\ UNCHANGED <<status, pages, errors, stale, anchor, consumed, calls, touched, strayed, skipped,
                 wronged>>

Cancel ==
  /\ active # NoLoad /\ generation < MaxGenerations
  /\ generation' = generation + 1
  /\ active' = NoLoad /\ overtaken' = FALSE
  /\ status' = IF ItemCount(pages) = 0 THEN "cancelled" ELSE "ready"
  /\ UNCHANGED <<pages, errors, stale, anchor, consumed, calls, touched, strayed, skipped, wronged>>
-----------------------------------------------------------------------------
(* What the application does meanwhile. Replacing an item keeps its key. *)

SetAnchor(k) ==
  /\ k \in Held(pages) \cup {NoKey}
  /\ anchor' = k
  /\ UNCHANGED <<status, pages, active, errors, generation, stale, consumed, calls, history>>

AnchorWithout(k) == IF anchor = k THEN NoKey ELSE anchor

RemoveItem(k) ==
  /\ k \in Held(pages)
  /\ pages' = PruneEmptyInterior(RemoveKeys(pages, {k}))
  /\ anchor' = AnchorWithout(k)
  /\ status' = IF ItemCount(pages') = 0 THEN "empty" ELSE "ready"
  /\ touched' = touched \cup {k}
  /\ UNCHANGED <<active, errors, generation, stale, consumed, calls, strayed, overtaken, skipped,
                 wronged>>

\* an item of that key is removed first
InsertItem(k, edge) ==
  LET others == IF k \in Held(pages) THEN PruneEmptyInterior(RemoveKeys(pages, {k})) ELSE pages
      last   == Len(others)
  IN
  /\ Evict(IF others = <<>>
           THEN <<[keys |-> <<k>>, previous |-> NoCursor, next |-> NoCursor]>>
           ELSE IF edge = "previous" THEN [others EXCEPT ![1].keys = <<k>> \o @]
           ELSE [others EXCEPT ![last].keys = Append(@, k)],
           edge, AnchorWithout(k))
  /\ status' = "ready"
  /\ touched' = touched \cup {k}
  /\ overtaken' = (overtaken \/ /\ active.direction \in Edges
                                /\ EdgeCursor(pages', active.direction) # active.cursor)
  /\ UNCHANGED <<active, errors, generation, stale, consumed, calls, strayed, skipped, wronged>>

Invalidate ==
  /\ stale' = TRUE
  /\ UNCHANGED <<status, pages, active, errors, generation, anchor, consumed, calls, history>>

ResetPages ==
  /\ generation < MaxGenerations /\ generation' = generation + 1
  /\ status' = "idle" /\ pages' = <<>> /\ active' = NoLoad /\ errors' = {}
  /\ stale' = FALSE /\ anchor' = NoKey /\ consumed' = [e \in Edges |-> {}]
  /\ touched' = {} /\ strayed' = FALSE /\ overtaken' = FALSE /\ skipped' = FALSE
  /\ UNCHANGED <<calls, wronged>>

CollectionNext ==
  \/ \E d \in Directions, c \in Cursors \cup {NoCursor} : Begin(d, c)
  \/ \E t \in calls : Reject(t) \/ \E p \in Parts : Resolve(t, p)
  \/ Cancel \/ Invalidate \/ ResetPages
  \/ \E k \in ItemKeys \cup {NoKey} : SetAnchor(k)
  \/ \E k \in ItemKeys : RemoveItem(k)
  \/ \E k \in Drafts, e \in Edges : InsertItem(k, e)

CollectionSpec == CollectionInit /\ [][CollectionNext]_collectionVars
-----------------------------------------------------------------------------
(* Properties. *)

\* The status tells whether there are items and what is loaded, although several
\* operations set it without a look at the ticket.
StatusTellsContent ==
  /\ status \in {"ready", "stale-error"} => ItemCount(pages) > 0
  /\ status \in {"idle", "empty", "error", "cancelled"} => ItemCount(pages) = 0
  /\ status = "loading" => active.direction = "initial"
  /\ status = "refreshing" => active.direction = "refresh"

\* No key is at two places.
KeysOnce == \A x, y \in Spots(pages) : KeyAt(pages, x) = KeyAt(pages, y) => x = y

\* Whatever was loaded, inserted, removed and evicted: no key is held twice, the
\* budget is kept unless one page is left, the anchor is held and the status is
\* that of the items.
WindowIsSound ==
  /\ KeysOnce
  /\ ~OverBudget(pages)
  /\ anchor # NoKey => anchor \in Held(pages)
  /\ StatusTellsContent

Precedes(x, y) == x[1] < y[1] \/ (x[1] = y[1] /\ x[2] < y[2])
Untouched == (1..Records) \ touched

\* "without silently corrupting order": while pages continue what is loaded, the
\* records are held in their order and none between two of them is missing,
\* unless the application touched it.  A page that was evicted while its
\* successor was under way is missing.
RecordsContinue ==
  ~strayed /\ ~skipped =>
    \A x, y \in Spots(pages) :
      LET first == KeyAt(pages, x)
          final == KeyAt(pages, y)
      IN  Precedes(x, y) /\ {first, final} \subseteq Untouched =>
            first < final /\ (first..final) \cap Untouched \subseteq Held(pages)

\* The loads of examples/state-foundations/src/main.luau assert that a page is
\* accepted; a page that continues what is loaded is not a cycle.
EveryPageAccepted == ~wronged
=============================================================================
