----------------------------- MODULE WindowedLists -----------------------------
(***************************************************************************)
(* A list with mode = "windowed" (platform/host/windowed-list-controller.  *)
(* mjs): only the items near the viewport are connected, spacers take the  *)
(* room of the others, what the user looks at stays in its place when the  *)
(* rest changes, and an end that comes into reach asks the application for *)
(* more.  The application pages a collection as docs/windowed-lists.md     *)
(* says: docs/windowed-lists.md:25-29, sdk/luastra/collection.luau.        *)
(*                                                                         *)
(* Heights are small numbers; the list is all that its scroller contains,  *)
(* and the browser itself keeps no scroll anchor (overflow-anchor: none,   *)
(* as in scripts/audit-windowed-list-chromium.mjs:184).  A render is one   *)
(* step, from prepare() to sync().  ResizeObserver is there.               *)
(***************************************************************************)
EXTENDS Integers, FiniteSetsExt, SequencesExt

CONSTANTS
  Supply,        \* the provider's records are 1..Supply
  LoadSize,      \* so many come at a time
  Retained,      \* maxItems of the collection
  SmallList,     \* lists up to this length are complete
  Overscan,      \* overscan
  Estimate,      \* estimatedItemSize
  ItemHeights,   \* heights that items take
  FirstHeights,  \* and those that they have at first, of all items
  ViewHeight,    \* the height of the viewport
  Counted,       \* the application gives itemOffset and itemCount
  MaxListMoves,  \* bound on the moves of the user and the page
  MaxUnrest      \* so many steps upon one of them, or upon the start, bring rest

ASSUME ListAssumption ==
  /\ {Supply, LoadSize, Retained, Overscan, Estimate, ViewHeight} \subseteq Nat \ {0}
  /\ ItemHeights \subseteq Nat \ {0} /\ FirstHeights \subseteq [1..Supply -> ItemHeights]
  /\ Supply % LoadSize = 0 /\ Retained % LoadSize = 0      \* whole pages come and go
  /\ SmallList >= 2 * Overscan + 1 /\ Counted \in BOOLEAN /\ MaxListMoves \in Nat
  /\ MaxUnrest \in Nat

VARIABLES
  view,       \* the list, see ListTypeOK
  inPlace,    \* history: where the item was that the user saw first after a scroll
  excuse,     \* history: what an edge may be left unasked for
  listMoves,
  unrest      \* history: the steps of the host and pages that came since the last move

listVars == <<view, inPlace, excuse, listMoves, unrest>>

ListEdges == {"start", "end"}
NoItem == 0
NoAnchor == [i \in {} |-> 0]

Items(v) == v.from..v.to
-----------------------------------------------------------------------------
(* The page. *)

\* the size of the first items, up to i
UpTo(sizes, from, i) ==
  LET upTo[k \in {from - 1} \cup DOMAIN sizes] ==
        IF k < from THEN 0 ELSE upTo[k - 1] + sizes[k]
  IN  upTo[i]

\* the room an item takes, or the spacer that stands for it
Block(v, i) == IF i \in v.connected THEN v.tall[i] ELSE v.spaced[i]
Blocks(v) == [i \in Items(v) |-> Block(v, i)]
Top(v, i) == UpTo(Blocks(v), v.from, i - 1) - v.scroll
Furthest(v) == Max({0, UpTo(Blocks(v), v.from, v.to) - ViewHeight})

\* items and spacers in the viewport
InView(v) == {i \in Items(v) : Top(v, i) < ViewHeight /\ Top(v, i) + Block(v, i) > 0}

\* the browser keeps to the bounds, and tells a change by an event
ScrolledTo(v, y) ==
  LET to == Max({0, Min({y, Furthest(v)})}) IN
  [v EXCEPT !.scroll = to, !.scrolled = @ \/ to # v.scroll]
Clamped(v) == ScrolledTo(v, v.scroll)
-----------------------------------------------------------------------------
(* Anchors and measurements. *)

\* captureAnchor
Captured(v) == [i \in InView(v) \cap v.connected |-> Top(v, i)]

OrElse(anchor, other) == IF anchor = NoAnchor THEN other ELSE anchor

\* measureConnected, and the anchor for what it finds
Measured(v, ids) ==
  LET known == [i \in DOMAIN v.known \cup ids |-> IF i \in ids THEN v.tall[i] ELSE v.known[i]] IN
  [v EXCEPT !.known = known,
            !.pending = IF known = v.known THEN @ ELSE OrElse(@, v.stable)]

\* restoreAnchor
Restored(v) ==
  LET there == DOMAIN v.pending \cap v.connected
      first == Min(there)
      delta == Top(v, first) - v.pending[first]
      done  == [v EXCEPT !.pending = NoAnchor]
  IN  IF there = {} THEN done
      ELSE IF delta = 0 THEN done
      ELSE [ScrolledTo(done, v.scroll + delta) EXCEPT !.frame = TRUE]

\* Faulty: a pass is not counted.
PassesOnAgain(v) ==
  IF v.passes = 0 THEN v
  ELSE [v EXCEPT !.pending = v.lasting, !.frame = TRUE]

\* continueViewportSettlement
PassesOn(v) ==
  IF v.passes = 0 THEN v
  ELSE IF v.passes = 1 THEN [v EXCEPT !.passes = 0, !.lasting = NoAnchor]
  ELSE [v EXCEPT !.passes = @ - 1, !.pending = v.lasting, !.frame = TRUE]

\* what follows the placement of the items
AfterPlacing(v) ==
  LET r == Restored(Clamped(v)) IN PassesOn([r EXCEPT !.stable = Captured(r)])
-----------------------------------------------------------------------------
(* Windows. *)

Sizes(v) == [i \in Items(v) |-> IF i \in DOMAIN v.known THEN v.known[i] ELSE Estimate]

\* computeWindow: the first and the last item that the part of the list from y on shows
Window(v, sizes, y) ==
  LET end(i) == UpTo(sizes, v.from, i)
      total  == end(v.to)
      first  == Max({0, Min({y, total - 1})})
      beyond == Max({1, Min({Max({y + ViewHeight, first + 1}), total})})
  IN  [first |-> Min({i \in Items(v) : end(i) > first}),
       last  |-> Min({i \in Items(v) : end(i) >= beyond}),
       total |-> total]

Near(i, n) == (i - n)..(i + n)

\* Faulty: only the window is realized, with what has the focus.
RealizedUnpinned(v, w) ==
  Items(v) \cap (((w.first - Overscan)..(w.last + Overscan)) \cup {v.focus})

\* mergeRealizedRanges: the window, the focus and the anchor with their neighbours
Realized(v, w) ==
  LET anchors == DOMAIN v.pending \cap Items(v)
      pins    == ({v.focus} \cap Items(v)) \cup (IF anchors = {} THEN {} ELSE {Min(anchors)})
      shown   == (w.first - Overscan)..(w.last + Overscan)
  IN  Items(v) \cap (shown \cup UNION {Near(i, 1) : i \in pins})

\* edgeToken, of an edge with an action
Token(v, edge) ==
  LET offset == IF Counted THEN v.from - 1 ELSE 0 IN
  IF v.to < v.from THEN <<>>
  ELSE IF edge = "start" THEN IF v.from = 1 THEN <<>> ELSE <<v.from, offset>>
  ELSE IF v.to = Supply THEN <<>> ELSE <<v.to, offset>>

InReach(v, w, edge) ==
  IF edge = "start" THEN w.first - v.from <= Overscan ELSE v.to - w.last <= Overscan

\* maybeDispatchEdges
Asks(v, w, edge) ==
  LET token == Token(v, edge)
  IN  IF InReach(v, w, edge) /\ v.busy # edge /\ token # <<>> /\ token # v.asked[edge]
      THEN [v EXCEPT !.asked[edge] = token, !.tasks = Append(@, <<edge, token>>)]
      ELSE v

Placed(v, ids, sizes) ==
  [v EXCEPT !.connected = ids, !.spaced = [i \in Items(v) \ ids |-> sizes[i]]]

\* layout; `found` are the items in state.realized
Laid(v, found) ==
  LET small  == v.to - v.from < SmallList
      whole  == Measured(Placed(v, Items(v), NoAnchor), Items(v))
      few    == Measured(v, found \cap Items(v))
      base   == IF small THEN whole ELSE few
      sizes  == Sizes(base)
      w      == Window(v, sizes, v.scroll)
      placed == IF small THEN whole
                ELSE Placed(few, Realized(few, w), sizes)
      done   == AfterPlacing(placed)
  IN  IF done.scroll >= w.total THEN done
      ELSE Asks(Asks(done, w, "start"), w, "end")
-----------------------------------------------------------------------------
(* Renders. *)

\* prepare, the patches, sync
Rendered(v, from, to, edge) ==
  LET prepared == [v EXCEPT !.frame = FALSE, !.pending = OrElse(@, Captured(v))]
      synced   == [prepared EXCEPT !.from = from, !.to = to, !.busy = edge,
                                   !.connected = from..to, !.spaced = NoAnchor,
                                   !.focus = IF @ \in from..to THEN @ ELSE NoItem,
                                   !.known = Restrict(@, DOMAIN @ \cap (from..to))]
  IN  Laid(Clamped(synced), Items(v))

\* the page is v, and what was to stay in place does so or hits the bounds of the list
StillThere(anchor, v) ==
  LET there == DOMAIN anchor \cap v.connected IN
  there # {} => Top(v, Min(there)) = anchor[Min(there)]

AtBound(v) == v.scroll \in {0, Furthest(v)}

Unmeasured(v) == {i \in v.connected : i \notin DOMAIN v.known \/ v.known[i] # v.tall[i]}

\* the item that is seen first, unless a spacer comes first
Seen(v) == Restrict(Captured(v), {Min(InView(v))} \cap DOMAIN Captured(v))

\* what was seen first is to stay until it leaves the view, unless the bounds of the
\* list keep it from that
StaysUnless(late) ==
  inPlace' = IF \/ late \/ ~DOMAIN inPlace \subseteq view'.connected \cap InView(view')
                \/ AtBound(view') /\ ~StillThere(inPlace, view')
             THEN NoAnchor ELSE inPlace
StaysSeen == StaysUnless(FALSE)

\* or prepare captures an anchor from a page that changed without notice
StaysRendered == StaysUnless(view.pending = NoAnchor /\ Unmeasured(view) # {})

NoPage(tall) ==
  [tall |-> tall, from |-> 1, to |-> 0, busy |-> "none", connected |-> {}, spaced |-> NoAnchor, known |-> NoAnchor,
   scroll |-> 0, scrolled |-> FALSE, frame |-> FALSE, focus |-> NoItem,
   pending |-> NoAnchor, stable |-> NoAnchor, lasting |-> NoAnchor, passes |-> 0,
   asked |-> [e \in ListEdges |-> <<>>], tasks |-> <<>>]

\* the first page is there
ListInit ==
  /\ \E tall \in FirstHeights :
       view = Rendered(NoPage(tall), 1, LoadSize, "none")
  /\ inPlace = NoAnchor /\ excuse = [e \in ListEdges |-> "none"] /\ listMoves = 0 /\ unrest = 0

TasksDone == view.tasks = <<>>
Moves == listMoves < MaxListMoves /\ listMoves' = listMoves + 1 /\ unrest' = 0
Follows == unrest' = unrest + 1 /\ UNCHANGED listMoves
-----------------------------------------------------------------------------
(* What the host does.  The microtasks of a task come before the next one. *)

\* onScroll
ScrollEvent ==
  /\ TasksDone /\ view.scrolled
  /\ view' = [view EXCEPT !.scrolled = FALSE, !.frame = TRUE, !.pending = Captured(view),
                          !.lasting = NoAnchor, !.passes = 0]
  /\ inPlace' = Seen(view) /\ Follows /\ UNCHANGED excuse

\* also after 100 ms, before the scroll events of a frame
FrameComes ==
  /\ TasksDone /\ view.frame
  /\ view' = Laid([view EXCEPT !.frame = FALSE], view.connected)
  /\ StaysSeen /\ Follows /\ UNCHANGED excuse

\* the ResizeObserver's callback
Observe ==
  LET anchor == OrElse(view.stable, Captured(view))
      there  == DOMAIN anchor \cap Items(view)
      above  == {i \in Unmeasured(view) \cap DOMAIN view.known : i < Min(there)}
      moved  == IF there = {} THEN 0
                ELSE UpTo([i \in Items(view) |->
                             IF i \in above THEN view.tall[i] - view.known[i] ELSE 0],
                          view.from, view.to)
      known  == Measured(view, Unmeasured(view)).known
  IN
  /\ TasksDone /\ Unmeasured(view) # {}
  /\ view' = [(IF moved = 0 THEN view ELSE ScrolledTo(view, view.scroll + moved))
                EXCEPT !.known = known, !.frame = TRUE, !.pending = OrElse(@, anchor)]
  /\ Follows /\ UNCHANGED <<inPlace, excuse>>

\* the microtask of maybeDispatchEdges, and the application's turn: a collection
\* that is loading raises an assertion
Microtask ==
  LET edge  == Head(view.tasks)[1]
      token == Head(view.tasks)[2]
      rest  == [view EXCEPT !.tasks = Tail(@)]
  IN
  /\ view.tasks # <<>>
  /\ IF Token(view, edge) # token THEN view' = rest /\ UNCHANGED <<inPlace, excuse>>
     ELSE IF view.busy = edge THEN view' = rest /\ UNCHANGED <<inPlace, excuse>>
     ELSE IF view.busy # "none"
     THEN view' = rest /\ excuse' = [excuse EXCEPT ![edge] = "refused"] /\ UNCHANGED inPlace
     ELSE /\ view' = Rendered(rest, view.from, view.to, edge)
          /\ excuse' = [excuse EXCEPT ![edge] = "none"] /\ StaysRendered
  /\ Follows
-----------------------------------------------------------------------------
(* The application's other turns, the user and the page. *)

\* a page comes; what is too much goes at the other end
PageComes ==
  LET to   == Min({Supply, view.to + LoadSize})
      from == Max({1, view.from - LoadSize})
  IN
  /\ view.busy # "none"
  /\ view' = IF view.busy = "end"
             THEN Rendered(view, Max({view.from, to - Retained + 1}), to, "none")
             ELSE Rendered(view, from, Min({view.to, from + Retained - 1}), "none")
  /\ excuse' = [e \in ListEdges |->
                  IF Token(view', e) = Token(view, e) THEN excuse[e]
                  ELSE IF Token(view', e) = view.asked[e] THEN "returned" ELSE "none"]
  /\ StaysRendered /\ Follows

PageFails ==
  /\ Moves /\ view.busy # "none"
  /\ excuse' = [excuse EXCEPT ![view.busy] = "failed"]
  /\ view' = Rendered(view, view.from, view.to, "none")
  /\ StaysRendered

Rerender ==
  /\ Moves /\ view' = Rendered(view, view.from, view.to, view.busy)
  /\ StaysRendered /\ UNCHANGED excuse

UserScrolls(y) ==
  /\ Moves /\ TasksDone /\ y # view.scroll
  /\ view' = [view EXCEPT !.scroll = y, !.scrolled = TRUE]
  /\ UNCHANGED <<inPlace, excuse>>

\* what the user sees has been observed before it was painted
UserFocuses(i) ==
  /\ Moves /\ TasksDone /\ Unmeasured(view) = {} /\ view.focus # i
  /\ view' = [view EXCEPT !.focus = i]
  /\ UNCHANGED <<inPlace, excuse>>

\* an item gets another height: of itself, with something it loads (onContentLoad), or
\* with the viewport or the fonts (onViewportChange)
Resized(v, by) ==
  LET anchor  == OrElse(v.stable, Captured(v))
      lasting == OrElse(v.lasting, anchor)
  IN  CASE by = "itself"   -> v
        [] by = "load"     -> [v EXCEPT !.frame = TRUE, !.pending = anchor]
        [] by = "viewport" -> [v EXCEPT !.frame = TRUE, !.pending = lasting, !.lasting = lasting,
                                        !.passes = 2]

Resize(i, h, by) ==
  /\ Moves /\ TasksDone /\ i \in view.connected /\ h # view.tall[i]
  /\ view' = Resized(Clamped([view EXCEPT !.tall[i] = h]), by)
  /\ inPlace' = IF view.pending \in {NoAnchor, view'.pending} THEN inPlace ELSE NoAnchor
  /\ UNCHANGED excuse

HostSteps == ScrollEvent \/ FrameComes \/ Observe \/ Microtask

ListNext ==
  \/ HostSteps \/ PageComes \/ PageFails \/ Rerender
  \/ \E y \in 0..Furthest(view) : UserScrolls(y)
  \/ \E i \in InView(view) \cap view.connected : UserFocuses(i)
  \/ \E i \in view.connected, h \in ItemHeights :
       \E by \in {"itself", "load", "viewport"} : Resize(i, h, by)

ListSpec == ListInit /\ [][ListNext]_listVars
-----------------------------------------------------------------------------
(* Properties. *)

\* nothing is left to do for the host, and no page is on its way
Quiet == TasksDone /\ ~view.scrolled /\ ~view.frame /\ Unmeasured(view) = {}
ListRests == Quiet /\ view.busy = "none"

\* The list's books agree: what has a spacer is what is not connected, and nothing is
\* remembered of items that left the list.
ListTypeOK ==
  /\ view.connected \subseteq Items(view) /\ view.connected # {}
  /\ DOMAIN view.spaced = Items(view) \ view.connected
  /\ DOMAIN view.known \subseteq Items(view)
  /\ view.from \in 1..Supply /\ view.to \in view.from..Supply
  /\ view.to - view.from < Retained
  /\ \A anchor \in {view.pending, view.stable, view.lasting, inPlace} :
       DOMAIN anchor \subseteq 1..Supply /\ Range(anchor) \subseteq Int
  /\ view.scroll \in 0..Furthest(view)
  /\ view.busy \in ListEdges \cup {"none"} /\ view.passes \in 0..2
  /\ excuse \in [ListEdges -> {"none", "refused", "failed", "returned"}]

\* Once there is nothing left to do, the viewport shows items and no spacer: the scroll
\* and the measurements that followed upon the last layout did not outrun it.
ViewIsRealized == Quiet => InView(view) \subseteq view.connected

\* "A focused item remains connected with its nearest context until focus can move
\* safely", wherever the user scrolls and whatever the pages bring.
FocusStays ==
  view.focus # NoItem =>
    /\ view.focus \in view.connected
    /\ Quiet => Near(view.focus, 1) \cap Items(view) \subseteq view.connected

\* What the user saw first after a scroll is in its place when all is done, though items above
\* it came, went, were measured or took other heights.
StaysInPlace == Quiet => StillThere(inPlace, view)

\* the edges in reach that have more behind them, but for the excused
Unasked(excuses) ==
  {e \in ListEdges : /\ InReach(view, Window(view, Sizes(view), view.scroll), e)
                     /\ Token(view, e) # <<>> /\ excuse[e] \notin excuses}

\* No edge is forgotten: at rest each one in reach is at the end of the data, or its load
\* failed, its question was refused as the other edge was being loaded, or its boundary
\* is the one that was last asked for, before it went and came back.
EdgesAreAsked == ListRests => Unasked({"refused", "failed", "returned"}) = {}

\* Layouts, measurements, scrolls that correct a place and pages that come do not keep
\* each other going: the list comes to rest.
ComesToRest == unrest <= MaxUnrest

\* A list is what the user may rely on, at each edge and in between.
ListsHold == ViewIsRealized /\ FocusStays /\ StaysInPlace /\ EdgesAreAsked

\* docs/windowed-lists.md:51-53: "An action is emitted once for a stable retained boundary;
\* a changed boundary can emit the next action."
ChangedBoundaryAsks == ListRests => Unasked({"refused", "failed"}) = {}
=============================================================================
