------------------------------ MODULE HostPage ------------------------------
(***************************************************************************)
(* Successive render trees brought to the page: the patches of the         *)
(* reconciler (platform/renderer/reconciler.mjs) and what the adapter of   *)
(* the DOM does with them (platform/renderer/dom-adapter.mjs), for the     *)
(* session of the host (platform/host/main.js).                            *)
(*                                                                         *)
(* A node has an id, a tag, a text and children.  Attributes, events and   *)
(* the state of a modal are compared one by one and left out, as are       *)
(* focus, input composition and what follows a render (windowed lists,     *)
(* orbits).  Nothing keeps a node from having a text and children.         *)
(***************************************************************************)
EXTENDS Naturals, SequencesExt

CONSTANTS
  Roots,        \* ids of the root of a tree
  Parts,          \* ids of the other nodes
  Looks,          \* for every id, the pairs of tag and text it may have
  HostRoot,       \* the element of the host
  NoNode,         \* no id
  MaxPageRenders  \* bound on the renders

PageIds == Roots \cup Parts

ASSUME PageAssumption ==
  /\ IsFiniteSet(PageIds) /\ Roots \cap Parts = {} /\ HostRoot # NoNode /\ {HostRoot, NoNode} \cap PageIds = {}
  /\ MaxPageRenders \in Nat /\ DOMAIN Looks = PageIds

VARIABLES
  shown,        \* tree: what was rendered last; a function of ids
  page,         \* the document and #nodes: a function of ids
  displaced,    \* nodes of which a child was replaced by one of another tag
  harm,         \* "torn": a text took children away that stay in the tree;
                \* "broken": a render failed half-way
  pageRenders

pageVars == <<shown, page, displaced, harm, pageRenders>>

NoTree == <<>>
Blank == [id \in {HostRoot} |-> [tag |-> "div", text |-> "", kids |-> <<>>]]

KidsOf(nodes, id) == ToSet(nodes[id].kids)

\* what of a list is in S, in the order of the list
Among(list, S) ==
  LET found[i \in 0..Len(list)] ==
        IF i = 0 THEN <<>>
        ELSE IF list[i] \in S THEN Append(found[i - 1], list[i]) ELSE found[i - 1]
  IN  found[Len(list)]

\* the trees that rendererTreeError admits: the nodes in the order of the document,
\* each below one that comes before it
PageTrees ==
  UNION {
    LET ids     == {root} \cup ToSet(order)
        looks   == {look \in [ids -> UNION {Looks[id] : id \in ids}] :
                      \A id \in ids : look[id] \in Looks[id]}
        parents == {parent \in [ToSet(order) -> ids] :
                      \A i \in DOMAIN order :
                        parent[order[i]] \in {root} \cup {order[j] : j \in 1..(i - 1)}}
        below(parent, id) == {c \in ToSet(order) : parent[c] = id}
    IN  {[id \in ids |-> [tag |-> look[id][1], text |-> look[id][2],
                         kids |-> Among(order, below(parent, id))]] :
           look \in looks, parent \in parents} :
    root \in Roots, order \in SetToAllKPermutations(Parts)}

PageTypeOK ==
  /\ shown \in PageTrees \cup {NoTree}
  /\ HostRoot \in DOMAIN page /\ DOMAIN page \subseteq PageIds \cup {HostRoot}
  /\ \A id \in DOMAIN page : KidsOf(page, id) \subseteq DOMAIN page \ {HostRoot}
  /\ displaced \subseteq PageIds /\ harm \in {"none", "torn", "broken"}
  /\ pageRenders \in 0..MaxPageRenders

PageInit ==
  shown = NoTree /\ page = Blank /\ displaced = {} /\ harm = "none" /\ pageRenders = 0
-----------------------------------------------------------------------------
(* The reconciler. *)

RootOf(tree) == CHOOSE id \in Roots : id \in DOMAIN tree

CreatePatch(id, tag)           == <<[kind |-> "create", target |-> id, tag |-> tag]>>
RemovePatch(id)                == <<[kind |-> "remove", target |-> id]>>
TextPatch(id, text)            == <<[kind |-> "text", target |-> id, text |-> text]>>
PlacePatch(parent, id, before) == <<[kind |-> "place", target |-> parent, child |-> id, before |-> before]>>

\* what the elements of a list emit, one after the other
EmittedBy(list, of) ==
  LET emitted[i \in 0..Len(list)] == IF i = 0 THEN <<>> ELSE emitted[i - 1] \o of[list[i]]
  IN  emitted[Len(list)]

\* emitCreate, but for the placement of the node itself; `created` has the same of the others
CreationOf(tree, id, created) ==
  CreatePatch(id, tree[id].tag)
  \o (IF tree[id].text = "" THEN <<>> ELSE TextPatch(id, tree[id].text))
  \o EmittedBy(tree[id].kids,
             [k \in KidsOf(tree, id) |-> created[k] \o PlacePatch(id, k, NoNode)])

Creations(tree) ==
  LET created[id \in DOMAIN tree] == CreationOf(tree, id, created) IN created

Creation(tree, id, parent) == Creations(tree)[id] \o PlacePatch(parent, id, NoNode)

IndexOf(order, id) == CHOOSE i \in DOMAIN order : order[i] = id

Cut(order, id) ==
  IF id \in ToSet(order) THEN RemoveAt(order, IndexOf(order, id)) ELSE order

Moved(order, id, before) ==
  LET rest == Cut(order, id) IN
  IF before = NoNode THEN Append(rest, id) ELSE InsertAt(rest, IndexOf(rest, before), id)

\* the i-th child from the end of `desired`: if it does not stand before its successor,
\* it is placed there
Turn(parent, desired, i, last) ==
  LET id      == desired[Len(desired) + 1 - i]
      before  == IF i = 1 THEN NoNode ELSE desired[Len(desired) + 2 - i]
      correct == IF i = 1 THEN IndexOf(last.order, id) = Len(last.order)
                 ELSE IndexOf(last.order, id) + 1 = IndexOf(last.order, before)
  IN  IF correct THEN last
      ELSE [order   |-> Moved(last.order, id, before),
            patches |-> last.patches \o PlacePatch(parent, id, before)]

Placements(parent, order, desired) ==
  LET turn[i \in 0..Len(desired)] ==
        IF i = 0 THEN [order |-> order, patches |-> <<>>]
        ELSE Turn(parent, desired, i, turn[i - 1])
  IN  turn[Len(desired)].patches

Staying(old, new, id) == KidsOf(old, id) \cap KidsOf(new, id)

\* currentOrder, when all children have been handled
CurrentOrder(old, new, id) ==
  Among(old[id].kids, KidsOf(new, id)) \o Among(new[id].kids, KidsOf(new, id) \ KidsOf(old, id))

ChildChanges(old, new, id, k, changes) ==
  IF k \notin KidsOf(old, id) THEN Creation(new, k, id)
  ELSE IF old[k].tag # new[k].tag THEN RemovePatch(k) \o Creation(new, k, id)
  ELSE changes[k]

\* reconcileNode for a node with one tag in both trees; `changes` has the same of the others
ChangesOf(old, new, id, changes) ==
  LET gone == Among(old[id].kids, KidsOf(old, id) \ KidsOf(new, id)) IN
  (IF old[id].text = new[id].text THEN <<>> ELSE TextPatch(id, new[id].text))
  \o EmittedBy(gone, [k \in ToSet(gone) |-> RemovePatch(k)])
  \o EmittedBy(new[id].kids, [k \in KidsOf(new, id) |-> ChildChanges(old, new, id, k, changes)])
  \o (IF CurrentOrder(old, new, id) = new[id].kids THEN <<>>
      ELSE Placements(id, CurrentOrder(old, new, id), new[id].kids))

Changes(old, new) ==
  LET changes[id \in DOMAIN old \cap DOMAIN new] == ChangesOf(old, new, id, changes)
  IN  changes

Patches(old, new) ==
  IF old = NoTree THEN Creation(new, RootOf(new), HostRoot)
  ELSE IF RootOf(old) # RootOf(new) \/ old[RootOf(old)].tag # new[RootOf(new)].tag
  THEN RemovePatch(RootOf(old)) \o Creation(new, RootOf(new), HostRoot)
  ELSE Changes(old, new)[RootOf(new)]
-----------------------------------------------------------------------------
(* The adapter. *)

\* what `next` leads to from S, in as many steps as there are nodes
Reached(next, S) ==
  LET n == Cardinality(DOMAIN next)
      reached[i \in 0..n] ==
        IF i = 0 THEN S
        ELSE LET sofar == reached[i - 1]
             IN  sofar \cup UNION {next[id] : id \in sofar \cap DOMAIN next}
  IN  reached[n]

\* Faulty: the descendants of the children are forgotten.
UnderKids(nodes, id) == {id} \cup KidsOf(nodes, id)

Under(nodes, id) == Reached([n \in DOMAIN nodes |-> KidsOf(nodes, n)], {id})

Unhung(nodes, id) == [n \in DOMAIN nodes |-> [nodes[n] EXCEPT !.kids = Cut(@, id)]]

\* one patch; a text sets textContent, whose children are gone from the document then
Applied(nodes, patch) ==
  LET id == patch.target IN
  CASE patch.kind = "create" ->
         [n \in DOMAIN nodes \cup {id} |->
            IF n = id THEN [tag |-> patch.tag, text |-> "", kids |-> <<>>] ELSE nodes[n]]
    [] patch.kind = "text"   -> [nodes EXCEPT ![id].text = patch.text, ![id].kids = <<>>]
    [] patch.kind = "remove" -> Restrict(Unhung(nodes, id), DOMAIN nodes \ Under(nodes, id))
    [] patch.kind = "place"  ->
         [Unhung(nodes, patch.child) EXCEPT ![id].kids = Moved(@, patch.child, patch.before)]

\* what #preflight asks of a patch, and what makes #apply raise
Admits(nodes, patch) ==
  /\ patch.kind = "create" <=> patch.target \notin DOMAIN nodes
  /\ patch.kind = "remove" => patch.target # HostRoot
  /\ patch.kind = "place" =>
       /\ patch.child \in DOMAIN nodes \ {HostRoot}
       /\ patch.before \in KidsOf(nodes, patch.target) \cup {NoNode}
       /\ patch.target \notin Under(nodes, patch.child)

\* one patch after the others, up to one that is refused; on the graph of #preflight
\* texts take nothing away
Then(last, patch, textsClear) ==
  IF ~last.whole \/ ~Admits(last.page, patch) THEN [page |-> last.page, whole |-> FALSE]
  ELSE IF patch.kind = "text" /\ ~textsClear THEN last
  ELSE [page |-> Applied(last.page, patch), whole |-> TRUE]

After(nodes, patches, textsClear) ==
  LET after[i \in 0..Len(patches)] ==
        IF i = 0 THEN [page |-> nodes, whole |-> TRUE]
        ELSE Then(after[i - 1], patches[i], textsClear)
  IN  after[Len(patches)]

\* #preflight
Admitted(nodes, patches) == After(nodes, patches, FALSE).whole

\* the nodes that a render keeps: the same id and tag below a parent that it keeps
KeptNodes(old, new) ==
  LET same == {id \in DOMAIN old \cap DOMAIN new : old[id].tag = new[id].tag}
  IN  Reached([id \in same |-> Staying(old, new, id) \cap same], Roots \cap same)

\* A text takes nodes away that the tree keeps.
Tears(old, new) ==
  \E id \in KeptNodes(old, new) :
    old[id].text # new[id].text /\ Staying(old, new, id) # {}

\* render, in main.js, and applyBatch: a batch that is not admitted changes nothing
RenderPage(new) ==
  LET patches == Patches(shown, new)
      after   == After(page, patches, TRUE)
      kept    == KeptNodes(shown, new)
  IN
  /\ pageRenders < MaxPageRenders /\ pageRenders' = pageRenders + 1
  /\ IF ~Admitted(page, patches) THEN UNCHANGED <<shown, page, displaced, harm>>
     ELSE /\ page' = after.page
          /\ shown' = IF after.whole THEN new ELSE shown
          /\ harm' = IF ~after.whole THEN "broken"
                     ELSE IF harm = "none" /\ Tears(shown, new) THEN "torn" ELSE harm
          /\ displaced' = (displaced \cap kept)
               \cup {id \in kept : \E k \in Staying(shown, new, id) : k \notin kept}

PageNext == \E new \in PageTrees : RenderPage(new)

PageSpec == PageInit /\ [][PageNext]_pageVars
-----------------------------------------------------------------------------
(* Properties. *)

Expected(tree) ==
  IF tree = NoTree THEN Blank
  ELSE [id \in DOMAIN tree \cup {HostRoot} |->
          IF id = HostRoot THEN [Blank[HostRoot] EXCEPT !.kids = <<RootOf(tree)>>] ELSE tree[id]]

\* "logical render-tree order" (website/app/src/reference-data.luau:4520): the page
\* shows the last tree, with its children in their order.
PageShowsTree == page = Expected(shown)

\* The page and #nodes have the nodes of the last tree, each with its look below its
\* parent, and in order, except among the children of a node of which one was
\* replaced; and those that a text did not take away.
PageShowsNodes ==
  LET expected == Expected(shown)
      look(nodes, id) == <<nodes[id].tag, nodes[id].text>>
  IN
  /\ harm # "broken" =>
       \A id \in DOMAIN expected : id \in DOMAIN page /\ look(page, id) = look(expected, id)
  /\ harm = "none" =>
       /\ DOMAIN page = DOMAIN expected
       /\ \A id \in DOMAIN page :
            IF id \in displaced THEN page[id].kids \in SetToSeqs(KidsOf(shown, id))
            ELSE page[id].kids = expected[id].kids

\* A render is refused only if a node changes its parent, and does not fail half-way,
\* unless a text tore the page; and nodes that are kept are neither removed nor created,
\* so that they keep their focus, their input and their scrolled position.
RendersKeepNodes ==
  pageRenders \in 1..(MaxPageRenders - 1) =>
    \A new \in PageTrees :
      LET patches == Patches(shown, new)
          kept    == KeptNodes(shown, new)
          parents(tree, id) == {p \in DOMAIN tree : id \in KidsOf(tree, p)}
      IN  /\ harm = "none" =>
               /\ \/ Admitted(page, patches)
                  \/ \E id \in DOMAIN shown \cap DOMAIN new : parents(shown, id) # parents(new, id)
               /\ Admitted(page, patches) => After(page, patches, TRUE).whole \/ Tears(shown, new)
          /\ \A i \in DOMAIN patches :
               patches[i].kind \in {"create", "remove"} =>
                 patches[i].target \notin kept

PageHolds == PageShowsNodes /\ RendersKeepNodes
=============================================================================
