---------------------------- MODULE HostPreviews ----------------------------
(***************************************************************************)
(* Previews of selected images in the browser host: the selections and     *)
(* their object URLs (platform/host/content-capabilities.mjs), the         *)
(* reference-counted registry the renderer resolves them with              *)
(* (platform/host/content-source-registry.mjs), and the order in which a   *)
(* render applies its patches (platform/renderer/reconciler.mjs and        *)
(* dom-adapter.mjs).                                                       *)
(*                                                                         *)
(* The nodes of the tree are the images that may be in it, in tree order,  *)
(* all children of one parent; an image shows a preview or an asset.  A    *)
(* render is one synchronous step.  The transfer of a file is left out but *)
(* for the pruning it starts with, as is the disposal of the host.         *)
(***************************************************************************)
EXTENDS Naturals, FiniteSets

CONSTANTS
  Previews,       \* the handles that picks return
  Asset,          \* any other source of an image
  Absent,         \* the node is not in the tree
  Images,         \* the number of nodes
  MaxSelections,  \* maximumSelections: 8 in the code
  MaxRenders      \* bound on the renders

ASSUME PreviewsAssumption ==
  /\ Asset \notin Previews /\ Absent \notin Previews /\ Asset # Absent
  /\ {Images, MaxSelections, MaxRenders} \subseteq Nat \ {0}

VARIABLES
  content,   \* the selections and the registry, see below
  old,       \* the selections whose time to live is over
  pickedAs,  \* the number of the pick that returned the handle, or 0
  tree,      \* what the nodes show
  src,       \* the src attribute of the nodes
  lost,      \* nodes that took a preview from others in the last render
  renders

previewVars == <<content, old, pickedAs, tree, src, lost, renders>>

Trees == [1..Images -> Previews \cup {Asset, Absent}]

\* an object URL is its preview's k-th; 0 is no URL
Urls == Previews \X (Nat \ {0})
NoUrl == <<Absent, 0>>

Content ==
  [kept   : SUBSET Previews,     \* selections
   url    : [Previews -> Nat],   \* selection.url
   made   : [Previews -> Nat],   \* object URLs created
   live   : SUBSET Urls,         \* and not revoked
   entry  : [Previews -> Nat],   \* the URL the registry caches
   owners : [Previews -> Nat]]

picked == {p \in Previews : pickedAs[p] # 0}

PreviewsTypeOK ==
  /\ content \in Content /\ Cardinality(content.kept) <= MaxSelections
  /\ pickedAs \in [Previews -> Nat] /\ old \subseteq picked
  /\ tree \in Trees /\ src \in [1..Images -> Urls \cup {NoUrl}]
  /\ lost \subseteq 1..Images /\ renders \in 0..MaxRenders

PreviewsInit ==
  /\ content = [kept |-> {}, url |-> [p \in Previews |-> 0],
                made |-> [p \in Previews |-> 0], live |-> {},
                entry |-> [p \in Previews |-> 0], owners |-> [p \in Previews |-> 0]]
  /\ old = {} /\ pickedAs = [p \in Previews |-> 0] /\ lost = {} /\ renders = 0
  /\ tree = [n \in 1..Images |-> Absent] /\ src = [n \in 1..Images |-> NoUrl]
-----------------------------------------------------------------------------
(* Selections. *)

\* selections are dropped and their object URLs revoked; the registry is not told
Drop(c, ps) ==
  [c EXCEPT !.kept = @ \ ps, !.live = @ \ {<<p, c.url[p]>> : p \in ps},
            !.url = [p \in Previews |-> IF p \in ps THEN 0 ELSE @[p]]]

\* prune: what is expired goes, and the oldest, until one more fits
Prune(c) ==
  LET fresh == c.kept \ old
      Since(p) == {q \in fresh : pickedAs[q] >= pickedAs[p]}
  IN  Drop(c, c.kept \ {p \in fresh : Cardinality(Since(p)) < MaxSelections})

Pick(p) ==
  /\ p \notin picked /\ pickedAs' = [pickedAs EXCEPT ![p] = Cardinality(picked) + 1]
  /\ content' = [Prune(content) EXCEPT !.kept = @ \cup {p}]
  /\ UNCHANGED <<old, tree, src, lost, renders>>

\* Content.release
ReleaseSelection(p) ==
  /\ p \in content.kept /\ content' = Drop(content, {p})
  /\ UNCHANGED <<old, pickedAs, tree, src, lost, renders>>

\* content.upload, start
Upload ==
  /\ content' = Prune(content)
  /\ UNCHANGED <<old, pickedAs, tree, src, lost, renders>>

\* all live equally long
Expire ==
  \E p \in content.kept \ old :
    /\ \A q \in content.kept \ old : pickedAs[p] <= pickedAs[q]
    /\ old' = old \cup {p}
    /\ UNCHANGED <<content, pickedAs, tree, src, lost, renders>>
-----------------------------------------------------------------------------
(* The registry. *)

\* resolve: what is cached, or resolvePreview's URL, which is a new one when
\* the selection has none
Resolve(c, p) ==
  IF c.entry[p] # 0 THEN c
  ELSE LET d == Prune(c)
           k == IF d.url[p] # 0 THEN d.url[p] ELSE d.made[p] + 1
       IN  IF p \notin d.kept THEN d
           ELSE [d EXCEPT !.url[p] = k, !.made[p] = IF k > @ THEN k ELSE @,
                          !.live = @ \cup {<<p, k>>}, !.entry[p] = k, !.owners[p] = 0]

Known(c, u) == u # NoUrl /\ c.entry[u[1]] = u[2]

Retain(c, u) == IF Known(c, u) THEN [c EXCEPT !.owners[u[1]] = @ + 1] ELSE c

\* Faulty: the entry outlives its last owner.
ReleaseKeepingEntry(c, u) ==
  IF ~Known(c, u) \/ c.owners[u[1]] = 0 THEN c
  ELSE IF c.owners[u[1]] > 1 THEN [c EXCEPT !.owners[u[1]] = @ - 1]
  ELSE [c EXCEPT !.owners[u[1]] = 0, !.url[u[1]] = 0,
                 !.live = @ \ {<<u[1], c.url[u[1]]>>}]

\* the last owner goes: the entry is dropped and the selection's URL revoked
Release(c, u) ==
  IF ~Known(c, u) \/ c.owners[u[1]] = 0 THEN c
  ELSE IF c.owners[u[1]] > 1 THEN [c EXCEPT !.owners[u[1]] = @ - 1]
  ELSE [c EXCEPT !.owners[u[1]] = 0, !.entry[u[1]] = 0, !.url[u[1]] = 0,
                 !.live = @ \ {<<u[1], c.url[u[1]]>>}]
-----------------------------------------------------------------------------
(* A render. *)

\* what is done node by node, in tree order, to v
ByNodes(step, v) ==
  LET after[n \in 0..Images] == IF n = 0 THEN v ELSE step[n][after[n - 1]]
  IN  after[Images]

\* the tree is materialized first; it throws when a preview has gone
Materialized(to) ==
  ByNodes([n \in 1..Images |-> [m \in [c : Content, ok : BOOLEAN] |->
             IF ~m.ok \/ to[n] \notin Previews THEN m
             ELSE LET c == Resolve(m.c, to[n]) IN [c |-> c, ok |-> c.entry[to[n]] # 0]]],
          [c |-> content, ok |-> TRUE])

\* the src the patches give the nodes
Attributes(c, to) ==
  [n \in 1..Images |-> IF to[n] \in Previews THEN <<to[n], c.entry[to[n]]>> ELSE NoUrl]

\* removals come before all other patches
RemovePatches(c, to) ==
  ByNodes([n \in 1..Images |-> [d \in Content |->
             IF to[n] = Absent THEN Release(d, src[n]) ELSE d]],
          c)

\* setAttribute: the old resource is released, the new one retained
SetPatches(c, to) ==
  ByNodes([n \in 1..Images |-> [d \in Content |->
             IF to[n] = src[n] THEN d ELSE Retain(Release(d, src[n]), to[n])]],
          c)

Render(to) ==
  LET m == Materialized(to)
      a == Attributes(m.c, to)
      d == RemovePatches(m.c, to)
      gone == [n \in 1..Images |-> IF to[n] = Absent THEN src[n] ELSE a[n]]
  IN  /\ renders < MaxRenders /\ renders' = renders + 1
      /\ IF ~m.ok THEN content' = m.c /\ UNCHANGED <<tree, src, lost>>
         ELSE /\ content' = SetPatches(d, gone)
              /\ src' = a /\ tree' = to
              /\ lost' = {n \in 1..Images :
                            /\ to[n] \in Previews /\ tree[n] # to[n]
                            /\ \E k \in 1..Images : tree[k] = to[n] /\ to[k] # to[n]}
      /\ UNCHANGED <<old, pickedAs>>

PreviewsNext ==
  \/ \E p \in Previews : Pick(p) \/ ReleaseSelection(p)
  \/ Upload \/ Expire
  \/ \E to \in Trees : {to[n] : n \in 1..Images} \cap Previews \subseteq picked /\ Render(to)

PreviewsSpec == PreviewsInit /\ [][PreviewsNext]_previewVars
-----------------------------------------------------------------------------
(* Properties. *)

\* A selection that was not dropped is visible where it is
\* shown ("rendered blob URLs are also revoked when their final UI.Image owner
\* disappears"), unless the last render gave it to a node and took it from another:
\* there the owner that goes is taken for the last one.
LiveUnlessMoved ==
  \A n \in (1..Images) \ lost : tree[n] \in content.kept => src[n] \in content.live

\* No object URL outlives its selection, or is forgotten by it: each one can
\* still be revoked.
LiveUrlsAreKept ==
  \A u \in content.live : u[1] \in content.kept /\ content.url[u[1]] = u[2]

\* The registry's books are the tree: an entry has as many owners as there are
\* nodes with its URL, whatever was picked, dropped and rendered in between.
OwnersMirrorNodes ==
  \A p \in Previews : content.entry[p] # 0 =>
    content.owners[p] = Cardinality({n \in 1..Images : src[n] = <<p, content.entry[p]>>})

\* A preview is visible as long as it is shown, and every object URL will be
\* revoked, by its selection or its last owner.
PreviewsHold == LiveUnlessMoved /\ LiveUrlsAreKept /\ OwnersMirrorNodes
=============================================================================
