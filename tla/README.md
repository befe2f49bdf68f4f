# Luastra: models, checks and proofs

This directory holds TLA+ models of Luastra, the TLC runs that check them on
small instances, and TLAPS proofs of their most important properties. It is
written for a reader who has the repository at hand; paths are relative to its
root. `PROJECT.json` is the index: components, runs, mutants, the map from
definitions to source lines, findings, hazards and theorems.

To repeat a check: `tlc -config ProviderSession.cfg MCProviderSession` and
likewise for every pair in the table of runs; `tlapm ProviderSessionProofs.tla`
for a proof module.

## 1. The system and its parts

Luastra runs applications written in Luau inside a WebAssembly VM. A JavaScript
host (`platform/host`) renders them, gives them capabilities (timers, storage,
media, content, navigation, server functions) and talks to a project backend
(`backend`). The SDK (`sdk/luastra`) is the Luau side: application composition,
resources, collections, navigation. The project tooling (`project`, `cli`,
`release`) builds, serves and packages applications and installs SDK versions,
and `supabase/migrations` holds the server-side store used with Supabase.

How a request travels: an application turn calls a host capability; the VM puts
a request into its queue (`vm_wasm.cpp`); a `processRequests` loop of `main.js`
takes it, enters it into the request ledger, calls the capability's handler and
resolves the answer into the VM; the SDK hands it to the feature that claimed
the id (`app.luau`), which resolves its read or mutation (`resource.luau`) or
its collection (`collection.luau`). A server call goes from the handler over
HTTP to the backend runtime (`runtime.mjs`), which answers from its idempotency
cache or executes a handler; handlers use the upload store (`uploads.mjs`),
records (`records.mjs`), and, through the provider's sessions, the identity
provider. State of the host (visibility, connectivity, expired timers, popped
history entries, links) travels the other way through the queue of host events
(`lifecycle-bridge.mjs`). Every turn ends with a new tree, which the reconciler
turns into patches (`reconciler.mjs`) and the adapter applies to the document
(`dom-adapter.mjs`), where previews and motion hang on to its elements.

### Modelled parts

| Part | State it keeps | What is hard about it | What makes it correct |
|---|---|---|---|
| Provider sessions (`backend/provider-session.mjs`, `provider-identity.mjs`) | one SQLite row per session: encrypted provider tokens, expiry times, a refresh lease, a revision | several processes on one file; the provider rotates its token and the answer may be late or lost; the lease may run out first | no lost update, no token lost without a call to account for it, no stuck lease, sign-out is final |
| SQL sessions and revocation outbox (`supabase/migrations/20260816105756…`, `…105915…`, `…110333…`) | the session row, the outbox row of its revocation | transactions act on the time they began at; callers and workers die between transactions | refreshes redeem what is stored, the newest token is what gets revoked, one worker at a time, secrets do not stay for ever |
| Request ledger (`platform/protocol/request-ledger.mjs`) | pending requests with deadlines | four ways to end one request race around its deadline | each request ends once, none late |
| Host request loop and VM queue (`platform/host/main.js`, `vm_wasm.cpp`) | queue and slots of the VM, ledger, loops | loops interleave at every handler; a raise half-way | no request twice or forgotten, no answer lost silently, books that agree |
| Host events and timers (`lifecycle-bridge.mjs`, `timer-capabilities.mjs`) | a promise chain, pending deduplication keys, running timers, expiries before a listener | the host changes while an earlier change is handled; callbacks race replacements | the application was last told the state the host is in; every expiry is handed over once |
| Media (`media-capabilities.mjs`, `platform/media/media-state-machine.mjs`) | state machine, the element, one flag for "a command is handled" | commands overlap at their awaits, sources arrive late | the application knows the state the machine is in; sound and state agree |
| Previews (`content-capabilities.mjs`, `content-source-registry.mjs`) | selections with object URLs, a reference-counted cache | URLs are released node by node within a render, and expire | no shown preview loses its URL on the way; every URL is revoked at last |
| Motion and frames (`platform/motion`, `platform/scheduler`, `motion-renderer-session.mjs`) | declarations, running tweens, scheduled tasks | steps hand over to steps within the call that starts them; replacement during a frame | what runs is what the tree declares, or nothing; a motion that can end does |
| Windowed lists (`windowed-list-controller.mjs`) | measured heights, what is connected, an anchor, the token each edge asked with last | scrolls, frames, measurements, pages and focus come in any order, and each corrects the scroll | the viewport shows items, what is seen stays in place, no edge is forgotten, the list comes to rest |
| Renderer (`platform/renderer`) | the tree, the document, the adapter's nodes | patches depend on what the patches before them left | the page ends with the tree's nodes, kept nodes keep their elements |
| History (`sdk/luastra/navigation.luau`, `platform-capabilities.mjs`, `website/app/src/main.luau`) | the router's stack, the browser's entries with a token each | two histories kept together through a queue; one step makes two events | once quiet the application shows the browser's entry, with its stack |
| Upload store (`backend/uploads.mjs`) | intents, pending files, objects, active transfers | every method prunes and awaits; two commits, a prune and a disposal race for one file | an image is published at most once and stays; no file without an owner |
| Backend runtime (`backend/runtime.mjs`) | idempotency cache: key, input hash, promise, expiry | retries while the first execution runs, failures, a full cache, callers who go away | one execution per key, the answer of that execution, never a remembered failure |
| Records (`backend/records.mjs`, `database.mjs`) | rows by id; cursors that hold a boundary | rows move between the pages of a walk; authorization awaits before a write | a walk passes over nothing that stayed; only owners write |
| Sessions and grants in memory (`backend/session.mjs`, `content.mjs`) | tables in the order of issue, with expiry | a lookup prunes, at the limit also what is live; a delivery is awaited; the file is others' | a table that was never full loses nobody; what is served is what was admitted |
| Read and mutation states (`sdk/luastra/resource.luau`) | status, value, generation, active ticket, rollback | answers late, repeated, reordered; callbacks that raise | status, value and ticket agree; optimistic changes are settled once |
| Application composition (`sdk/luastra/app.luau`) | feature records, request ownership, suppressed results | answers for claims that were cancelled, a disposal that is interrupted | an answer is handed over once, to its owner, or suppressed and counted |
| Paged collections (`sdk/luastra/collection.luau`) | pages, keys, consumed cursors, anchor, ticket | eviction, edits and loads interleave at both ends | keys once and within budget; pages continue one another |
| Development server (`project/run-project.mjs`) | build under way, one queued, bundle and backend that are served | edits during a build, failures after the swap, close() at any time | the last edit is built; what is served is whole |
| Build outputs (`project/output-transaction.mjs`) | lock directory, workspace, output | crashes between two renames, several builders | the last good output is in place or in the workspace |
| Project libraries (`project/library-packages.mjs`) | lockfile and a directory per library | the two change one after the other; every step may fail | what is locked is installed, and a failure refuses nothing later |
| SDK versions (`release/luastra-install.mjs`) | version directories, the active version, the commands in bin | commands that look first and act later, overlap and die | the active version is there as a whole |

### Not modelled

| Part | Why |
|---|---|
| Store, data and server helpers (`sdk/luastra/state.luau`, `data.luau`, `server.luau`) | synchronous, little state |
| Orbit controller, viewport, first paint | floating-point geometry and browser layout: no small instance stands for them |
| UI builders, wire formats, code generators, VM front end, contracts | pure functions over strings and trees |
| Supabase HTTP, other migrations, native plugins, identity | one call of an external service or library per operation |
| Project loading, building, testing, packaging, releases | batch programs that read files and write new ones |
| Website, examples, reference data | applications that use the system; more than half of all lines of the repository's implementation is data they display (`website/site/*reference-data.js`) and what generates it |

Most lines of the repository are therefore outside of any model: generated
reference data, code generators, audits, geometry and formats. What the models
cover is the part that keeps state and whose steps can interleave, fail or come
in another order.

## 2. The modules

```
ProviderSession <- MCProviderSession

HostRequests, RequestLedger <- RequestBooks
HostEvents <- HostTimers, HostMedia,                       <- MCHost
HostPreviews, HostMotion, HostPage <- MCPage,
WindowedLists <- MCLists

UploadPromise <- ContentUploads (implements it)  \
UploadPromise <- BackendMutations (uses it)       >        <- MCBackend
Idempotency   <- BackendMutations                |
Records, AccessGrants                            /

Resources <- AppFeatures         \
Collections, HostHistory         >                         <- MCSdk

ProjectLibraries, SdkVersions <- Installations      \
OutputPromise <- OutputTransaction (implements it)   >     <- MCStores
ServerSessions, DevServer                           /
```

The proofs about a module stand in a module of their own that extends it: ProviderSessionProofs,
ContentUploadsProofs, BackendProofs (UploadPromise, BackendMutations, AccessGrants and Records, and
MCBackend, which joins them), SdkProofs (AppFeatures, Collections, HostHistory and MCSdk), ListProofs (WindowedLists),
PageProofs (HostPage, by the lemmas about lists of ListProofs), HostProofs (RequestBooks, HostTimers with
HostEvents, HostMedia, HostPreviews and HostMotion, and MCHost, which joins all of these with list and page) and StoresProofs (ServerSessions, DevServer,
Installations and OutputTransaction, and MCStores, which joins them).

An arrow reads "is extended or instantiated by". `MCHost`, `MCBackend`, `MCSdk`
and `MCStores` are sums: a variable (`part`, `kind`, `store`) picks one
part at the start, that part takes its steps and the others stand still. So
one run checks parts that share no state without multiplying them. Parts that do
interact are composed in earnest: HostTimers with HostEvents, BackendMutations
with UploadPromise, AppFeatures with Resources, HostHistory with queue, router and
browser. Definitions with a comment "Faulty: …" before a definition of the
model are the plausible mistakes the properties are tried against; the
specifications do not use them.

**ProviderSession.** `row` is the row of `luastra_provider_sessions`. Tokens are
told apart by their generation: `row.gen` is the refresh token that is stored and
`provider.gen` the one the provider honours. Each call of `useProvider` or `signOut`
is a process with a place `pc`, the `material` it read, the request it has on the
`wire` and the provider's `reply`. A store call is one transaction or one
compare-and-set UPDATE, hence one step; between two of them everything may
happen, including `Crash`. The provider answers after its caller gave up, too.

**ServerSessions.** Every function of the migrations is one action taking the time
`t` its transaction began at, at most `Lag` behind the clock. `caller` and `worker`
stand for the processes that use these functions, whose code is not in the repository;
they follow the functions' contracts and may stop anywhere.

**RequestLedger, HostRequests.** The ledger's class with its callers left open, and
the loops of `main.js`: `DispatchEvent` is a turn of the application followed by
the start of a loop; from then on one step takes a loop from the answer of its
handler to the call of the next handler, because JavaScript runs it so. `RequestBooks` joins
the two, whose variables are their own, for the property and the theorem about both (RequestsHold).

**HostEvents, HostTimers.** Two channels of state whose changes carry a
deduplication key, and events without one. The promise chain is `queue` and
`running`; `bridge` is where `start()` is between its awaits. HostTimers adds the
timers whose expiries those events are, with the list that collects them before
`main.js` subscribes.

**HostMedia.** A command runs from await to await (that of the source, that of `play()`); the
element's events come between. What the application
was last told (`told`) is compared with the machine once no command is under way.

**HostPreviews, HostPage.** Both take a render as one step, as the renderer does.
HostPreviews follows owners and URLs through the removal patches and the patches that set
attributes; HostPage builds the patches of `reconcileNode` and applies them
to a document and to the adapter's node table, refusing what the preflight refuses. The recursion of
`emitCreate` and `reconcileNode` is a function of the nodes (`Creations`, `Changes`), each loop a function of how far it is; what
is below a node (`Under`) is reached in as many steps as there are nodes.
`lost`, `displaced` and `harm` remember what the code is known to get wrong, so that
the property can be stated for everything else.

**WindowedLists.** `view` is the list: the items `from..to` that the application
retains, their true heights (`tall`), those the controller knows (`known`), what is `connected` and
how high the spacers are that stand for the others (`spaced`), the `scroll`, and the controller's anchors
(`pending`, `stable`, `lasting`). A layout or a render is one step, as in the code; scroll
events, frames, the observer's callback and microtasks are steps that others may come between. The
application pages `1..Supply` through a collection that retains `Retained`. `inPlace` remembers what the
user saw first and where, `excuse` why an edge may stay unasked, and `unrest` counts what the
host did since the last move of the user, the page or the network.

**HostMotion.** A motion is a list of step lengths and a number of rounds, 0 for a
continuous one. The shared frame (`Frame`) runs the tasks that were scheduled when it began.

**HostHistory.** `session` is the browser's history: entries with a place and the
token the application wrote, the current index, and `history.back()` calls not yet carried
out. `waiting` and `running` are the queue of host events. The turns are those of
`website/app/src/main.luau`, the application the repository itself builds on this. `astray`
remembers writes and dropped duplicates that happened while the application lagged
behind the browser.

**Collections.** Pages of keys; the provider answers with a part of the records
`1..Records`, the form of `examples/state-foundations`. An item is where it is (`Spots`) and which it is (`KeyAt`);
what is filtered keeps its order (`At`), and evict's loop is a function of how often it went round (`Evicted`). `overtaken` and `skipped` mark
a load whose page was evicted before it was answered.

**UploadPromise, ContentUploads.** `UploadPromise` is the abstract specification:
an image arrives, is published by at most one commit or dropped, and stays until
deleted. `ContentUploads` is the store await by await. Its `KeepsPromise` says that the
local uploads implement `UploadPromise` under the refinement mapping `ImageOf`, `OutcomeOf`. The
store's table is a Map, of which pruning takes the oldest: here a set of handles, with the number
under which each was created (`Created`, `Older`).

**Idempotency, BackendMutations.** The cache with an execution left open, and its
composition with `UploadPromise`: each execution is one commit. A caller who goes away turns
a finished execution into a failure (`Fail` although `outcome` is published), as the code does. The
cache, a Map too, is a set of entries with the numbers they were inserted under.

**AccessGrants.** `Admitting` is `prune` of both tables. A grant to a local file takes two steps, because
whoever writes the file may do so between the comparison of its bytes and the look at its time; one
to a remote item awaits the provider. A table is a set of entries with the number under which each was
issued, which is the order of the code's Map. `crowd` remembers how many sessions were live at once.

**Records.** A reader follows the cursors of `list()` forward to the end and back while
writers ask (`Asks`: read and authorize), wait, and write. `stayed` is what the
reader has to be given; `Sorted` puts each record where as many come before it, which is what sorting by
an order that tells all apart comes to; `born` tells apart the records an id had one after the other.

**Resources, AppFeatures.** Values are told apart by the request that brought them.
`AppFeatures` lets each feature do what `examples/state-foundations` does: ask, begin,
keep the ticket, claim.

**DevServer.** Edits are numbered; a build reads the project at two moments (bundle and
backend). `builder` is where the build is between its awaits.

**OutputPromise, OutputTransaction.** The promise: a build that fails or dies leaves the
last good output in place or recoverable. The transaction is `withGeneratedOutput`, one file operation
per step, each of which may fail, also the removals of the finally block (`CannotClean`, `CannotUnlock`: the
lock then stays), with builders that die, a user who removes the lock of a build that is over, and somebody who
works on the directory without it. Several workspaces may keep an output that was moved away: the
user puts back by hand the newest of them (`NewestKept`), which is what the promise
needs, for putting back an older one would undo a build that succeeded. `KeepsOutput` is the refinement.

**ProjectLibraries, SdkVersions, Installations.** One command, respectively several at a time, step by
step, that may fail or die anywhere. `scars` and `contested` remember the deaths and overlaps
after which the code promises less. `Installations` joins the two, whose variables are their own, for
the property and the theorem about both (InstallsHold).

## 3. The runs

Every run ends within a few minutes. The passing runs explore the complete state
space of their instance; those with fairness check liveness over it as well. Each
has one type invariant (`…TypeOK`), which the table does not repeat.

| Run | What it shows | Instance |
|---|---|---|
| provider_session | CommitFromCurrent, StoredTokenAccounted, EndedCallsHoldNoLease, SignedOutStaysOut, OperatesOnRotatedMaterial | 3 calls, lease of 1, tokens of 1 and 3, clock to 4; 1.8 million states |
| host | RequestsHold (every request's end and answer is accounted for, in the loops' books and the ledger's); EventsAccounted; MediaSettles; PreviewsHold; MotionHolds; PageHolds; ListsHold (ViewIsRealized, FocusStays, StaysInPlace, EdgesAreAsked); ComesToRest; under fairness HostResponds (EveryRequestAnswered, ExpiryIsHanded); FramesLeadToTheEnd (a step property: a variant decreases) | 2 loops, 3 requests of 3 kinds; 3 ledger ids; 2 changes, 2 timers, 3 arrivals, web and native; 2 tracks, 4 commands; 3 previews, 2 images, 3 renders; 3 channels of 2 elements, 2 ways to move; 2 roots, 3 parts, 3 renders; a list of 6 records of heights 1 and 2, 2 a page, 4 retained, in a view of 2, 3 moves; 541 thousand |
| backend | PendingFilesAccounted, KeepsPromise; PublishedStays, RetriesAreAnsweredOnce; EntriesHold (WalkIsComplete, RecordsStayOwned; SessionsKept, GrantsKept) | 1 local and 1 remote handle, 2 commits, 2 intents; 3 calls, 2 keys, 2 uploads, a cache of 1; 3 ids with 2 sort values, pages of 1, 2 writers, 2 writes; tables of 2, 4 sessions and grants, lifetimes of 1 and 3, 2 deliveries; 1.1 million |
| sdk | ReadsAreCoherent, AnswersArrive, OptimisticSettles, LateAnswersChangeNothing; CollectionHolds (WindowIsSound, RecordsContinue); HistoryAgrees (ShowsTheEntry, BackStaysInside, PressIsDecided) | 2 features, 2 requests, 3 answers; 4 records in pages of 2, at most 3 items and 3 pages, 3 loads; 3 places, depth 3, 5 entries, 5 moves; 3.2 million |
| stores | LeasesHoldTrue, RevokesNewestMaterial, RevocationNotDropped; ServerHolds (QuietIsCurrent, ServesWhole, ClosesClean); KeepsOutput; InstallsHold (LibrariesHold, VersionsHold); under fairness MaterialErased, EveryEditIsBuilt and LockIsFreed | 2 callers, 2 workers, 2 attempts, lag 1, clock to 4; 3 edits; 2 builders, 4 builds, 1 intruder; 2 libraries in 2 versions, 5 commands; 2 SDK versions, 2 processes, 4 commands; 444 thousand |
| provider_refusal | *violated:* RevokesOnlyRejectedToken | 2 calls |
| host_deadline | *violated:* DeadlineReachesApp | 1 loop |
| host_events_suppressed | *violated:* SeesHostState | web, 4 changes |
| host_page_order | *violated:* PageShowsTree | 1 root, 2 parts, 2 renders |
| list_edges | *violated:* ChangedBoundaryAsks | 8 records of one height, 2 a page, 6 retained, 5 moves |
| content_uploads_remote | *violated:* ObjectStays | 1 remote handle |
| collection_paging | *violated:* EveryPageAccepted | 4 records in pages of 1, at most 2 items in 2 pages, 7 loads |

**Why the bounds are enough.** The hazards need few actors: one call whose lease
ran out, one that took over, and one that signs out or retries (provider_session);
a request that is answered, one that is waiting and one that finds the limit reached;
two changes back and forth behind one that is being handled; a timer that is replaced while
its expiry waits; two media commands that overlap and two more to set the scene; two images that exchange three
previews; a step that takes no time next to one that does; three children whose order, tags
and parents change twice; a list of
three pages of which two are retained, so that pages come and go at both ends, with items above the view
that grow or turn out higher than they were estimated, and a move more than it takes to scroll and to focus (host). Two commits and a prune at the limit; two calls of one key and
a third that pushes the entry out; records that tie at a page's boundary and move past it (backend). An answer,
a repeated one and one for a superseded request; a window that turns round within fewer pages
than there are records; a full stack, an entry of the user's own, a step back and
forward, and an event that holds up the others (sdk). An edit before, one during and one after a
build; a builder that dies, one that finds the lock or comes after it was removed, twice over, so that
two workspaces keep an output; a
library needed by another and its update; a use between the two looks of a removal
(stores). Clocks run past every expiry the instance can set. What does not
depend on a bound is proved (section 5).

**Symmetry** is declared only in runs without liveness: calls in provider_session, calls,
keys, uploads and commits in backend, features in sdk. No specification picks among the
interchangeable names.

**CHECK_DEADLOCK FALSE** is said everywhere: in every instance all calls may be
over and the clock or the number of moves at its bound, and then nothing is left to do. Where
standing still would be an error, a liveness property says so.

## 4. Fairness

Each specification assumes no more than the code gives:

- ServerSessions `FairSpec`, in MCStores `SessionsFairness`: time passes and the pruning job keeps being run with a current
  clock. No caller and no worker is fair: they may die for good, and the secret is
  still erased. The job's scheduler is outside the repository; the migration defines
  the function for it.
- HostRequests `RequestsFairness`: a loop whose handler answered goes on (the event loop), and a
  handler answers at some time. The second is an assumption about capabilities: a native
  plugin has no deadline, which PROJECT.json lists as a hazard without a property.
- HostTimers `TimersFairness`, in MCHost `FairTimers`: promise callbacks run, `main.js` reaches its subscription, and a
  dispatched event settles one way or the other; which way is not assumed.
- DevServer `ServerFairness`: the watcher reports edits, timers fire, and a build goes on or
  fails; a build that hangs is not considered.
- OutputTransaction `OutputFairness`: a builder that lives goes on, whether or not its file operations
  succeed. It may die at any step. LockIsFreed excuses one that died and one whose finally block raised.
- Lists use none: ComesToRest bounds by `MaxUnrest` how many steps of the host and pages can follow upon
  one another without a move of the user, of the page's heights or of the network. The host takes each
  such step without being asked, so a bound on them says that the list comes to rest, and which step comes first
  does not matter.
- Motion uses none: FramesLeadToTheEnd says that each frame in which a finite motion runs
  decreases what it has left, and the browser's frames are not promised.

## 5. What is proved

The proofs hold for every value of the constants that satisfies the named assumptions of the modules
(`NoCallAssumption` and `TimingAssumption`, `NoOwnerAssumption` and `TimesAssumption`, `HostAssumption` and
`LedgerAssumption`, `UploadsAssumption`, `PromiseAssumption` and `MutationsAssumption`,
`ResourcesAssumption` and `AppAssumption`, `EventsAssumption` and `TimersAssumption`, `MediaAssumption`,
`PreviewsAssumption`, `MotionAssumption`, `PageAssumption`, `OutputAssumption`, `ServerAssumption`, `LibrariesAssumption`,
`SdkAssumption`, `RecordsAssumption`, `AccessAssumption`, `HistoryAssumption`, `CollectionAssumption` and `ListAssumption`): any number of calls, workers, loops, requests, uploads, features, timers, tracks, motions, nodes, renders, builders,
edits, records, pages, sessions, grants, libraries, releases and processes, any limit, and any timing. They say no more than that numbers are
numbers and limits positive where the code's are (those of the tables at least two: they are 128 and 256; so is the router's depth: it is 32 where the application does not set it), that timers and the ids of nodes are finitely many, that a motion is one that
`normalizeMotionDescriptor` admits, and that a name for "nobody" names nobody. The
invariants below were model-checked as invariants of a run before they were proved.

| Theorem | Says | By |
|---|---|---|
| ProviderSessionProofs `TypeCorrect` | Spec => []TypeOK | one step per action, over `RowTypes` |
| `SignOutFinal`, `TokenAccounted`, `RotatedMaterialUsed`, `NoStuckLease` | the four invariants of provider_session | the inductive invariant `SessionInv` |
| `NoLostUpdate` | CommitFromCurrent, an action property | `SessionInv` in front of the step |
| ContentUploadsProofs `UploadsTypeCorrect`, `NoFileForgotten` | UploadsTypeOK, PendingFilesAccounted | `UploadsInv` |
| `StoreKeepsPromise` | KeepsPromise: the store implements UploadPromise | `UploadsInv` in front of each step, which maps to a step of the promise or a stutter |
| BackendProofs `PublicationHolds` | PromiseSpec => []PublishedStays | `PromiseInv`: every call under way names an upload |
| `RuntimeTypeCorrect`, `RetriesAnswered` | TypeOK, RetriesAreAnsweredOnce | `RunInv` |
| `RuntimeUsesPromise`, `RuntimePublishesOnce` | Spec => PromiseSpec, hence []PublishedStays | the steps one by one; then `PublicationHolds` |
| `AccessTypeCorrect`, `AccessHeld` | AccessSpec => []AccessTypeOK, []AccessHolds | `AccessInv` |
| `RecordsTypeCorrect`, `WalksAreComplete` | RecordsSpec => []RecordsTypeOK, []RecordsHold | `RecordsInv` |
| `PartsAreRun` | BackendSpec => UploadsSpec /\ Spec /\ RecordsSpec /\ AccessSpec | the steps one by one |
| `BackendTypeCorrect`, `EntriesAreKept` | BackendTypeOK, EntriesHold, of all parts together | `PartsAreRun` and the theorems about the parts |
| SdkProofs `ReadsCoherent` | Spec => []ReadsAreCoherent | `AppInv` |
| `ChangesSettle` | OptimisticSettles, an action property | `AppInv` in front of the step |
| `AppTypeCorrect`, `AnswersArrived` | TypeOK, AnswersArrive | `AnswersInv` |
| `LateAnswersIgnored` | LateAnswersChangeNothing, an action property | `AnswersInv` in front of the step |
| `HistoryTypeCorrect`, `HistoryAgreed` | HistorySpec => []HistoryTypeOK, []HistoryAgrees | `HistoryInv` |
| `CollectionTypeCorrect`, `CollectionSound` | CollectionSpec => []CollectionTypeOK, []CollectionHolds | `CollectionInv` |
| `SdkStatesAreRun` | SdkSpec => Spec /\ CollectionSpec /\ HistorySpec | the steps one by one |
| `SdkTypeCorrect` | SdkTypeOK, of all states together | `SdkStatesAreRun` and the theorems about the states |
| HostProofs `RequestTypes`, `LedgerTypeCorrect` | the types of the loops and of the ledger | `RequestsInv`, `LedgerInv` |
| `RequestsBooked` | RequestsHold, of both books | the same two |
| `TimersTypeCorrect`, `EventsAreAccounted` | TimersTypeOK, EventsAccounted | `TimersInv`, over `EventsInv` |
| `MediaTypeCorrect`, `MediaSettled` | MediaTypeOK, MediaSettles | `MediaInv` |
| `PreviewsTypeCorrect`, `PreviewsHeld` | PreviewsTypeOK, PreviewsHold | `PreviewsInv` |
| `MotionTypeCorrect`, `MotionIsDeclared` | MotionTypeOK, MotionHolds | `MotionInv` |
| `FramesLead` | FramesLeadToTheEnd, an action property | `MotionInv` and `Paced` in front of the step |
| `HostTypeCorrect` | HostTypeOK, of all parts together | the theorems about the parts |
| ListProofs `ListTypeCorrect`, `ListsAreHeld` | ListTypeOK, ListsHold | `ListInvariance`: `ListInv` |
| PageProofs `PageTypeCorrect` | PageTypeOK | `PageSound`, over `PatchesTyped` |
| `PageHeld` | PageHolds: PageShowsNodes and RendersKeepNodes | `PageInv`, over `RenderLeads`, `RenderAdmitted`, `RenderWhole` and `RenderSpares` |
| StoresProofs `StoreTypeCorrect`, `LeasesAreTrue`, `NewestIsRevoked` | TypeOK, LeasesHoldTrue, RevokesNewestMaterial | `StoreInv` |
| `RevocationsAreKept` | RevocationNotDropped, an action property | `StoreInv` in front of the step |
| `OutputTypeCorrect` | OutputTypeOK | `OutputInv` |
| `OutputKept` | KeepsOutput: the replacement implements OutputPromise | `OutputInv` in front of each step |
| `ServerTypeCorrect`, `ServerIsWhole` | ServerTypeOK, ServerHolds | `ServerInv` |
| `LibrariesTypeCorrect`, `VersionsTypeCorrect` | LibrariesTypeOK, SdkTypeOK | `LibrariesInv`, `SdkInv` |
| `InstalledIsWhole` | InstallsHold, of libraries and SDK versions | the same two |
| `StoresAreRun`, `StoresTypeCorrect` | StoresSpec implies the specification of each store; StoresTypeOK | the steps one by one, and the theorems about the stores |

None of these properties but ReadsAreCoherent is inductive. What each invariant adds is the argument why the
code is right:

*SessionInv.* The missing link is what a lease means: `LeaseBinds` says that whoever the row names as
holder has the very material the row holds, and is in a place where it still
means to use it; a commit therefore replaces what it redeemed. `WireAgrees` and `ReplyAgrees` tie
the provider to the calls: a reply is one rotation past the material of its
call and never ahead of the provider. `IssuedFirst` excludes calls before the session exists.
`StoredTokenAccounted` then follows by watching the one step that makes row and provider differ,
the redemption, and the one that makes them agree, the commit.

*StoreInv.* In SQL the revision is what a lease means. Nobody read a revision ahead of the stored one, and who read the
stored one read the stored token (`ReadersBehind`); a lease is held on the stored revision (`LeaseOnCurrent`), so that a
completion replaces what was redeemed although the lease's owner is all that the statement compares. Material is in the outbox
only after its row is gone (`OutboxAfterRow`), so no later refresh can make it outdated.

*RequestsInv, LedgerInv.* RequestsAccounted counts; what makes the counts steps of one another is that the queue holds
an id once and none that a loop took (`QueueSound`), that only what was made is named (`OnlyMade`), and that an
answer is told in the turn of the loop that took the request (`AnsweredInTurn`). The ledger needs that its pending ids fit its
capacity and that whatever ended is not pending.

*UploadsInv.* PendingFilesAccounted is the claim itself; `GoesOn` adds that an intent and its transfer go one way
together, `TransferKept` that a transfer keeps its intent in the table or has failed, `CommitInPlace` that a commit got past its first
look only with an upload that had arrived, and `ImageInPlace` that what has its final name had arrived and
keeps no pending file after its commit. The refinement rests on these: a link that finds the object in place
or deleted is a commit the promise refuses.

*RunInv.* An entry of the cache tells the truth about its execution, which did not fail (`EntriesTrue`); an execution
is in the cache under its key unless the key was pushed out (`ExecutionsKnown`); and who waits for one asked
for the same input (`HandlersRun`). Entries have keys and numbers of their own (`CacheInv`), so that pruning the
oldest leaves at most the limit, by the cardinality of finite sets.

*AccessInv.* A session in the table lasts as long as its holder was told (`SessionsTrue`), and while the table never was
too small for what was live it has all of it (`CrowdCounted`): pruning takes nothing live before `crowd` says so
(`PruneFacts`, by the least number of a set and by cardinality). For grants (`GrantsTrue`), the room that pruning made before an await is
still there after it, and a grant serves other than the admitted content only if the file was replaced between its two looks.

*RecordsInv.* `HalfWay`: a record that stayed was given already or lies beyond the cursor, and the cursor is the last
record given, so that pages join in order. `BirthsTell`: no call has read a record that is born later, and what it
read is of the owner who asked, so one who overwrites another's record did not read it. That a page leaves out nothing rests on `SortedLists`: counting the
records before each puts them in order, and an injection between finite sets of one size is onto.

*AppInv.* Reads are inductive by themselves once written as "every operation takes a
coherent read to a coherent read" (`BegunCoherent`, `SettledCoherent`,
`InterruptedCoherent`). For mutations, `Sound` is needed: the change that would be
rolled back is in force and belongs to the execution that is under way, and without
an execution there is nothing to roll back. Otherwise an ending could undo
the change of another execution or undo one twice.

*AnswersInv.* That no answer is handed over twice needs to know whose it is: ids are counted up (`IssuedInOrder`),
a request is under way in one state of one feature (`ActivesDiffer`) and nowhere once it was given up
(`OutdatedIsIdle`); while nothing raised, what is under way is claimed by its feature with its ticket kept (`Served`), and
what is claimed was not delivered yet (`ClaimedOnce`).

*HistoryInv.* The property speaks of the moment when nothing waits; the invariant says what the events that wait are still
going to bring. The last of them that says where the browser is (`LastWord`) carries the stack of the browser's current entry, or is
an address whose turn writes that entry; if none says it, the stack is that entry's already (`Agrees`, unless a
`hashchange` has yet to fire). So a popped entry may be dropped as a duplicate only of the last event that waits, and a write
agrees only while nothing waits that would move the application (otherwise the model calls it astray). That a first entry
offers no way back needs `StartsShort`: it has a stack of one location, and each address that waits for it will find one
(`FindsShort`), whatever pops come before. `MovesPay` bounds what the browser has still to do by the moves, `QueueOnce` the entries by
the links that wait. The attempt corrected the property: that the stack is never deeper than the entries
before the current one, which the smaller instance had confirmed, is false with a depth of three, for an entry that the user made and left
before the application heard of it takes the deeper stack it is come back with. Nothing relies on it; what
the router's Back needs is BackStaysInside as it stands.

*CollectionInv.* That the records held follow each other says nothing of where a page ends, so a page that continues
the window at its cursor could not be shown to fit. The invariant gives each page a part of the records it stands for
(`Laid`: from one cursor to another, one part after the other), in which its keys lie in order and of which nothing is missing
that the application did not touch; the cursors the page has are the ends of its part. A page that is loaded at an end
begins where the part there ends, as the ticket's cursor is that end's still (`EdgeStays`) unless an insert had the page there
evicted. Removing keys, pruning and evicting take from such pages, and pruning only takes parts that hold nothing
(`RemovedFacts`, `PrunedFacts`, `TrimmedFacts`). evict's loop is not recursion over data to the prover: that a step can be
repeated any number of times is proved (`IterationExists`, with the least number of turns for which it could not), that each turn
takes a page or leaves the budget kept, and so the number of pages is enough of them (`EvictedFacts`). That items are as many as keys
when none is twice is the cardinality of a bijection (`OnceCounts`).

*EventsInv.* What the application was told is hidden behind what waits: a channel is current when the last of its events in
the queue or, if none waits, what was seen has the value the host has (`LastIsCurrent`). A key is
pending only while its event waits or is handled (`KeysPending`), so a change is dropped as a duplicate only if the value it
brings is on its way, and then it is the last unless the channel is among those `missed`. Before the bridge listens, channels
that nothing was enqueued for were not told anything (`UnheardIsUnknown`).

*TimersInv.* Of the places a timer can be in, exactly one holds it (`PlacedOnce`), and no two ids run the same timer,
nor do the early expiries or the queue hold one twice (`PlacesDiffer`); the sum of TimersAccounted is then one by the
cardinality of sets with at most one element.

*MediaInv.* While the element tells another state than the adapter, a command that will tell it is still under way
or failed (`ToldOrHandling`); an item other than the one shown is on its way or mislabelled (`HoldsOrSelects`);
sound that no status tells of comes from an item on its way or a play() that is awaited (`SoundIsAwaited`); and "playing" is told only of an element that plays, loads or was
refused (`PlayingOrKnown`).

*PreviewsInv.* The registry's books (`Owned`, `UrlsAgree`) have to be right between any two patches, when some nodes show what
they will and others what they did (`Halfway`). What happens at each node is a step from one such state to the next
(`ReleaseFacts`, `RetainFacts`, by the cardinality of the nodes that show a URL); that a render, which is such steps in a row, ends with them
right is the least node at which they would not be (`NodesDone`). A preview survives all
releases if no node that shows its URL loses it, or one of them keeps it (`Safe`), and those that `lost` does not
excuse are of that kind because images of one preview always show the same URL (`ShownIsSafe`). A URL made anew is shown by nobody,
as every one shown was counted in `made` (`ResolvedOwned`).

*MotionInv.* Written channel by channel: a channel rests without a task, or runs what is declared with the one task that a
cancellation finds (`Moves`), or without one if its sequence ran into reduced motion. What is deferred rests and already
shows what it begins or ends with (`DeferredRests`), so the signal that starts it may as well skip it; and `EndShown` is what
a channel at rest shows. A sequence goes on to a step that takes time because an admitted motion has one or runs once
(`AdvanceFacts`, with the least element of a set of numbers from the well-foundedness of `<`).

*Paced.* A motion that is not continuous is in a round below its rounds, and what is declared was declared by a render
that has been, so that a motion started again is not the one that ran. A frame then either takes time from the step that runs, or goes on
to a later one: the steps it passes over take no time (`AdvancePasses`), and the time of a motion's first steps
never falls (`ElapsedGrows`). At the end of a round the whole time of the next one is paid for by the round that is over.

*ListInv.* What the user does not see rests on what the controller believes of it. The height that is known of an item that is
not connected is its true one, and its spacer is as high as it is taken to be (`TellsSizes`). With no frame and no scroll event
to come, all that the window needs is connected, with the focus and its neighbours, and every edge in reach was asked or is excused
(`Shows`, `LaidOut`); until then a frame or an event is due (`Waiting`). Whatever is to put the first item seen back in its place, the pending
anchor, the one that lasts for some passes or the stable one, has it first and at that place (`Keeps`), and once every height is known
the place is where the controller's own count puts it. A boundary that was asked is told or loaded still, or excused (`AskedOnce`).
The sums of sizes are recursive functions, of which the proofs use what holds from one index to the next
(`UpToFacts`), by the least index at which it would not. The attempt corrected the property: that what was seen
behind the first item stays in its place too once the first has left the list, which the instance confirms, is false of lists that have
spacers between the window and the focus, as larger instances show. So StaysInPlace speaks of the item seen first.

*PageSound.* Every row of the page lists, each once, nodes of trees that are in the page (`SoundPage`); each patch that is
admitted keeps that, and so does a batch that fails half-way. The longer part is that the patches of any two trees are such patches
(`PatchesMade`): what is emitted for a node is known once that of its children is, so the height of a tree (`TreeBuilt`: the
nodes are below one that comes before them) gives a node at which it would be wrong first. For the places of a row
(`PlacementsFacts`) the part behind the turn is in the desired order and stays so.

*PageInv.* The page has the last tree, a row for a row, up to the order of children of which one was replaced, and nothing
that is not in the tree hangs there with a part of it (`ShowsTree`); as long as no text took anything away, it has no other
nodes. The claim is made for every node that a render keeps (`Held`): its patches lead from any page that has what is below it in the
old tree (`ReadyPage`) to one that has what is below it in the new tree and is otherwise as it was (`DonePage`). It
is proved by the rank of the node (`AllHeld`), the element of the host being the last. On the way some children are as they were and others as they will
be (`MidPage`): a text and the removals of children that are gone come first (`HeadLeads`), then each child is
created, replaced or changed, where it stays (`KidLeads`), and the placements sort the row (`OrderLeads`). Two more inductions
of the same form say when this cannot be refused. While no node changes its parent, nothing of a subtree that is created is elsewhere on the
page (`LeftBelow`), so every patch is admitted (`AllGoing`). What the preflight admits, whose graph keeps the children that a
text takes away, goes through on the page too, unless a text tears: both have the same nodes throughout (`BothDomain`, `AllPaired`).
That a render neither creates nor removes what it keeps is a fact about the trees alone (`AllSpared`): a node is kept only with its
parent, so that nothing below one that is not kept is (`BelowUnkept`).

*OutputInv.* Whoever lives has the lock with the latest build (`LockOfTheLiving`), what a workspace keeps is older than
its build and known by its backup path (`KeptIsOlder`, `BackupIsKept`), and the output is older than the build
under way (`OutputIsOlder`). So of all that is kept, the newest is what the promise calls recoverable.

*ServerInv.* Each build is paid for by an edit (`BuildsHaveEdits`): a timer, a queued build and a change not
yet reported are all due to edits that no build answered, so there are never more builds than edits. When
nobody is left to tell the builder, it has read or will read the newest version (`ReadsNewest`). Nothing
that exists is newer than the build under way (`NewestIsCandidate`), so that writing its bundle overwrites nothing that
is served and removing the previous one removes nothing that is. `RemovesAfterClose` says what a build that
`close()` did not overtake has still to remove.

*LibrariesInv.* `CommandKnown`: what a command looked at before it began (that nobody needs what it removes,
that what it adds has all it needs) still holds when it writes the lockfile, as nobody else wrote it.
`DirectoriesKnown` names, at each step, the one directory that may be missing and the one that may be too
much; a death leaves just that behind.

*SdkInv.* Only a version that another process made active meanwhile is removed while active (`RemovalsContested`);
the commands in bin are torn only while somebody writes them or died over it, and no version is made active
before they were written (`ShimsWritten`).

*All parts together.* The runs check sums of specifications, in which a variable says whose turn it is. `PartsAreRun`,
`StoresAreRun` and `SdkStatesAreRun` prove that a behaviour of the sum is one of each part, which steps or stands still; whatever is proved
of a part holds of the sum.

*What the promise is worth.* `PublicationHolds` is proved of the abstract specification, `StoreKeepsPromise` that
ContentUploads implements it, and `RuntimeUsesPromise` that BackendMutations relies on nothing else. With
remote handles the store does not keep it: run content_uploads_remote shows the counterexample.

*Only model-checked:* all liveness, which the prover does not reach (fairness and ENABLED), and ComesToRest, which is about
a bound that the instance names.

## 6. Findings

1. **A late refusal revokes a fresh session** (`backend/provider-identity.mjs:53`,
   run provider_refusal). A call whose lease ran out is refused by the provider, because
   another call has rotated the token. It revokes by session id and deletes the row with the good token.
2. **DEADLINE never reaches the application** (`platform/host/main.js:205`, run
   host_deadline). The transport's deadline is armed after the ledger's, so the ledger always
   refuses that answer; the host shows a failure and the slot in the VM stays taken.
3. **Background, foreground, background is told as background, foreground**
   (`platform/host/lifecycle-bridge.mjs:17`, run host_events_suppressed). A key stays
   pending while its event is handled, so the last change is taken for a duplicate.
4. **A commit reports success for a remote object that is gone**
   (`backend/uploads.mjs:165`, run content_uploads_remote). Prune or dispose delete
   the object between its inspection and the answer.
5. **A legitimate page is refused as a cursor cycle** (`sdk/luastra/collection.luau:329`, run
   collection_paging). Consumed cursors outlive the eviction of the pages they led to.
6. **A replaced child goes last** (`platform/renderer/reconciler.mjs:370`, run host_page_order). A
   child that keeps its id and changes its tag is created behind its siblings and stays there.
7. **The end of a windowed list is not asked again** (`platform/host/windowed-list-controller.mjs:270`,
   run list_edges). The list asks for more at its end, the user turns round before the new end comes into
   reach, and the pages that come at the start bring the old end back: it equals the token remembered, and
   the user stands before it for good.

Met while modelling, without a run of their own; where a property excuses one, its comment
says so.

- *Sessions, uploads.* `retry` and `complete` of a revocation match the lease owner only
  (`…105756….sql:354`). Concurrent `createIntent` calls prune, await and only then insert, so that
  the table can exceed its limit (`backend/uploads.mjs:91`); a dispose or prune between mkdir and open
  leaves the file (`:104`); an id is lost if `issueItem` refuses after the link (`:169`).
- *Host events, timers.* On a native host the snapshot that `start()` reads before two awaits can
  overtake a newer change. A cancel that is acknowledged while the expiry waits in the queue does not
  keep the expiry from being delivered (`website/app/src/reference-data.luau:18187` says that it will not be emitted);
  `timerCapabilities.dispose` is never called.
- *Media, previews.* A refused `play` leaves the state "playing"; the change a failed command
  made is not told. The selection list is pruned when it holds 8 on every lookup, so that 7 are
  usable; an expired preview stays cached with a revoked URL, and one that moves from image to image
  within one render is shown by a revoked URL (`dom-adapter.mjs:303`).
- *Motion.* Reduced motion switched on during a continuous sequence is a recursion without end;
  a node replaced by another tag loses the style its motion had reached.
- *Renderer.* An id that moves to a parent handled earlier is refused as duplicate; a text and children
  changed together lose the children; the nodes lost so block later ones of their ids; a removed `value`
  leaves the input's text.
- *Sessions, grants in memory.* Every lookup, also of another token and of `size`, takes out the oldest live session when
  the table is full (`backend/session.mjs:25`), so that the last of the 128 places is of no use; a file replaced
  between `readFileSync` and `statSync` is granted as admitted (`backend/content.mjs:58`).
- *Windowed lists.* A question told in a microtask while the other edge is loading is refused by an assertion of
  the collection and not asked again until the boundary changes (`windowed-list-controller.mjs:272`,
  `collection.luau:289`), and so is one whose load failed. A scroll keeps the items in view as its anchor (`:367`) and a layout
  that the 100 ms timer (`:18`) runs before a second scroll's event puts the view back where the first one was. With a budget below viewport, overscan and
  a page (3 items for a view of 2 with overscan 1) each page that comes evicts what the other edge then asks for again, for ever; the
  documentation asks for a finite budget, not for a least one. The instances keep above it.
- *History.* A traversal that comes while one with the same token is queued or handled is dropped;
  a write while a popped entry waits goes to another entry than it means; a pop between entries of one place
  leaves `suppressedHistoryHref` set, so that the next address typed for that place is
  swallowed (`platform-capabilities.mjs:166,191`); a link is refused without a word when the stack is full.
- *SDK.* `begin` of a read clears the invalidation, so that invalidate, refresh and cancel leave an
  outdated value that is not marked stale (`resource.luau:155`). One page of a collection may exceed
  `maxItems` by inserts; an insert during a load may evict the page the load continues and leave a gap.
- *Records.* `update` stores all of what was read before an await, so that of two overlapping
  updates the later undoes the other's fields; a record that came again under its id after the
  authorization is overwritten; an empty page has no cursor to go back by.
- *Libraries.* Updating a library that another needs in exactly its version is allowed (the graph is
  compared by ids) and makes every later load fail; a death between quarantine and lockfile likewise; a
  death after the rename leaves a directory that refuses the repetition. Of two commands at once the later
  writer of the lockfile undoes the other.
- *SDK versions.* A `use` between the look of a `remove` and its deletion leaves the active version
  missing; an interrupted removal leaves a version that can neither be removed nor installed again; a
  command that dies while writing the commands in bin leaves them torn.
- *Retries.* A caller who goes away while the handler finishes turns its result into CANCELLED for all who wait
  (`backend/runtime.mjs:201`), and the key is forgotten: a retry executes the handler again although its effect happened.
  RetriesAreAnsweredOnce speaks of successes only; that the second execution publishes no upload again is PublishedStays.
- *Build outputs.* If removing the workspace raises in the finally block (`project/output-transaction.mjs:58`), the
  lock is not removed: every later build is refused as "locked by another build" until somebody removes the
  lock, and a replacement that succeeded is reported as an error.
- *Development server.* If removing the old bundle fails after the swap, the catch block removes the
  bundle that is being served (`run-project.mjs:296`).

## 7. What the models leave out

- Data: tokens, payloads, values and keys are told apart, not spelled. Encryption,
  hashing, formats and input validation are outcomes (a call that is refused) or left out.
- ProviderSession: the limit of the session table, password recovery, which keeps no state,
  and clocks that differ between processes.
- HostRequests: rendering, loading, hot reload of a session, and how start-up is ordered.
- HostMedia: positions, durations, routes. HostMotion: values between the ends, curves, `onError`.
  HostPreviews: the transfer of a file. HostPage: attributes, events, modals, focus, composition.
- WindowedLists: several lists, the fallback without ResizeObserver, disposal, ARIA positions, fractions of
  pixels, a header above the list, and the browser's own scroll anchoring.
- HostHistory: the route compiler, `createStack`, tabs and modals; a dispatch that raises; the time
  before start-up is final.
- ContentUploads: failures of the local file system other than those that
  the store's own races cause; the checks of image metadata.
- Idempotency: calls without a key and queries, which share nothing.
- Records: public and authenticated mode, equality filters, fields other than one sort key and the
  owner, descending order, the provider over HTTP.
- Resources: an optimistic change's `rollback` undoes all of what `apply` did.
- AppFeatures: a feature has one read and one mutation; a feature that ignores the
  documented idiom is not modelled.
- ProjectLibraries: several commands at once; capability and module collisions, which refuse before
  anything changes. SdkVersions: downloads; the three files in bin are one; every activation of a version that is not
  whole counts as a race with a removal (`contested`), so that ActiveIsWhole would not miss the verification in `use`.

## 8. Plan

Done: all the models; proofs for the sessions of both stores, the books of requests, uploads and the runtime, resources
and applications, navigation, collections, host events and timers, media, previews, motion, the page, windowed lists, the replacement of the output, the development server, and
installed libraries and versions.

Nothing that the plan named is left. Every safety property and every action property of the runs that pass is a theorem but
ComesToRest.
