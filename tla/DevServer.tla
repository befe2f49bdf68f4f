------------------------------ MODULE DevServer ------------------------------
(***************************************************************************)
(* The development server's rebuilds (runProject of                        *)
(* project/run-project.mjs): a watcher arms a timer, the timer starts a    *)
(* rebuild or queues one, a build reads the project at two moments, and    *)
(* the server swaps in its bundle and backend before it removes the old    *)
(* ones.  close() may come at any time, also during a build.               *)
(*                                                                         *)
(* A version is the number of edits the project has seen.                  *)
(***************************************************************************)
EXTENDS Naturals

CONSTANTS
  MaxEdits,        \* bound on the edits
  RemovalsFail     \* whether removing a directory may fail

ASSUME ServerAssumption == MaxEdits \in Nat /\ RemovalsFail \in BOOLEAN

VARIABLES
  version,       \* the version of the project's files
  noticed,       \* the watcher has reported every edit
  armed,         \* rebuildTimer is running
  builder,       \* where rebuild() is
  queued,        \* a rebuild has been asked for meanwhile
  generation,    \* number of the newest build
  candidate,     \* the versions the build under way read
  previous,      \* generation of the bundle and backend it replaced
  bundles,       \* generations whose bundle directory exists
  backends,      \* generations whose backend is open
  activeBundle, activeBackend,  \* generations; 0 is none
  served,        \* the versions that the active bundle and project were read at
  attempted,     \* the version the last finished build read
  succeeded,     \* whether it succeeded
  closing,       \* where close() is
  removalFailed, \* an old bundle could not be removed
  overtaken      \* close() disposed of the backend while a build was under way

serverVars == <<version, noticed, armed, builder, queued, generation, candidate, previous,
                bundles, backends, activeBundle, activeBackend, served, attempted,
                succeeded, closing, removalFailed, overtaken>>
files == <<version, noticed>>
live == <<activeBundle, activeBackend, served, previous>>
ends == <<attempted, succeeded>>
history == <<removalFailed, overtaken>>

Versions == 0..MaxEdits
Generations == 0..MaxEdits + 1
Read == [bundle : Versions, project : Versions]
BuilderPlaces == {"idle", "reading", "writing", "loading", "attaching", "removing",
                  "discarding"}

ServerTypeOK ==
  /\ version \in Versions
  /\ noticed \in BOOLEAN /\ armed \in BOOLEAN /\ queued \in BOOLEAN
  /\ succeeded \in BOOLEAN /\ removalFailed \in BOOLEAN /\ overtaken \in BOOLEAN
  /\ builder \in BuilderPlaces
  /\ generation \in 1..MaxEdits + 1
  /\ candidate \in Read /\ served \in Read
  /\ previous \in [bundle : Generations, backend : Generations]
  /\ bundles \subseteq Generations /\ backends \subseteq Generations
  /\ activeBundle \in Generations /\ activeBackend \in Generations
  /\ attempted \in Versions
  /\ closing \in {"open", "draining", "erasing", "closed"}

\* the first build has succeeded, the server listens
ServerInit ==
  /\ version = 0 /\ noticed = TRUE /\ armed = FALSE
  /\ builder = "idle" /\ queued = FALSE
  /\ generation = 1 /\ bundles = {1} /\ backends = {1}
  /\ activeBundle = 1 /\ activeBackend = 1
  /\ previous = [bundle |-> 0, backend |-> 0]
  /\ candidate = [bundle |-> 0, project |-> 0] /\ served = candidate
  /\ attempted = 0 /\ succeeded = TRUE
  /\ closing = "open" /\ removalFailed = FALSE /\ overtaken = FALSE
-----------------------------------------------------------------------------
(* Edits, the watcher and the timer. *)

Edit ==
  /\ version < MaxEdits
  /\ version' = version + 1 /\ noticed' = FALSE
  /\ UNCHANGED <<armed, builder, queued, generation, candidate, bundles, backends, live,
                 ends, closing, history>>

\* schedule: the timer starts anew
Notice ==
  /\ ~noticed /\ closing = "open"
  /\ noticed' = TRUE /\ armed' = TRUE
  /\ UNCHANGED <<version, builder, queued, generation, candidate, bundles, backends, live,
                 ends, closing, history>>

StartsBuild == builder' = "reading" /\ generation' = generation + 1

\* Faulty: what is asked for during a build is taken to be part of it.
TimerFiresUnqueued ==
  /\ armed
  /\ armed' = FALSE
  /\ IF builder = "idle"
     THEN StartsBuild /\ UNCHANGED queued
     ELSE UNCHANGED <<builder, generation, queued>>
  /\ UNCHANGED <<files, candidate, bundles, backends, live, ends, closing, history>>

\* rebuild() is called
TimerFires ==
  /\ armed
  /\ armed' = FALSE
  /\ IF builder = "idle"
     THEN StartsBuild /\ UNCHANGED queued
     ELSE queued' = TRUE /\ UNCHANGED <<builder, generation>>
  /\ UNCHANGED <<files, candidate, bundles, backends, live, ends, closing, history>>
-----------------------------------------------------------------------------
(* buildNext, from await to await. *)

At(place) == builder = place

\* buildProject has read the project
Reads ==
  /\ At("reading")
  /\ builder' = "writing"
  /\ candidate' = [candidate EXCEPT !.bundle = version]
  /\ UNCHANGED <<files, armed, queued, generation, bundles, backends, live, ends, closing,
                 history>>

\* buildProject has written the bundle
Writes ==
  /\ At("writing")
  /\ builder' = "loading"
  /\ bundles' = bundles \cup {generation}
  /\ UNCHANGED <<files, armed, queued, generation, candidate, backends, live, ends, closing,
                 history>>

\* loadProject reads the project again
Loads ==
  /\ At("loading")
  /\ builder' = "attaching"
  /\ candidate' = [candidate EXCEPT !.project = version]
  /\ UNCHANGED <<files, armed, queued, generation, bundles, backends, live, ends, closing,
                 history>>

\* projectBackend has answered: the swap, up to the removal of the old bundle
Swaps ==
  /\ At("attaching")
  /\ builder' = "removing"
  /\ previous' = [bundle |-> activeBundle, backend |-> activeBackend]
  /\ activeBundle' = generation /\ activeBackend' = generation
  /\ served' = candidate
  /\ backends' = backends \cup {generation}
  /\ UNCHANGED <<files, armed, queued, generation, candidate, bundles, ends, closing,
                 history>>

\* The build is over: buildNext returned or raised, then the finally block of
\* rebuild() starts the next one if it was asked for.
Over(success) ==
  /\ attempted' = candidate.bundle /\ succeeded' = success
  /\ queued' = FALSE
  /\ IF queued THEN StartsBuild ELSE builder' = "idle" /\ UNCHANGED generation

Removes ==
  /\ At("removing")
  /\ bundles' = bundles \ {previous.bundle}
  /\ backends' = backends \ {previous.backend}
  /\ Over(TRUE)
  /\ UNCHANGED <<files, armed, candidate, live, closing, history>>

\* the catch block: nothing is left to dispose of, the candidate is removed
CannotRemove ==
  /\ RemovalsFail /\ At("removing")
  /\ builder' = "discarding" /\ removalFailed' = TRUE
  /\ UNCHANGED <<files, armed, queued, generation, candidate, bundles, backends, live, ends,
                 closing, overtaken>>

\* reading, writing, loading or the backend raises
Fails ==
  /\ \E place \in {"writing", "loading", "attaching"} : At(place)
  /\ builder' = "discarding"
  /\ UNCHANGED <<files, armed, queued, generation, candidate, bundles, backends, live, ends,
                 closing, history>>

\* Faulty: rebuilding is not reset after a failed build.
DiscardsBusy ==
  /\ At("discarding")
  /\ bundles' = bundles \ {generation}
  /\ UNCHANGED <<files, armed, builder, queued, generation, candidate, backends, live, ends,
                 closing, history>>

Discards ==
  /\ At("discarding")
  /\ bundles' = bundles \ {generation}
  /\ Over(FALSE)
  /\ UNCHANGED <<files, armed, candidate, backends, live, closing, history>>

BuilderSteps == Reads \/ Writes \/ Loads \/ Swaps \/ Removes \/ CannotRemove \/ Fails \/ Discards
-----------------------------------------------------------------------------
(* close(), from await to await. *)

Close ==
  /\ closing = "open"
  /\ closing' = "draining"
  /\ armed' = FALSE
  /\ UNCHANGED <<files, builder, queued, generation, candidate, bundles, backends, live,
                 ends, history>>

Drains ==
  /\ closing = "draining"
  /\ closing' = "erasing"
  /\ backends' = backends \ {activeBackend} /\ activeBackend' = 0
  /\ overtaken' = (queued \/ builder \in {"reading", "writing", "loading", "attaching"})
  /\ UNCHANGED <<files, armed, builder, queued, generation, candidate, previous, bundles,
                 activeBundle, served, ends, removalFailed>>

\* the directory of this run is removed with all bundles in it
Erases ==
  /\ closing = "erasing"
  /\ closing' = "closed"
  /\ bundles' = {}
  /\ UNCHANGED <<files, armed, builder, queued, generation, candidate, backends, live, ends,
                 history>>

ServerNext ==
  \/ Edit \/ Notice \/ TimerFires \/ BuilderSteps
  \/ Close \/ Drains \/ Erases

ServerSpec == ServerInit /\ [][ServerNext]_serverVars

\* the watcher reports, the timer fires, what is awaited comes
ServerFairness ==
  WF_serverVars(Notice) /\ WF_serverVars(TimerFires) /\ WF_serverVars(BuilderSteps)
-----------------------------------------------------------------------------
(* Properties. *)

Quiet == noticed /\ ~armed /\ builder = "idle" /\ closing = "open"

\* When the watcher, the timer and the builder are at rest, the last build read
\* the newest version of the project, however edits, timers and builds
\* overlapped; if it succeeded, bundle and backend are both of that version.
QuietIsCurrent ==
  Quiet => /\ attempted = version
           /\ succeeded => served = [bundle |-> version, project |-> version]

\* Between the swap and the removals, and after a failed build, the server has
\* the bundle and the backend it serves from, of one build, and no other backend
\* stays open; a removal that fails is excepted.
ServesWhole ==
  closing = "open" /\ ~removalFailed =>
    /\ activeBundle \in bundles
    /\ activeBackend = activeBundle
    /\ backends = {activeBackend} \cup
                  (IF builder = "removing" THEN {previous.backend} ELSE {})

\* After close() and the builds that were under way no bundle and no open backend
\* are left, except by a build that close() overtook or one that could not remove
\* its predecessor.
ClosesClean ==
  closing = "closed" /\ builder = "idle" /\ ~overtaken /\ ~removalFailed =>
    bundles = {} /\ backends = {}

\* What the server serves is whole, current once it is quiet, and gone once it is closed.
ServerHolds == QuietIsCurrent /\ ServesWhole /\ ClosesClean

\* Every edit is built, unless the server is closed first.
EveryEditIsBuilt ==
  \A v \in 1..MaxEdits : version = v ~> attempted >= v \/ closing # "open"

=============================================================================
