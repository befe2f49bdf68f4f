------------------------------ MODULE HostEvents ------------------------------
(***************************************************************************)
(* The queue of host events and the lifecycle bridge that feeds it         *)
(* (platform/host/lifecycle-bridge.mjs), as platform/host/main.js uses     *)
(* them: events are handed to the application one at a time, and the next  *)
(* one waits until all requests that followed the last were processed.     *)
(*                                                                         *)
(* The host has channels of state (visibility, connectivity) whose changes *)
(* are enqueued under a deduplication key, and events without a key, the   *)
(* expiries of timers (HostTimers adds the timers).  Handling an event can *)
(* take any time, so the host may change again and again meanwhile.        *)
(***************************************************************************)
EXTENDS Integers, Sequences, FiniteSets

CONSTANTS
  Platforms,    \* which kinds of host: TRUE has an appPlugin, FALSE a document
  MaxChanges,   \* bound on the changes of the host's state
  Tokens        \* what tells apart the starts of timers

ASSUME EventsAssumption ==
  Platforms \subseteq BOOLEAN /\ MaxChanges \in Nat /\ IsFiniteSet(Tokens)

VARIABLES
  native,      \* an appPlugin reports the visibility, not the document
  host,        \* the host's state by channel
  queue,       \* events enqueued and not yet dispatched
  running,     \* the event being dispatched, or NoEvent
  pendingKeys, \* pendingKeys of the queue
  seen,        \* the state the application was last told, by channel
  bridge,      \* how far start() of the bridge is
  snapshot,    \* what appPlugin.getState() answered
  awaited,     \* start() waits until so many intents are over
  issued,      \* nextIntentId - 1
  changes,     \* changes of the host's state so far
  missed,      \* channels whose last change the queue or the bridge disregarded
  disposed     \* the queue was disposed

eventVars == <<native, host, queue, running, pendingKeys, seen, bridge, snapshot, awaited,
               issued, changes, missed, disposed>>

Values == [visibility |-> {"foreground", "background"},
           connectivity |-> {"online", "offline"}]
Channels == DOMAIN Values
HostStates == [visibility : Values.visibility, connectivity : Values.connectivity]
Other(c, v) == CHOOSE w \in Values[c] : w # v

TimerEvents == [channel : {"timer"}, value : Tokens]
Launch == [channel |-> "launch", value |-> "launch"]
NoEvent == [channel |-> "none", value |-> "none"]
StateEvents == UNION {[channel : {c}, value : Values[c]] : c \in Channels}
KeyedEvents == StateEvents \cup {Launch}
Events == KeyedEvents \cup TimerEvents

BridgePlaces == {"off", "asked", "launching", "announcing", "connecting", "started"}

EventsTypeOK ==
  /\ native \in Platforms
  /\ host \in HostStates
  /\ DOMAIN seen = Channels
  /\ \A c \in Channels : seen[c] \in Values[c] \cup {"unknown"}
  /\ queue \in Seq(Events) /\ running \in Events \cup {NoEvent}
  /\ pendingKeys \subseteq KeyedEvents
  /\ bridge \in BridgePlaces
  /\ snapshot \in Values.visibility
  /\ changes \in 0..MaxChanges
  /\ awaited \in Nat /\ issued \in Nat
  /\ missed \subseteq Channels /\ disposed \in BOOLEAN

EventsInit ==
  /\ native \in Platforms
  /\ host \in HostStates
  /\ queue = <<>> /\ running = NoEvent /\ pendingKeys = {}
  /\ seen = [c \in Channels |-> "unknown"]
  /\ changes = 0
  /\ bridge = "off" /\ snapshot = host.visibility
  /\ awaited = 0 /\ issued = 0
  /\ missed = {} /\ disposed = FALSE
-----------------------------------------------------------------------------
(* enqueue. A state event is its own deduplication key; timers have none. *)

Duplicate(e) == e \in pendingKeys

Enqueued(e) ==
  IF disposed \/ Duplicate(e)
  THEN UNCHANGED <<queue, pendingKeys, issued>>
  ELSE /\ queue' = Append(queue, e)
       /\ pendingKeys' = IF e \in KeyedEvents THEN pendingKeys \cup {e} ELSE pendingKeys
       /\ issued' = issued + 1

\* enqueue, and what its result is resolved after: all that is pending then
EnqueuedAndAwaited(e) == Enqueued(e) /\ awaited' = issued'

Over == issued - Len(queue) - (IF running = NoEvent THEN 0 ELSE 1)
-----------------------------------------------------------------------------
(* The host's state changes; the listeners that exist by then enqueue it. *)

Listening(c) ==
  IF c = "visibility" THEN bridge \notin {"off", "asked"}
  ELSE bridge \in {"connecting", "started"}

HostChanges(c) ==
  /\ changes < MaxChanges
  /\ changes' = changes + 1
  /\ LET v == Other(c, host[c])
         e == [channel |-> c, value |-> v]
     IN  /\ host' = [host EXCEPT ![c] = v]
         /\ IF Listening(c)
            THEN /\ Enqueued(e)
                 /\ missed' = IF Duplicate(e) THEN missed \cup {c}
                              ELSE missed \ {c}
            ELSE UNCHANGED <<queue, pendingKeys, issued, missed>>
  /\ UNCHANGED <<native, running, seen, bridge, snapshot, awaited, disposed>>
-----------------------------------------------------------------------------
(* start() of the bridge, from await to await. *)

\* native only: getState() was answered, addListener() is awaited
BridgeAsks ==
  /\ bridge = "off" /\ native
  /\ bridge' = "asked" /\ snapshot' = host.visibility
  /\ UNCHANGED <<native, host, queue, running, pendingKeys, seen, awaited, issued,
                 changes, missed, disposed>>

\* the listener is registered and "launch" is enqueued
BridgeLaunches ==
  /\ bridge = (IF native THEN "asked" ELSE "off")
  /\ bridge' = "launching"
  /\ EnqueuedAndAwaited(Launch)
  /\ UNCHANGED <<native, host, running, seen, snapshot, changes, missed, disposed>>

Announced == IF native THEN snapshot ELSE host.visibility

BridgeAnnounces ==
  /\ bridge = "launching" /\ Over >= awaited
  /\ bridge' = "announcing"
  /\ EnqueuedAndAwaited([channel |-> "visibility", value |-> Announced])
  /\ missed' = IF native /\ snapshot # host.visibility
               THEN missed \cup {"visibility"} ELSE missed
  /\ UNCHANGED <<native, host, running, seen, snapshot, changes, disposed>>

BridgeConnects ==
  /\ bridge = "announcing" /\ Over >= awaited
  /\ bridge' = "connecting"
  /\ EnqueuedAndAwaited([channel |-> "connectivity", value |-> host.connectivity])
  /\ UNCHANGED <<native, host, running, seen, snapshot, changes, missed, disposed>>

BridgeStarted ==
  /\ bridge = "connecting" /\ Over >= awaited
  /\ bridge' = "started"
  /\ UNCHANGED <<native, host, queue, running, pendingKeys, seen, snapshot, awaited,
                 issued, changes, missed, disposed>>

BridgeStep == BridgeAsks \/ BridgeLaunches \/ BridgeAnnounces \/ BridgeConnects
              \/ BridgeStarted
-----------------------------------------------------------------------------
(* The queue hands out one event after the other. *)

\* the application's handle runs at once; the requests it makes come after
Dispatch ==
  /\ running = NoEvent /\ queue # <<>> /\ ~disposed
  /\ LET e == Head(queue) IN
     /\ running' = e
     /\ seen' = IF e.channel \in Channels THEN [seen EXCEPT ![e.channel] = e.value]
                ELSE seen
  /\ queue' = Tail(queue)
  /\ UNCHANGED <<native, host, pendingKeys, bridge, snapshot, awaited, issued, changes,
                 missed, disposed>>

Released(raised) == pendingKeys \ {running}

\* dispatch settled, or raised and the error was shown
Finish(raised) ==
  /\ running # NoEvent
  /\ running' = NoEvent
  /\ pendingKeys' = Released(raised)
  /\ UNCHANGED <<native, host, queue, seen, bridge, snapshot, awaited, issued,
                 changes, missed, disposed>>

\* the queue is disposed: what is queued is dropped, not dispatched
Dispose ==
  /\ ~disposed
  /\ disposed' = TRUE
  /\ pendingKeys' = {} /\ queue' = <<>>
  /\ UNCHANGED <<native, host, running, seen, bridge, snapshot, awaited, issued,
                 changes, missed>>

EventsNext ==
  \/ \E c \in Channels : HostChanges(c)
  \/ BridgeStep
  \/ Dispatch \/ \E raised \in BOOLEAN : Finish(raised)
  \/ Dispose

EventsSpec == EventsInit /\ [][EventsNext]_eventVars
-----------------------------------------------------------------------------
(* Properties. *)

Settled == bridge = "started" /\ queue = <<>> /\ running = NoEvent /\ ~disposed

\* Whatever happened while events were being handled, once the queue has drained
\* the application's last lifecycle event on a channel is the host's state,
\* unless the last change was suppressed as a duplicate or overtaken by the
\* older snapshot that start() announces on a native host.
SeesRegardedChanges ==
  Settled => \A c \in Channels \ missed : seen[c] = host[c]

\* "native app state events drive lifecycle", "treat visibility and connectivity
\* as state": once the queue has drained the application was last told the
\* state the host is in.
SeesHostState == Settled => \A c \in Channels : seen[c] = host[c]
=============================================================================
