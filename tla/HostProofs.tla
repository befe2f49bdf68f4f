------------------------------- MODULE HostProofs -------------------------------
(***************************************************************************)
(* Theorems about the browser host, for any number of requests, loops, host *)
(* changes, timers, tracks, motions and renders: that every request is     *)
(* booked and ended once, that no host event is lost or handed over twice, *)
(* that the media state tells what the element does, that a shown preview  *)
(* keeps its URL, that what moves is what the tree declares, and that the  *)
(* state of the whole host stays typed.                                    *)
(***************************************************************************)
EXTENDS MCHost, PageProofs
-----------------------------------------------------------------------------
(* The queue of events and the lifecycle bridge. *)

IsQueued(e) == \E i \in DOMAIN queue : queue[i] = e
OnChannel(c) == {i \in DOMAIN queue : queue[i].channel = c}

\* start() has announced the state of the channel.
Told(c) ==
  bridge \in (IF c = "visibility" THEN {"announcing", "connecting", "started"}
              ELSE {"connecting", "started"})

\* A key is pending for an event that waits or is being dispatched.
KeysPending == \A e \in pendingKeys : e = running \/ IsQueued(e)

RunningSeen ==
  running # NoEvent /\ running.channel \in Channels => seen[running.channel] = running.value

\* Before a listener is registered nothing is said of a channel.
UnheardIsUnknown ==
  \A c \in Channels : ~Listening(c) => OnChannel(c) = {} /\ seen[c] = "unknown"

\* What is said last of a channel, waiting or told, is the state that the host is in.
Current(c) ==
  /\ \A i \in OnChannel(c) : (\A j \in OnChannel(c) : j <= i) => queue[i].value = host[c]
  /\ OnChannel(c) = {} => seen[c] = host[c] \/ (seen[c] = "unknown" /\ ~Told(c))

LastIsCurrent == ~disposed => \A c \in Channels \ missed : Current(c)

EventsInv ==
  EventsTypeOK /\ KeysPending /\ RunningSeen /\ UnheardIsUnknown /\ LastIsCurrent
-----------------------------------------------------------------------------
(* The timers. *)

Runs(t) == \E id \in TimerIds : active[id] = t
Early(t) == \E i \in DOMAIN early : early[i] = t

\* A timer is in one place, in none if it was not started.
PlacedOnce(t) ==
  /\ handed[t] \in {0, 1}
  /\ startedAs[t] = NoTimer =>
       ~Runs(t) /\ ~Early(t) /\ ~IsQueued(ExpiryOf(t)) /\ t \notin withdrawn /\ handed[t] = 0
  /\ Runs(t) => ~Early(t) /\ ~IsQueued(ExpiryOf(t)) /\ t \notin withdrawn /\ handed[t] = 0
  /\ Early(t) => ~IsQueued(ExpiryOf(t)) /\ t \notin withdrawn /\ handed[t] = 0
  /\ IsQueued(ExpiryOf(t)) => t \notin withdrawn /\ handed[t] = 0
  /\ t \in withdrawn => handed[t] = 0
  /\ ~disposed /\ startedAs[t] # NoTimer =>
       Runs(t) \/ Early(t) \/ IsQueued(ExpiryOf(t)) \/ t \in withdrawn \/ handed[t] = 1

\* An id, a place in the list or in the queue names a timer of its own.
PlacesDiffer ==
  /\ \A id \in TimerIds : active[id] # NoTimer => startedAs[active[id]] = id
  /\ \A i, j \in DOMAIN early : early[i] = early[j] => i = j
  /\ \A i, j \in DOMAIN queue : queue[i] = queue[j] /\ IsTimer(queue[i]) => i = j

TimersInv ==
  EventsInv /\ TimersTypeOK /\ PlacesDiffer /\ \A t \in Tokens : PlacedOnce(t)
-----------------------------------------------------------------------------
(* Channels and sequences. *)

\* The channels of state and their values.
LEMMA ChannelFacts ==
  /\ Channels = {"visibility", "connectivity"}
  /\ Values["visibility"] = {"foreground", "background"}
  /\ Values["connectivity"] = {"online", "offline"}
  /\ Values.visibility = Values["visibility"]
  /\ "launch" \notin Channels /\ "timer" \notin Channels
  BY DEF Channels, Values

\* A host is one value of each channel, and stays one when a value changes.
LEMMA HostFacts ==
  ASSUME NEW h \in HostStates
  PROVE  /\ DOMAIN h = Channels
         /\ \A c \in Channels : h[c] \in Values[c]
         /\ \A c \in Channels : \A v \in Values[c] : [h EXCEPT ![c] = v] \in HostStates
<1> USE ChannelFacts
<1>1. DOMAIN h = Channels /\ \A c \in Channels : h[c] \in Values[c]
  BY DEF HostStates, Values
<1>2. ASSUME NEW v \in Values["visibility"] PROVE [h EXCEPT !["visibility"] = v] \in HostStates
  BY <1>2 DEF HostStates, Values
<1>3. ASSUME NEW v \in Values["connectivity"] PROVE [h EXCEPT !["connectivity"] = v] \in HostStates
  BY <1>3 DEF HostStates, Values
<1> QED
  BY <1>1, <1>2, <1>3

\* A channel has another value to change to.
LEMMA OtherFacts ==
  ASSUME NEW c \in Channels, NEW v
  PROVE  Other(c, v) \in Values[c]
<1>1. \E w \in Values[c] : w # v
  BY ChannelFacts
<1> QED
  BY <1>1 DEF Other

\* Kinds of events, told apart by their channels.
LEMMA EventFacts ==
  /\ \A c \in Channels : \A v \in Values[c] : [channel |-> c, value |-> v] \in StateEvents
  /\ Launch \in KeyedEvents /\ Launch.channel \notin Channels
  /\ \A t \in Tokens : ExpiryOf(t) \in TimerEvents
  /\ \A e \in TimerEvents : e.channel \notin Channels /\ e \notin KeyedEvents
  /\ \A t \in Tokens : ExpiryOf(t).value = t
  /\ NoEvent \notin Events
  /\ StateEvents \subseteq KeyedEvents /\ KeyedEvents \subseteq Events /\ TimerEvents \subseteq Events
<1> USE ChannelFacts
<1>1. \A c \in Channels : \A v \in Values[c] : [channel |-> c, value |-> v] \in StateEvents
  BY DEF StateEvents
<1>2. Launch \in KeyedEvents /\ Launch.channel \notin Channels
  BY DEF Launch, KeyedEvents
<1>3. \A t \in Tokens : ExpiryOf(t) \in TimerEvents /\ ExpiryOf(t).value = t
  BY DEF ExpiryOf, TimerEvents
<1>4. \A e \in TimerEvents : e.channel = "timer"
  BY DEF TimerEvents
<1>5. \A e \in KeyedEvents : e.channel \in Channels \cup {"launch"}
  BY DEF KeyedEvents, StateEvents, Launch
<1>6. \A e \in TimerEvents : e.channel \notin Channels /\ e \notin KeyedEvents
  BY <1>4, <1>5
<1>7. NoEvent \notin Events
  BY <1>4, <1>5 DEF NoEvent, Events
<1> QED
  BY <1>1, <1>2, <1>3, <1>6, <1>7 DEF KeyedEvents, Events

\* The value of an event of a channel is one of the channel's values.
LEMMA ValueFacts ==
  ASSUME NEW e \in Events, e.channel \in Channels
  PROVE  e.value \in Values[e.channel] /\ e \in KeyedEvents
<1>1. e \in StateEvents
  BY EventFacts, ChannelFacts DEF Events, KeyedEvents
<1>2. PICK c \in Channels : e \in [channel : {c}, value : Values[c]]
  BY <1>1 DEF StateEvents
<1> QED
  BY <1>1, <1>2 DEF KeyedEvents

\* An event behind the others.
LEMMA AppendFacts ==
  ASSUME NEW S, NEW s \in Seq(S), NEW e \in S
  PROVE  /\ Append(s, e) \in Seq(S)
         /\ DOMAIN s = 1..Len(s) /\ Len(s) \in Nat
         /\ DOMAIN Append(s, e) = 1..Len(s) + 1
         /\ \A i \in DOMAIN s : Append(s, e)[i] = s[i] /\ i < Len(s) + 1
         /\ Append(s, e)[Len(s) + 1] = e
  OBVIOUS

\* The queue without its first event.
LEMMA TailFacts ==
  ASSUME NEW S, NEW s \in Seq(S), s # <<>>
  PROVE  /\ Tail(s) \in Seq(S) /\ Head(s) \in S /\ Head(s) = s[1]
         /\ DOMAIN s = 1..Len(s) /\ Len(s) \in Nat /\ Len(s) > 0
         /\ DOMAIN Tail(s) = 1..Len(s) - 1
         /\ \A i \in DOMAIN Tail(s) : i + 1 \in DOMAIN s /\ Tail(s)[i] = s[i + 1]
         /\ \A i \in DOMAIN s : i = 1 \/ (i - 1 \in DOMAIN Tail(s) /\ Tail(s)[i - 1] = s[i])
  OBVIOUS

\* Events behind the others.
LEMMA JoinFacts ==
  ASSUME NEW S, NEW s \in Seq(S), NEW f \in Seq(S), NEW n \in Nat, Len(f) = n
  PROVE  /\ s \o f \in Seq(S)
         /\ DOMAIN s = 1..Len(s) /\ Len(s) \in Nat
         /\ DOMAIN (s \o f) = 1..Len(s) + n
         /\ \A i \in DOMAIN s : (s \o f)[i] = s[i]
         /\ \A i \in DOMAIN (s \o f) : i \in DOMAIN s \/ (i - Len(s) \in 1..n /\ (s \o f)[i] = f[i - Len(s)])
         /\ \A i \in 1..n : Len(s) + i \in DOMAIN (s \o f) /\ (s \o f)[Len(s) + i] = f[i]
<1>1. s \o f \in Seq(S) /\ Len(s \o f) = Len(s) + n
  OBVIOUS
<1>2. \A i \in 1..Len(s) + n : (s \o f)[i] = IF i <= Len(s) THEN s[i] ELSE f[i - Len(s)]
  BY <1>1
<1> QED
  BY <1>1, <1>2
-----------------------------------------------------------------------------
(* Steps of the queue and of the bridge. *)

\* Nothing was told, and nothing waits.
LEMMA EventsStart == EventsInit => EventsInv
<1> SUFFICES ASSUME EventsInit PROVE EventsInv
  OBVIOUS
<1>1. host \in HostStates /\ \A c \in Channels : host[c] \in Values[c]
  BY HostFacts DEF EventsInit
<1>2. queue \in Seq(Events) /\ \A c \in Channels : OnChannel(c) = {}
  BY DEF EventsInit, OnChannel
<1>3. snapshot \in Values.visibility
  BY <1>1, ChannelFacts DEF EventsInit
<1>4. changes \in 0..MaxChanges
  BY EventsAssumption DEF EventsInit
<1>5. EventsTypeOK
  BY <1>1, <1>2, <1>3, <1>4 DEF EventsInit, EventsTypeOK, BridgePlaces
<1>6. UnheardIsUnknown /\ LastIsCurrent
  BY <1>2 DEF EventsInit, UnheardIsUnknown, LastIsCurrent, Current, Told
<1> QED
  BY <1>5, <1>6 DEF EventsInit, EventsInv, KeysPending, RunningSeen

\* What enqueue does, to the channel of the event and to the others.
LEMMA QueueGrows ==
  ASSUME EventsInv, NEW e \in Events, Enqueued(e), UNCHANGED running
  PROVE  /\ queue' \in Seq(Events) /\ pendingKeys' \subseteq KeyedEvents /\ issued' \in Nat
         /\ KeysPending'
         /\ \A c \in Channels \ {e.channel} :
              OnChannel(c)' = OnChannel(c) /\ \A i \in OnChannel(c) : queue'[i] = queue[i]
         /\ disposed \/ e \in pendingKeys => queue' = queue
         /\ ~disposed /\ e \notin pendingKeys =>
              /\ OnChannel(e.channel)' = OnChannel(e.channel) \cup {Len(queue) + 1}
              /\ queue'[Len(queue) + 1] = e
              /\ \A i \in OnChannel(e.channel) : i < Len(queue) + 1 /\ i \in Nat
<1>1. /\ queue \in Seq(Events) /\ pendingKeys \subseteq KeyedEvents /\ issued \in Nat /\ KeysPending
      /\ Len(queue) \in Nat
  BY DEF EventsInv, EventsTypeOK
<1>2. CASE disposed \/ e \in pendingKeys
  <2>1. UNCHANGED <<queue, pendingKeys, issued>>
    BY <1>2 DEF Enqueued, Duplicate
  <2> QED
    BY <1>1, <1>2, <2>1 DEF KeysPending, IsQueued, OnChannel
<1>3. CASE ~disposed /\ e \notin pendingKeys
  <2>1. /\ queue' = Append(queue, e) /\ issued' = issued + 1
        /\ pendingKeys' = IF e \in KeyedEvents THEN pendingKeys \cup {e} ELSE pendingKeys
    BY <1>3 DEF Enqueued, Duplicate
  <2>2. /\ Append(queue, e) \in Seq(Events)
        /\ DOMAIN queue = 1..Len(queue)
        /\ DOMAIN Append(queue, e) = 1..Len(queue) + 1
        /\ \A i \in DOMAIN queue : Append(queue, e)[i] = queue[i] /\ i < Len(queue) + 1
        /\ Append(queue, e)[Len(queue) + 1] = e
    BY <1>1, AppendFacts
  <2>3. DOMAIN queue' = DOMAIN queue \cup {Len(queue) + 1} /\ Len(queue) + 1 \notin DOMAIN queue
    BY <1>1, <2>1, <2>2
  <2>4. KeysPending'
    BY <1>1, <2>1, <2>2, <2>3 DEF KeysPending, IsQueued
  <2>5. \A c \in Channels \ {e.channel} :
          OnChannel(c)' = OnChannel(c) /\ \A i \in OnChannel(c) : queue'[i] = queue[i]
    BY <2>1, <2>2, <2>3 DEF OnChannel
  <2>6. OnChannel(e.channel)' = OnChannel(e.channel) \cup {Len(queue) + 1}
    BY <2>1, <2>2, <2>3 DEF OnChannel
  <2>7. queue'[Len(queue) + 1] = e
    BY <2>1, <2>2
  <2>8. \A i \in OnChannel(e.channel) : i < Len(queue) + 1 /\ i \in Nat
    BY <2>2 DEF OnChannel
  <2>9. queue' \in Seq(Events) /\ pendingKeys' \subseteq KeyedEvents /\ issued' \in Nat
    BY <1>1, <2>1, <2>2
  <2> QED
    BY <1>3, <2>4, <2>5, <2>6, <2>7, <2>8, <2>9
<1> QED
  BY <1>2, <1>3

\* A channel that nothing happens to stays current.
LEMMA CurrentKept ==
  ASSUME NEW c \in Channels, Current(c), OnChannel(c)' = OnChannel(c),
         \A i \in OnChannel(c) : queue'[i] = queue[i],
         host'[c] = host[c], seen'[c] = seen[c], Told(c)' => Told(c)
  PROVE  Current(c)'
  BY DEF Current

\* The state of a channel is enqueued: then it is what was said last, unless it is pending,
\* when it is what was said last if the channel was current.
LEMMA CurrentAnnounced ==
  ASSUME EventsInv, NEW c \in Channels, Enqueued([channel |-> c, value |-> host'[c]]),
         host'[c] \in Values[c], ~disposed, UNCHANGED <<running, seen>>,
         [channel |-> c, value |-> host'[c]] \in pendingKeys => Current(c) /\ host'[c] = host[c]
  PROVE  Current(c)'
<1> DEFINE e == [channel |-> c, value |-> host'[c]]
<1>1. e \in Events /\ e.channel = c /\ e.value = host'[c]
  BY EventFacts
<1> HIDE DEF e
<1>2. Enqueued(e)
  BY DEF e
<1>3. CASE e \in pendingKeys
  <2>1. queue' = queue /\ Current(c) /\ host'[c] = host[c]
    BY <1>1, <1>2, <1>3, QueueGrows DEF e
  <2>2. e = running \/ IsQueued(e)
    BY <1>3 DEF EventsInv, KeysPending
  <2>3. OnChannel(c)' = OnChannel(c)
    BY <2>1 DEF OnChannel
  <2>4. OnChannel(c) = {} => seen[c] = host[c]
    <3>1. ASSUME OnChannel(c) = {} PROVE seen[c] = host[c]
      <4>1. ~IsQueued(e)
        BY <1>1, <3>1 DEF IsQueued, OnChannel
      <4>2. e = running /\ running # NoEvent
        BY <2>2, <4>1, <1>1, EventFacts
      <4> QED
        BY <1>1, <2>1, <4>2 DEF EventsInv, RunningSeen
    <3> QED
      BY <3>1
  <2> QED
    BY <2>1, <2>3, <2>4 DEF Current
<1>4. CASE e \notin pendingKeys
  <2>1. /\ OnChannel(c)' = OnChannel(c) \cup {Len(queue) + 1}
        /\ queue'[Len(queue) + 1] = e
        /\ \A i \in OnChannel(c) : i < Len(queue) + 1 /\ i \in Nat
    BY <1>1, <1>2, <1>4, QueueGrows
  <2>2. Len(queue) \in Nat
    BY DEF EventsInv, EventsTypeOK
  <2>3. ASSUME NEW i \in OnChannel(c)', \A j \in OnChannel(c)' : j <= i PROVE queue'[i].value = host'[c]
    <3>1. Len(queue) + 1 <= i
      BY <2>1, <2>3
    <3>2. i = Len(queue) + 1
      BY <2>1, <2>2, <3>1
    <3> QED
      BY <1>1, <2>1, <3>2
  <2> QED
    BY <2>1, <2>3 DEF Current
<1> QED
  BY <1>3, <1>4

\* A change of the host is enqueued, or regarded as known.
LEMMA HostChangesStep == ASSUME EventsInv, NEW c \in Channels, HostChanges(c) PROVE EventsInv'
<1> DEFINE v == Other(c, host[c])
           e == [channel |-> c, value |-> v]
<1>1. /\ EventsTypeOK /\ host \in HostStates /\ v \in Values[c] /\ KeysPending /\ RunningSeen
      /\ UnheardIsUnknown /\ LastIsCurrent
  BY OtherFacts DEF EventsInv, EventsTypeOK
<1>2. e \in Events /\ e.channel = c /\ e.value = v
  BY <1>1, EventFacts
<1>3. /\ host' = [host EXCEPT ![c] = v] /\ changes' = changes + 1 /\ changes < MaxChanges
      /\ UNCHANGED <<native, running, seen, bridge, snapshot, awaited, disposed>>
  BY DEF HostChanges
<1>4. /\ Listening(c) => Enqueued(e)
      /\ Listening(c) => missed' = IF e \in pendingKeys THEN missed \cup {c} ELSE missed \ {c}
      /\ ~Listening(c) => UNCHANGED <<queue, pendingKeys, issued, missed>>
  BY DEF HostChanges, Duplicate
<1> HIDE DEF v, e
<1>5. /\ host' \in HostStates /\ host'[c] = v
      /\ \A b \in Channels \ {c} : host'[b] = host[b]
  BY <1>1, <1>3, HostFacts
<1>6. /\ queue' \in Seq(Events) /\ pendingKeys' \subseteq KeyedEvents /\ issued' \in Nat /\ KeysPending'
      /\ \A b \in Channels \ {c} :
           OnChannel(b)' = OnChannel(b) /\ \A i \in OnChannel(b) : queue'[i] = queue[i]
  <2>1. CASE Listening(c)
    BY <1>2, <1>3, <1>4, <2>1, QueueGrows
  <2>2. CASE ~Listening(c)
    BY <1>1, <1>3, <1>4, <2>2 DEF EventsTypeOK, KeysPending, IsQueued, OnChannel
  <2> QED
    BY <2>1, <2>2
<1>7. missed' \subseteq Channels
  BY <1>1, <1>4 DEF EventsTypeOK
<1>8. changes' \in 0..MaxChanges
  BY <1>1, <1>3, EventsAssumption DEF EventsTypeOK
<1>9. EventsTypeOK'
  BY <1>1, <1>3, <1>5, <1>6, <1>7, <1>8 DEF EventsTypeOK
<1>10. RunningSeen'
  BY <1>1, <1>3 DEF RunningSeen
<1>11. UnheardIsUnknown'
  <2>1. ASSUME NEW b \in Channels, ~Listening(b)' PROVE OnChannel(b)' = {} /\ seen'[b] = "unknown"
    <3>1. ~Listening(b)
      BY <1>3, <2>1 DEF Listening
    <3>2. OnChannel(b) = {} /\ seen[b] = "unknown"
      BY <1>1, <3>1 DEF UnheardIsUnknown
    <3>3. OnChannel(b)' = OnChannel(b)
      <4>1. CASE b = c
        BY <1>4, <3>1, <4>1 DEF OnChannel
      <4>2. CASE b # c
        BY <1>6, <4>2
      <4> QED
        BY <4>1, <4>2
    <3> QED
      BY <1>3, <3>2, <3>3
  <2> QED
    BY <2>1 DEF UnheardIsUnknown
<1>12. ASSUME ~disposed, NEW b \in Channels \ missed' PROVE Current(b)'
  <2>1. CASE b # c
    <3>1. b \notin missed
      BY <1>4, <1>12, <2>1
    <3>2. Current(b)
      BY <1>1, <1>12, <3>1 DEF LastIsCurrent
    <3>3. Told(b)' = Told(b)
      BY <1>3 DEF Told
    <3> QED
      BY <1>3, <1>5, <1>6, <2>1, <3>2, <3>3, CurrentKept
  <2>2. CASE b = c /\ Listening(c)
    <3>1. e \notin pendingKeys
      BY <1>4, <1>12, <2>2
    <3>2. Enqueued([channel |-> c, value |-> host'[c]])
      BY <1>4, <1>5, <2>2 DEF e
    <3>3. [channel |-> c, value |-> host'[c]] \notin pendingKeys
      BY <1>5, <3>1 DEF e
    <3>4. Current(c)'
      BY <1>1, <1>3, <1>5, <1>12, <3>2, <3>3, CurrentAnnounced
    <3> QED
      BY <2>2, <3>4
  <2>3. CASE b = c /\ ~Listening(c)
    <3>1. OnChannel(c) = {} /\ seen[c] = "unknown"
      BY <1>1, <2>3 DEF UnheardIsUnknown
    <3>2. OnChannel(c)' = {} /\ seen'[c] = "unknown"
      BY <1>3, <1>4, <2>3, <3>1 DEF OnChannel
    <3>3. ~Told(c)'
      BY <1>3, <2>3 DEF Told, Listening
    <3>4. Current(c)'
      BY <3>2, <3>3 DEF Current
    <3> QED
      BY <2>3, <3>4
  <2> QED
    BY <2>1, <2>2, <2>3
<1>13. LastIsCurrent'
  BY <1>3, <1>12 DEF LastIsCurrent
<1> QED
  BY <1>6, <1>9, <1>10, <1>11, <1>13 DEF EventsInv

\* Steps that leave the queue and what was seen of it alone.
LEMMA QueueStays ==
  ASSUME EventsInv, UNCHANGED <<host, queue, pendingKeys, running, seen, disposed, missed>>,
         \A c \in Channels : (Told(c)' => Told(c)) /\ (Listening(c) => Listening(c)')
  PROVE  KeysPending' /\ RunningSeen' /\ UnheardIsUnknown' /\ LastIsCurrent'
<1>1. KeysPending' /\ RunningSeen'
  BY DEF EventsInv, KeysPending, IsQueued, RunningSeen
<1>2. \A c \in Channels : OnChannel(c)' = OnChannel(c)
  BY DEF OnChannel
<1>3. UnheardIsUnknown'
  BY <1>2 DEF EventsInv, UnheardIsUnknown
<1>4. ASSUME NEW c \in Channels, Current(c) PROVE Current(c)'
  BY <1>2, <1>4, CurrentKept
<1>5. LastIsCurrent'
  BY <1>4 DEF EventsInv, LastIsCurrent
<1> QED
  BY <1>1, <1>3, <1>5

\* The bridge asks for the state, or is told that it started.
LEMMA BridgeStays == ASSUME EventsInv, BridgeAsks \/ BridgeStarted PROVE EventsInv'
<1>1. /\ UNCHANGED <<native, host, queue, pendingKeys, running, seen, disposed, missed, awaited, issued, changes>>
      /\ \/ bridge = "off" /\ bridge' = "asked"
         \/ bridge = "connecting" /\ bridge' = "started"
      /\ snapshot' = snapshot \/ snapshot' = host.visibility
  BY DEF BridgeAsks, BridgeStarted
<1>2. \A c \in Channels : (Told(c)' => Told(c)) /\ (Listening(c) => Listening(c)')
  BY <1>1 DEF Told, Listening
<1>3. KeysPending' /\ RunningSeen' /\ UnheardIsUnknown' /\ LastIsCurrent'
  BY <1>1, <1>2, QueueStays
<1>4. host.visibility \in Values.visibility
  BY HostFacts, ChannelFacts DEF EventsInv, EventsTypeOK
<1>5. snapshot' \in Values.visibility /\ bridge' \in BridgePlaces
  BY <1>1, <1>4 DEF EventsInv, EventsTypeOK, BridgePlaces
<1>6. EventsTypeOK'
  BY <1>1, <1>5 DEF EventsInv, EventsTypeOK
<1> QED
  BY <1>3, <1>6 DEF EventsInv

\* The launch is enqueued.
LEMMA BridgeLaunchesStep == ASSUME EventsInv, BridgeLaunches PROVE EventsInv'
<1>1. /\ Enqueued(Launch) /\ awaited' = issued'
      /\ UNCHANGED <<native, host, running, seen, snapshot, changes, missed, disposed>>
      /\ bridge \in {"off", "asked"} /\ bridge' = "launching"
  BY DEF BridgeLaunches, EnqueuedAndAwaited
<1>2. Launch \in Events /\ Launch.channel \notin Channels
  BY EventFacts
<1>3. /\ queue' \in Seq(Events) /\ pendingKeys' \subseteq KeyedEvents /\ issued' \in Nat /\ KeysPending'
      /\ \A c \in Channels :
           OnChannel(c)' = OnChannel(c) /\ \A i \in OnChannel(c) : queue'[i] = queue[i]
  BY <1>1, <1>2, QueueGrows
<1>4. EventsTypeOK'
  <2>1. bridge' \in BridgePlaces
    BY <1>1 DEF BridgePlaces
  <2> QED
    BY <1>1, <1>3, <2>1 DEF EventsInv, EventsTypeOK
<1>5. RunningSeen'
  BY <1>1 DEF EventsInv, RunningSeen
<1>6. \A c \in Channels : ~Told(c)' /\ (Listening(c) => Listening(c)')
  BY <1>1 DEF Told, Listening
<1>7. UnheardIsUnknown'
  BY <1>1, <1>3, <1>6 DEF EventsInv, UnheardIsUnknown
<1>8. ASSUME NEW c \in Channels, Current(c) PROVE Current(c)'
  BY <1>1, <1>3, <1>6, <1>8, CurrentKept
<1>9. LastIsCurrent'
  BY <1>1, <1>8 DEF EventsInv, LastIsCurrent
<1> QED
  BY <1>3, <1>4, <1>5, <1>7, <1>9 DEF EventsInv

\* start() announces a channel: its listener is registered by now.
LEMMA BridgeTellsStep == ASSUME EventsInv, BridgeAnnounces \/ BridgeConnects PROVE EventsInv'
<1>a. PICK c : c = IF bridge = "launching" THEN "visibility" ELSE "connectivity"
  OBVIOUS
<1>b. PICK v : v = IF bridge = "launching" THEN Announced ELSE host.connectivity
  OBVIOUS
<1>c. PICK e : e = [channel |-> c, value |-> v]
  OBVIOUS
<1>1. /\ EventsTypeOK /\ host \in HostStates /\ KeysPending /\ RunningSeen
      /\ UnheardIsUnknown /\ LastIsCurrent
  BY DEF EventsInv, EventsTypeOK
<1>2. /\ Enqueued(e) /\ awaited' = issued'
      /\ UNCHANGED <<native, host, running, seen, snapshot, changes, disposed>>
      /\ \/ bridge = "launching" /\ bridge' = "announcing"
         \/ bridge = "announcing" /\ bridge' = "connecting" /\ missed' = missed
  BY <1>a, <1>b, <1>c DEF BridgeAnnounces, BridgeConnects, EnqueuedAndAwaited
<1>3. /\ missed \subseteq missed' /\ missed' \subseteq missed \cup {"visibility"}
      /\ bridge = "launching" /\ "visibility" \notin missed' => v = host.visibility
  BY <1>2, <1>b DEF BridgeAnnounces, BridgeConnects, Announced
<1>4. c \in Channels /\ v \in Values[c]
  <2>1. host.visibility \in Values["visibility"] /\ host.connectivity \in Values["connectivity"]
    BY <1>1, HostFacts, ChannelFacts
  <2>2. snapshot \in Values["visibility"]
    BY <1>1, ChannelFacts DEF EventsTypeOK
  <2> QED
    BY <1>2, <1>a, <1>b, <2>1, <2>2, ChannelFacts DEF Announced
<1>5. e \in Events /\ e.channel = c /\ e.value = v
  BY <1>4, <1>c, EventFacts
<1>6. c \notin missed' => v = host[c]
  BY <1>2, <1>3, <1>a, <1>b
<1>7. /\ \A b \in Channels \ {c} : Told(b)' => Told(b)
      /\ \A b \in Channels : Listening(b) => Listening(b)'
      /\ Listening(c)'
  BY <1>2, <1>a, ChannelFacts DEF Told, Listening
<1>8. /\ queue' \in Seq(Events) /\ pendingKeys' \subseteq KeyedEvents /\ issued' \in Nat /\ KeysPending'
      /\ \A b \in Channels \ {c} :
           OnChannel(b)' = OnChannel(b) /\ \A i \in OnChannel(b) : queue'[i] = queue[i]
  BY <1>2, <1>5, QueueGrows
<1>9. EventsTypeOK'
  <2>1. bridge' \in BridgePlaces /\ missed' \subseteq Channels
    BY <1>1, <1>2, <1>3, ChannelFacts DEF BridgePlaces, EventsTypeOK
  <2> QED
    BY <1>1, <1>2, <1>8, <2>1 DEF EventsTypeOK
<1>10. RunningSeen'
  BY <1>1, <1>2 DEF RunningSeen
<1>11. UnheardIsUnknown'
  BY <1>1, <1>2, <1>7, <1>8 DEF UnheardIsUnknown
<1>12. ASSUME ~disposed, NEW b \in Channels \ missed' PROVE Current(b)'
  <2>1. Current(b)
    BY <1>1, <1>3, <1>12 DEF LastIsCurrent
  <2>2. CASE b # c
    BY <1>2, <1>7, <1>8, <2>1, <2>2, CurrentKept
  <2>3. CASE b = c
    <3>1. v = host'[c] /\ host'[c] = host[c]
      BY <1>2, <1>6, <1>12, <2>3
    <3>2. Enqueued([channel |-> c, value |-> host'[c]]) /\ host'[c] \in Values[c]
      BY <1>2, <1>4, <1>c, <3>1
    <3>3. Current(c)'
      BY <1>2, <1>4, <1>12, <2>1, <2>3, <3>1, <3>2, CurrentAnnounced
    <3> QED
      BY <2>3, <3>3
  <2> QED
    BY <2>2, <2>3
<1>13. LastIsCurrent'
  BY <1>2, <1>12 DEF LastIsCurrent
<1> QED
  BY <1>8, <1>9, <1>10, <1>11, <1>13 DEF EventsInv

\* The first of the queue is handled, and with it its value seen.
LEMMA DispatchStep == ASSUME EventsInv, Dispatch PROVE EventsInv'
<1> DEFINE e == Head(queue)
<1>1. /\ EventsTypeOK /\ queue \in Seq(Events) /\ KeysPending /\ RunningSeen
      /\ UnheardIsUnknown /\ LastIsCurrent
  BY DEF EventsInv, EventsTypeOK
<1>2. /\ running = NoEvent /\ queue # <<>> /\ ~disposed /\ running' = Head(queue)
      /\ queue' = Tail(queue)
      /\ seen' = IF Head(queue).channel \in Channels
                 THEN [seen EXCEPT ![Head(queue).channel] = Head(queue).value] ELSE seen
      /\ UNCHANGED <<native, host, pendingKeys, bridge, snapshot, awaited, issued, changes,
                     missed, disposed>>
  BY DEF Dispatch
<1>3. /\ Tail(queue) \in Seq(Events) /\ e \in Events /\ e = queue[1]
      /\ DOMAIN queue = 1..Len(queue) /\ Len(queue) \in Nat /\ Len(queue) > 0
      /\ DOMAIN Tail(queue) = 1..Len(queue) - 1
      /\ \A i \in DOMAIN Tail(queue) : i + 1 \in DOMAIN queue /\ Tail(queue)[i] = queue[i + 1]
      /\ \A i \in DOMAIN queue :
           i = 1 \/ (i - 1 \in DOMAIN Tail(queue) /\ Tail(queue)[i - 1] = queue[i])
  BY <1>1, <1>2, TailFacts
<1>4. e.channel \in Channels => e.value \in Values[e.channel]
  BY <1>3, ValueFacts
<1>5. /\ DOMAIN seen' = Channels
      /\ \A c \in Channels : seen'[c] = IF c = e.channel THEN e.value ELSE seen[c]
  BY <1>1, <1>2 DEF EventsTypeOK
<1> HIDE DEF e
<1>6. EventsTypeOK'
  <2>1. \A c \in Channels : seen'[c] \in Values[c] \cup {"unknown"}
    BY <1>1, <1>4, <1>5 DEF EventsTypeOK
  <2>2. running' \in Events \cup {NoEvent}
    BY <1>2, <1>3 DEF e
  <2> QED
    BY <1>1, <1>2, <1>3, <1>5, <2>1, <2>2 DEF EventsTypeOK
<1>7. KeysPending'
  <2>1. ASSUME NEW k \in pendingKeys PROVE k = running' \/ IsQueued(k)'
    <3>1. k # running
      BY <1>1, <1>2, EventFacts DEF EventsTypeOK
    <3>2. PICK i \in DOMAIN queue : queue[i] = k
      BY <1>1, <3>1 DEF KeysPending, IsQueued
    <3>3. CASE i = 1
      BY <1>2, <1>3, <3>2, <3>3 DEF e
    <3>4. CASE i # 1
      BY <1>2, <1>3, <3>2, <3>4 DEF IsQueued
    <3> QED
      BY <3>3, <3>4
  <2> QED
    BY <1>2, <2>1 DEF KeysPending
<1>8. RunningSeen'
  BY <1>2, <1>5 DEF RunningSeen, e
<1>9. \A c \in Channels : \A i \in OnChannel(c)' : i + 1 \in OnChannel(c) /\ queue'[i] = queue[i + 1] /\ i \in Nat
  BY <1>2, <1>3 DEF OnChannel
<1>10. \A c \in Channels : \A i \in OnChannel(c) :
         /\ i \in Nat
         /\ i = 1 \/ (i - 1 \in OnChannel(c)' /\ queue'[i - 1] = queue[i])
  BY <1>2, <1>3 DEF OnChannel
<1>11. e.channel \in Channels => 1 \in OnChannel(e.channel)
  BY <1>3 DEF OnChannel
<1>12. UnheardIsUnknown'
  <2>1. ASSUME NEW c \in Channels, ~Listening(c)' PROVE OnChannel(c)' = {} /\ seen'[c] = "unknown"
    <3>1. ~Listening(c)
      BY <1>2, <2>1 DEF Listening
    <3>2. OnChannel(c) = {} /\ seen[c] = "unknown"
      BY <1>1, <3>1 DEF UnheardIsUnknown
    <3>3. c # e.channel
      BY <1>11, <3>2
    <3> QED
      BY <1>5, <1>9, <3>2, <3>3
  <2> QED
    BY <2>1 DEF UnheardIsUnknown
<1>13. ASSUME NEW c \in Channels \ missed PROVE Current(c)'
  <2>1. Current(c)
    BY <1>1, <1>2 DEF LastIsCurrent
  <2>2. ASSUME NEW i \in OnChannel(c)', \A j \in OnChannel(c)' : j <= i PROVE queue'[i].value = host'[c]
    <3>1. i + 1 \in OnChannel(c) /\ queue'[i] = queue[i + 1] /\ i \in Nat
      BY <1>9
    <3>2. ASSUME NEW j \in OnChannel(c) PROVE j <= i + 1
      <4>1. j \in Nat /\ (j = 1 \/ j - 1 \in OnChannel(c)')
        BY <1>10
      <4>2. CASE j = 1
        BY <3>1, <4>2
      <4>3. CASE j - 1 \in OnChannel(c)'
        BY <2>2, <3>1, <4>1, <4>3
      <4> QED
        BY <4>1, <4>2, <4>3
    <3> QED
      BY <1>2, <2>1, <3>1, <3>2 DEF Current
  <2>3. ASSUME OnChannel(c)' = {}
        PROVE  seen'[c] = host'[c] \/ (seen'[c] = "unknown" /\ ~Told(c)')
    <3>1. \A i \in OnChannel(c) : i = 1
      BY <1>10, <2>3
    <3>2. CASE e.channel = c
      <4>1. 1 \in OnChannel(c) /\ \A j \in OnChannel(c) : j <= 1
        BY <1>11, <3>1, <3>2
      <4>2. queue[1].value = host[c]
        BY <2>1, <4>1 DEF Current
      <4> QED
        BY <1>2, <1>3, <1>5, <3>2, <4>2
    <3>3. CASE e.channel # c
      <4>1. 1 \notin OnChannel(c)
        BY <1>3, <3>3 DEF OnChannel
      <4>2. OnChannel(c) = {}
        BY <3>1, <4>1
      <4> QED
        BY <1>2, <1>5, <2>1, <3>3, <4>2 DEF Current, Told
    <3> QED
      BY <3>2, <3>3
  <2> QED
    BY <2>2, <2>3 DEF Current
<1>14. LastIsCurrent'
  BY <1>2, <1>13 DEF LastIsCurrent
<1> QED
  BY <1>6, <1>7, <1>8, <1>12, <1>14 DEF EventsInv

\* The key of what was handled is free.
LEMMA FinishStep == ASSUME EventsInv, NEW raised \in BOOLEAN, Finish(raised) PROVE EventsInv'
<1>1. /\ running # NoEvent /\ running' = NoEvent /\ pendingKeys' = pendingKeys \ {running}
      /\ UNCHANGED <<native, host, queue, seen, bridge, snapshot, awaited, issued,
                     changes, missed, disposed>>
  BY DEF Finish, Released
<1>2. EventsTypeOK'
  BY <1>1 DEF EventsInv, EventsTypeOK
<1>3. KeysPending'
  BY <1>1 DEF EventsInv, KeysPending, IsQueued
<1>4. RunningSeen'
  BY <1>1 DEF RunningSeen
<1>5. \A c \in Channels : OnChannel(c)' = OnChannel(c)
  BY <1>1 DEF OnChannel
<1>6. UnheardIsUnknown'
  BY <1>1, <1>5 DEF EventsInv, UnheardIsUnknown, Listening
<1>7. ASSUME NEW c \in Channels, Current(c) PROVE Current(c)'
  BY <1>1, <1>5, <1>7, CurrentKept DEF Told
<1>8. LastIsCurrent'
  BY <1>1, <1>7 DEF EventsInv, LastIsCurrent
<1> QED
  BY <1>2, <1>3, <1>4, <1>6, <1>8 DEF EventsInv

\* An emptied queue has nothing to tell.
LEMMA DisposeStep == ASSUME EventsInv, Dispose PROVE EventsInv'
<1>1. /\ disposed' = TRUE /\ pendingKeys' = {} /\ queue' = <<>>
      /\ UNCHANGED <<native, host, running, seen, bridge, snapshot, awaited, issued, changes, missed>>
  BY DEF Dispose
<1>2. EventsTypeOK'
  BY <1>1 DEF EventsInv, EventsTypeOK
<1>3. KeysPending' /\ RunningSeen' /\ LastIsCurrent'
  BY <1>1 DEF EventsInv, KeysPending, RunningSeen, LastIsCurrent
<1>4. \A c \in Channels : OnChannel(c)' = {}
  BY <1>1 DEF OnChannel
<1>5. UnheardIsUnknown'
  BY <1>1, <1>4 DEF EventsInv, UnheardIsUnknown, Listening
<1> QED
  BY <1>2, <1>3, <1>5 DEF EventsInv

\* Events of no channel and without a key are enqueued.
LEMMA ExpiriesEnqueued ==
  ASSUME EventsInv, NEW n \in Nat, NEW f \in [1..n -> TimerEvents], queue' = queue \o f,
         issued' = issued + n,
         UNCHANGED <<native, host, running, pendingKeys, seen, bridge, snapshot, awaited, changes,
                     missed, disposed>>
  PROVE  EventsInv'
<1>1. queue \in Seq(Events) /\ f \in Seq(Events) /\ Len(f) = n
  <2>1. f \in [1..n -> Events]
    BY EventFacts
  <2> QED
    BY <2>1 DEF EventsInv, EventsTypeOK
<1>2. /\ queue' \in Seq(Events)
      /\ DOMAIN queue = 1..Len(queue) /\ Len(queue) \in Nat
      /\ DOMAIN queue' = 1..Len(queue) + n
      /\ \A i \in DOMAIN queue : queue'[i] = queue[i]
      /\ \A i \in DOMAIN queue' :
           i \in DOMAIN queue \/ (i - Len(queue) \in 1..n /\ queue'[i] = f[i - Len(queue)])
  <2>1. /\ queue \o f \in Seq(Events)
        /\ DOMAIN queue = 1..Len(queue) /\ Len(queue) \in Nat
        /\ DOMAIN (queue \o f) = 1..Len(queue) + n
        /\ \A i \in DOMAIN queue : (queue \o f)[i] = queue[i]
        /\ \A i \in DOMAIN (queue \o f) :
             i \in DOMAIN queue \/ (i - Len(queue) \in 1..n /\ (queue \o f)[i] = f[i - Len(queue)])
    BY <1>1, JoinFacts
  <2>2. queue' = queue \o f
    OBVIOUS
  <2> QED
    BY <2>1, <2>2, Zenon
<1>3. DOMAIN queue \subseteq DOMAIN queue'
  BY <1>2
<1>4. EventsTypeOK'
  BY <1>2 DEF EventsInv, EventsTypeOK
<1>5. KeysPending'
  BY <1>2, <1>3 DEF EventsInv, KeysPending, IsQueued
<1>6. RunningSeen'
  BY DEF EventsInv, RunningSeen
<1>7. ASSUME NEW c \in Channels
      PROVE  OnChannel(c)' = OnChannel(c) /\ \A i \in OnChannel(c) : queue'[i] = queue[i]
  <2>1. \A i \in 1..n : f[i].channel # c
    BY EventFacts
  <2> QED
    BY <1>2, <1>3, <2>1 DEF OnChannel
<1>8. UnheardIsUnknown'
  BY <1>7 DEF EventsInv, UnheardIsUnknown, Listening
<1>9. ASSUME NEW c \in Channels, Current(c) PROVE Current(c)'
  BY <1>7, <1>9, CurrentKept DEF Told
<1>10. LastIsCurrent'
  BY <1>9 DEF EventsInv, LastIsCurrent
<1> QED
  BY <1>4, <1>5, <1>6, <1>8, <1>10 DEF EventsInv
-----------------------------------------------------------------------------
(* Steps of the timers. *)

\* No timer was started.
LEMMA TimersStart == EventsInit /\ TimersInit => TimersInv
<1> SUFFICES ASSUME EventsInit, TimersInit PROVE TimersInv
  OBVIOUS
<1>1. EventsInv
  BY EventsStart
<1>2. TimersTypeOK
  <2>1. EventsTypeOK
    BY <1>1 DEF EventsInv
  <2>2. /\ active \in [TimerIds -> Tokens \cup {NoTimer}]
        /\ startedAs \in [Tokens -> TimerIds \cup {NoTimer}]
    BY DEF TimersInit
  <2>3. early \in Seq(Tokens) /\ handed \in [Tokens -> Nat]
    BY DEF TimersInit
  <2> QED
    BY <2>1, <2>2, <2>3 DEF TimersInit, TimersTypeOK
<1>3. PlacesDiffer
  BY DEF PlacesDiffer, TimersInit, EventsInit
<1>4. \A t \in Tokens : PlacedOnce(t)
  BY TimersAssumption DEF PlacedOnce, TimersInit, EventsInit, Runs, Early, IsQueued
<1> QED
  BY <1>1, <1>2, <1>3, <1>4 DEF TimersInv

\* A timer of which nothing changes is still in its one place.
LEMMA PlacedKept ==
  ASSUME NEW t \in Tokens, PlacedOnce(t), Runs(t)' <=> Runs(t), Early(t)' <=> Early(t),
         IsQueued(ExpiryOf(t))' <=> IsQueued(ExpiryOf(t)), t \in withdrawn' <=> t \in withdrawn,
         handed'[t] = handed[t], startedAs'[t] = startedAs[t], disposed' = disposed
  PROVE  PlacedOnce(t)'
  BY DEF PlacedOnce

\* A timer starts, and takes the place of the one that ran under its id.
LEMMA StartStep == ASSUME TimersInv, NEW id \in TimerIds, StartTimer(id) PROVE TimersInv'
<1>1. /\ EventsInv /\ TimersTypeOK /\ PlacesDiffer /\ \A t \in Tokens : PlacedOnce(t)
      /\ active \in [TimerIds -> Tokens \cup {NoTimer}]
      /\ startedAs \in [Tokens -> TimerIds \cup {NoTimer}]
      /\ NoTimer \notin Tokens /\ NoTimer \notin TimerIds
  BY TimersAssumption DEF TimersInv, TimersTypeOK
<1>2. PICK t \in Unused : /\ active' = [active EXCEPT ![id] = t]
                          /\ startedAs' = [startedAs EXCEPT ![t] = id]
  BY DEF StartTimer
<1>3. withdrawn' = withdrawn \cup ({active[id]} \ {NoTimer}) /\ UNCHANGED <<early, subscribed, handed, eventVars>>
  BY DEF StartTimer
<1>4. EventsInv'
  BY <1>1, <1>3 DEF EventsInv, eventVars, EventsTypeOK, KeysPending, IsQueued, RunningSeen, UnheardIsUnknown,
     LastIsCurrent, Current, OnChannel, Told, Listening
<1>5. t \in Tokens /\ startedAs[t] = NoTimer
  BY DEF Unused
<1>6. TimersTypeOK'
  BY <1>1, <1>2, <1>3, <1>4, <1>5 DEF TimersTypeOK, EventsInv
<1>7. UNCHANGED <<queue, disposed>>
  BY <1>3 DEF eventVars
<1>8. \A b \in TimerIds : active[b] # t /\ (b # id => active'[b] = active[b])
  BY <1>1, <1>2, <1>5 DEF PlacesDiffer
<1>9. PlacesDiffer'
  BY <1>1, <1>2, <1>3, <1>5, <1>7, <1>8 DEF PlacesDiffer
<1>10. ASSUME NEW u \in Tokens PROVE PlacedOnce(u)'
  <2>1. PlacedOnce(u) /\ Early(u)' = Early(u) /\ IsQueued(ExpiryOf(u))' = IsQueued(ExpiryOf(u))
        /\ handed'[u] = handed[u]
    BY <1>1, <1>3, <1>7 DEF Early, IsQueued
  <2>2. CASE u = t
    <3>1. ~Early(u) /\ ~IsQueued(ExpiryOf(u)) /\ u \notin withdrawn /\ handed[u] = 0
      BY <1>5, <2>1, <2>2 DEF PlacedOnce
    <3>2. active[id] # u /\ startedAs'[u] = id
      BY <1>1, <1>2, <1>5, <1>8, <2>2
    <3>3. Runs(u)' /\ u \notin withdrawn'
      BY <1>1, <1>2, <1>3, <2>2, <3>1, <3>2 DEF Runs
    <3> QED
      BY <1>1, <2>1, <3>1, <3>2, <3>3 DEF PlacedOnce
  <2>3. CASE u = active[id]
    <3>1. Runs(u) /\ startedAs[u] = id
      BY <1>1, <2>3 DEF Runs, PlacesDiffer
    <3>2. ~Early(u) /\ ~IsQueued(ExpiryOf(u)) /\ handed[u] = 0
      BY <2>1, <3>1 DEF PlacedOnce
    <3>3. u # t /\ u \in withdrawn' /\ startedAs'[u] = id
      BY <1>1, <1>2, <1>3, <1>5, <2>3, <3>1
    <3>4. ~Runs(u)'
      <4>1. ASSUME NEW b \in TimerIds PROVE active'[b] # u
        <5>1. CASE b = id
          BY <1>1, <1>2, <3>3, <5>1
        <5>2. CASE b # id
          BY <1>1, <1>8, <3>1, <5>2 DEF PlacesDiffer
        <5> QED
          BY <5>1, <5>2
      <4> QED
        BY <4>1 DEF Runs
    <3> QED
      BY <1>1, <2>1, <3>2, <3>3, <3>4 DEF PlacedOnce
  <2>4. CASE u # t /\ u # active[id]
    <3>1. Runs(u)' = Runs(u)
      BY <1>1, <1>2, <1>8, <2>4 DEF Runs
    <3>2. u \in withdrawn' <=> u \in withdrawn
      BY <1>3, <2>4
    <3>3. startedAs'[u] = startedAs[u]
      BY <1>1, <1>2, <2>4
    <3> QED
      BY <1>7, <2>1, <3>1, <3>2, <3>3, PlacedKept
  <2> QED
    BY <2>2, <2>3, <2>4
<1> QED
  BY <1>4, <1>6, <1>9, <1>10 DEF TimersInv

\* A timer that stops running under its id runs under none.
LEMMA StopsRunning ==
  ASSUME TimersInv, NEW id \in TimerIds, id \in Running, active' = [active EXCEPT ![id] = NoTimer],
         startedAs' = startedAs, NEW t, t = active[id]
  PROVE  /\ t \in Tokens /\ startedAs[t] # NoTimer
         /\ PlacedOnce(t) /\ Runs(t) /\ ~Runs(t)'
         /\ \A u \in Tokens \ {t} : Runs(u)' = Runs(u)
         /\ active' \in [TimerIds -> Tokens \cup {NoTimer}]
         /\ \A b \in TimerIds : active'[b] # NoTimer => startedAs'[active'[b]] = b
<1>1. /\ active \in [TimerIds -> Tokens \cup {NoTimer}] /\ NoTimer \notin Tokens
      /\ NoTimer \notin TimerIds /\ PlacesDiffer
  BY TimersAssumption DEF TimersInv, TimersTypeOK
<1>2. t \in Tokens /\ startedAs[t] = id
  BY <1>1 DEF Running, PlacesDiffer
<1>3. PlacedOnce(t)
  BY <1>2 DEF TimersInv
<1>4. \A b \in TimerIds : active'[b] = IF b = id THEN NoTimer ELSE active[b]
  BY <1>1
<1>5. ~Runs(t)'
  <2>1. ASSUME NEW b \in TimerIds PROVE active'[b] # t
    BY <1>1, <1>2, <1>4 DEF PlacesDiffer
  <2> QED
    BY <2>1 DEF Runs
<1>6. ASSUME NEW u \in Tokens \ {t} PROVE Runs(u)' = Runs(u)
  BY <1>1, <1>4 DEF Runs
<1>7. Runs(t)
  BY DEF Runs
<1>8. \A b \in TimerIds : active'[b] # NoTimer => startedAs'[active'[b]] = b
  BY <1>1, <1>4 DEF PlacesDiffer
<1> QED
  BY <1>1, <1>2, <1>3, <1>5, <1>6, <1>7, <1>8

\* The queue and its readers are left alone.
LEMMA EventsStay == ASSUME EventsInv, UNCHANGED eventVars PROVE EventsInv'
  BY DEF EventsInv, eventVars, EventsTypeOK, KeysPending, IsQueued, RunningSeen, UnheardIsUnknown,
     LastIsCurrent, Current, OnChannel, Told, Listening

\* A timer is withdrawn.
LEMMA CancelStep == ASSUME TimersInv, NEW id \in TimerIds, CancelTimer(id) PROVE TimersInv'
<1>1. EventsInv /\ TimersTypeOK /\ PlacesDiffer /\ \A u \in Tokens : PlacedOnce(u)
  BY DEF TimersInv
<1>2. /\ id \in Running /\ active' = [active EXCEPT ![id] = NoTimer]
      /\ withdrawn' = withdrawn \cup ({active[id]} \ {NoTimer})
      /\ UNCHANGED <<startedAs, early, subscribed, handed, eventVars>>
  BY DEF CancelTimer
<1>3. PICK t : t = active[id]
  OBVIOUS
<1>4. /\ t \in Tokens /\ startedAs[t] # NoTimer /\ PlacedOnce(t) /\ Runs(t) /\ ~Runs(t)'
      /\ \A u \in Tokens \ {t} : Runs(u)' = Runs(u)
      /\ active' \in [TimerIds -> Tokens \cup {NoTimer}]
      /\ \A b \in TimerIds : active'[b] # NoTimer => startedAs'[active'[b]] = b
  BY <1>2, <1>3, StopsRunning
<1>5. EventsInv'
  BY <1>1, <1>2, EventsStay
<1>6. withdrawn' = withdrawn \cup {t}
  BY <1>2, <1>3, <1>4 DEF Running
<1>7. TimersTypeOK'
  BY <1>1, <1>2, <1>4, <1>5, <1>6 DEF TimersTypeOK, EventsInv
<1>8. UNCHANGED <<queue, disposed>>
  BY <1>2 DEF eventVars
<1>9. PlacesDiffer'
  BY <1>1, <1>2, <1>4, <1>8 DEF PlacesDiffer
<1>10. ASSUME NEW u \in Tokens PROVE PlacedOnce(u)'
  <2>1. PlacedOnce(u) /\ Early(u)' = Early(u) /\ IsQueued(ExpiryOf(u))' = IsQueued(ExpiryOf(u))
        /\ handed'[u] = handed[u] /\ startedAs'[u] = startedAs[u]
    BY <1>1, <1>2, <1>8 DEF Early, IsQueued
  <2>2. CASE u = t
    <3>1. ~Early(t) /\ ~IsQueued(ExpiryOf(t)) /\ handed[t] = 0
      BY <1>4 DEF PlacedOnce
    <3> QED
      BY <1>4, <1>6, <2>1, <2>2, <3>1 DEF PlacedOnce
  <2>3. CASE u # t
    <3>1. Runs(u)' = Runs(u) /\ (u \in withdrawn' <=> u \in withdrawn)
      BY <1>4, <1>6, <2>3
    <3> QED
      BY <1>8, <2>1, <3>1, PlacedKept
  <2> QED
    BY <2>2, <2>3
<1> QED
  BY <1>5, <1>7, <1>9, <1>10 DEF TimersInv

\* emit puts an expiry into the queue, into the list of the early ones, or nowhere when
\* the queue is disposed.
LEMMA EmitFacts ==
  ASSUME TimersInv, NEW t \in Tokens, Emitted(t),
         UNCHANGED <<native, host, running, seen, bridge, snapshot, awaited, changes, missed, disposed>>
  PROVE  /\ EventsInv'
         /\ ~subscribed => early' = Append(early, t) /\ UNCHANGED queue
         /\ subscribed /\ disposed => UNCHANGED <<early, queue>>
         /\ subscribed /\ ~disposed => UNCHANGED early /\ queue' = Append(queue, ExpiryOf(t))
<1>1. EventsInv /\ queue \in Seq(Events) /\ pendingKeys \subseteq KeyedEvents
  BY DEF TimersInv, EventsInv, EventsTypeOK
<1>2. ExpiryOf(t) \in TimerEvents /\ ExpiryOf(t) \in Events /\ ExpiryOf(t) \notin KeyedEvents
  BY EventFacts
<1>3. ~Duplicate(ExpiryOf(t))
  BY <1>1, <1>2 DEF Duplicate
<1>4. CASE subscribed /\ ~disposed
  <2>1. /\ queue' = Append(queue, ExpiryOf(t)) /\ UNCHANGED <<early, pendingKeys>>
        /\ issued' = issued + 1
    BY <1>2, <1>3, <1>4 DEF Emitted, Enqueued
  <2> DEFINE f == [i \in 1..1 |-> ExpiryOf(t)]
  <2>2. f \in [1..1 -> TimerEvents]
    BY <1>2
  <2>3. queue \o f = Append(queue, ExpiryOf(t))
    <3>1. f = <<ExpiryOf(t)>>
      OBVIOUS
    <3> QED
      BY <1>1, <1>2, <3>1
  <2>4. queue' = queue \o f /\ issued' = issued + 1
    BY <2>1, <2>3
  <2> HIDE DEF f
  <2>5. EventsInv'
    BY <1>1, <2>1, <2>2, <2>4, ExpiriesEnqueued
  <2> QED
    BY <1>4, <2>1, <2>5
<1>5. CASE ~(subscribed /\ ~disposed)
  <2>1. UNCHANGED <<queue, pendingKeys, issued>>
        /\ early' = IF subscribed THEN early ELSE Append(early, t)
    BY <1>5 DEF Emitted, Enqueued
  <2>2. EventsInv'
    BY <1>1, <2>1, EventsStay DEF eventVars
  <2> QED
    BY <1>5, <2>1, <2>2
<1> QED
  BY <1>4, <1>5

\* Expiries of different timers are different events.
LEMMA ExpiriesDiffer ==
  /\ \A t, u \in Tokens : ExpiryOf(t) = ExpiryOf(u) => t = u
  /\ \A e : IsTimer(e) => e.value \in Tokens /\ e = ExpiryOf(e.value)
  /\ \A t \in Tokens : IsTimer(ExpiryOf(t)) /\ ExpiryOf(t) \in Events
<1>1. \A t, u \in Tokens : ExpiryOf(t) = ExpiryOf(u) => t = u
  BY EventFacts
<1>2. \A e : IsTimer(e) => e.value \in Tokens /\ e = ExpiryOf(e.value)
  BY DEF IsTimer, TimerEvents, ExpiryOf
<1>3. \A t \in Tokens : IsTimer(ExpiryOf(t)) /\ ExpiryOf(t) \in Events
  BY EventFacts DEF IsTimer
<1> QED
  BY <1>1, <1>2, <1>3

\* A timer elapses: its expiry waits, early or in the queue.
LEMMA ElapseStep == ASSUME TimersInv, NEW id \in TimerIds, Elapses(id) PROVE TimersInv'
<1>1. /\ EventsInv /\ TimersTypeOK /\ PlacesDiffer /\ \A u \in Tokens : PlacedOnce(u)
      /\ queue \in Seq(Events) /\ early \in Seq(Tokens)
  BY DEF TimersInv, TimersTypeOK, EventsInv, EventsTypeOK
<1>2. /\ id \in Running /\ active' = [active EXCEPT ![id] = NoTimer] /\ Emitted(active[id])
      /\ UNCHANGED <<startedAs, subscribed, withdrawn, handed, native, host, running,
                     seen, bridge, snapshot, awaited, changes, missed, disposed>>
  BY DEF Elapses
<1>3. PICK t : t = active[id]
  OBVIOUS
<1>4. /\ t \in Tokens /\ startedAs[t] # NoTimer /\ PlacedOnce(t) /\ Runs(t) /\ ~Runs(t)'
      /\ \A u \in Tokens \ {t} : Runs(u)' = Runs(u)
      /\ active' \in [TimerIds -> Tokens \cup {NoTimer}]
      /\ \A b \in TimerIds : active'[b] # NoTimer => startedAs'[active'[b]] = b
  BY <1>2, <1>3, StopsRunning
<1>5. ~Early(t) /\ ~IsQueued(ExpiryOf(t)) /\ t \notin withdrawn /\ handed[t] = 0
  BY <1>4 DEF PlacedOnce
<1>6. /\ EventsInv'
      /\ ~subscribed => early' = Append(early, t) /\ UNCHANGED queue
      /\ subscribed /\ disposed => UNCHANGED <<early, queue>>
      /\ subscribed /\ ~disposed => UNCHANGED early /\ queue' = Append(queue, ExpiryOf(t))
  BY <1>2, <1>3, <1>4, EmitFacts
<1>7. ExpiryOf(t) \in Events /\ \A u \in Tokens : ExpiryOf(u) = ExpiryOf(t) => u = t
  BY <1>4, ExpiriesDiffer
<1>8. /\ DOMAIN early = 1..Len(early) /\ Len(early) \in Nat /\ Append(early, t) \in Seq(Tokens)
      /\ DOMAIN Append(early, t) = 1..Len(early) + 1
      /\ \A i \in DOMAIN early : Append(early, t)[i] = early[i] /\ i < Len(early) + 1
      /\ Append(early, t)[Len(early) + 1] = t
  BY <1>1, <1>4, AppendFacts
<1>9. /\ DOMAIN queue = 1..Len(queue) /\ Len(queue) \in Nat
      /\ DOMAIN Append(queue, ExpiryOf(t)) = 1..Len(queue) + 1
      /\ \A i \in DOMAIN queue : Append(queue, ExpiryOf(t))[i] = queue[i] /\ i < Len(queue) + 1
      /\ Append(queue, ExpiryOf(t))[Len(queue) + 1] = ExpiryOf(t)
  BY <1>1, <1>7, AppendFacts
<1>10. /\ early' \in Seq(Tokens)
       /\ \A u \in Tokens : Early(u)' <=> Early(u) \/ (u = t /\ ~subscribed)
       /\ \A i, j \in DOMAIN early' : early'[i] = early'[j] => i = j
  <2>1. CASE subscribed
    BY <1>1, <1>6, <2>1 DEF Early, PlacesDiffer
  <2>2. CASE ~subscribed
    <3>1. early' = Append(early, t) /\ \A i \in DOMAIN early : early[i] # t
      BY <1>5, <1>6, <2>2 DEF Early
    <3>2. DOMAIN early' = DOMAIN early \cup {Len(early) + 1} /\ Len(early) + 1 \notin DOMAIN early
      BY <1>8, <3>1
    <3>3. \A u \in Tokens : Early(u)' <=> Early(u) \/ (u = t /\ ~subscribed)
      BY <1>8, <2>2, <3>1, <3>2 DEF Early
    <3>4. \A i, j \in DOMAIN early' : early'[i] = early'[j] => i = j
      BY <1>1, <1>8, <3>1, <3>2 DEF PlacesDiffer
    <3> QED
      BY <1>8, <3>1, <3>3, <3>4
  <2> QED
    BY <2>1, <2>2
<1>11. /\ \A u \in Tokens : IsQueued(ExpiryOf(u))' <=>
                              IsQueued(ExpiryOf(u)) \/ (u = t /\ subscribed /\ ~disposed)
       /\ \A i, j \in DOMAIN queue' : queue'[i] = queue'[j] /\ IsTimer(queue'[i]) => i = j
  <2>1. CASE ~(subscribed /\ ~disposed)
    BY <1>1, <1>6, <2>1 DEF IsQueued, PlacesDiffer
  <2>2. CASE subscribed /\ ~disposed
    <3>1. queue' = Append(queue, ExpiryOf(t)) /\ \A i \in DOMAIN queue : queue[i] # ExpiryOf(t)
      BY <1>5, <1>6, <2>2 DEF IsQueued
    <3>2. DOMAIN queue' = DOMAIN queue \cup {Len(queue) + 1} /\ Len(queue) + 1 \notin DOMAIN queue
      BY <1>9, <3>1
    <3>3. \A u \in Tokens : IsQueued(ExpiryOf(u))' <=>
                              IsQueued(ExpiryOf(u)) \/ (u = t /\ subscribed /\ ~disposed)
      BY <1>7, <1>9, <2>2, <3>1, <3>2 DEF IsQueued
    <3>4. \A i, j \in DOMAIN queue' : queue'[i] = queue'[j] /\ IsTimer(queue'[i]) => i = j
      BY <1>1, <1>9, <3>1, <3>2 DEF PlacesDiffer
    <3> QED
      BY <3>3, <3>4
  <2> QED
    BY <2>1, <2>2
<1>12. TimersTypeOK'
  BY <1>1, <1>2, <1>4, <1>6, <1>10 DEF TimersTypeOK, EventsInv
<1>13. PlacesDiffer'
  BY <1>4, <1>10, <1>11 DEF PlacesDiffer
<1>14. ASSUME NEW u \in Tokens PROVE PlacedOnce(u)'
  <2>1. CASE u = t
    <3>1. ~Runs(u)' /\ u \notin withdrawn' /\ handed'[u] = 0 /\ startedAs'[u] # NoTimer
      BY <1>2, <1>4, <1>5, <2>1
    <3>2. /\ Early(u)' <=> ~subscribed
          /\ IsQueued(ExpiryOf(u))' <=> subscribed /\ ~disposed
      BY <1>5, <1>10, <1>11, <2>1
    <3> QED
      BY <1>2, <3>1, <3>2 DEF PlacedOnce
  <2>2. CASE u # t
    <3>1. PlacedOnce(u) /\ Runs(u)' = Runs(u)
      BY <1>1, <1>4, <2>2
    <3>2. (Early(u)' <=> Early(u)) /\ (IsQueued(ExpiryOf(u))' <=> IsQueued(ExpiryOf(u)))
      BY <1>10, <1>11, <2>2
    <3> QED
      BY <1>2, <3>1, <3>2, PlacedKept
  <2> QED
    BY <2>1, <2>2
<1> QED
  BY <1>6, <1>12, <1>13, <1>14 DEF TimersInv

\* The early expiries go to the queue together.
LEMMA SubscribeStep == ASSUME TimersInv, Subscribe PROVE TimersInv'
<1>1. /\ EventsInv /\ TimersTypeOK /\ PlacesDiffer /\ \A u \in Tokens : PlacedOnce(u)
      /\ queue \in Seq(Events) /\ early \in Seq(Tokens) /\ issued \in Nat
  BY DEF TimersInv, TimersTypeOK, EventsInv, EventsTypeOK
<1>2. /\ ~subscribed /\ subscribed' = TRUE /\ early' = <<>> /\ EnqueuesEarly
      /\ UNCHANGED <<active, startedAs, withdrawn, handed, native, host, running,
                     pendingKeys, seen, bridge, snapshot, awaited, changes, missed, disposed>>
  BY DEF Subscribe
<1> DEFINE n == Len(early)
           f == [i \in 1..n |-> ExpiryOf(early[i])]
<1>3. n \in Nat /\ f \in [1..n -> TimerEvents] /\ DOMAIN early = 1..n
  BY <1>1, EventFacts
<1>4. /\ ~disposed => queue' = queue \o f /\ issued' = issued + n
      /\ disposed => UNCHANGED <<queue, issued>>
  BY <1>2 DEF EnqueuesEarly
<1>5. \A i \in 1..n : early[i] \in Tokens /\ f[i] = ExpiryOf(early[i])
  BY <1>1
<1> HIDE DEF n, f
<1>6. EventsInv'
  <2>1. CASE disposed
    BY <1>1, <1>2, <1>4, <2>1, EventsStay DEF eventVars
  <2>2. CASE ~disposed
    BY <1>1, <1>2, <1>3, <1>4, <2>2, ExpiriesEnqueued
  <2> QED
    BY <2>1, <2>2
<1>7. TimersTypeOK'
  <2>1. early' \in Seq(Tokens)
    BY <1>2
  <2> QED
    BY <1>1, <1>2, <1>6, <2>1 DEF TimersTypeOK, EventsInv
<1>8. \A i, j \in DOMAIN early' : early'[i] = early'[j] => i = j
  BY <1>2
<1>9. \A u \in Tokens : ~Early(u)'
  BY <1>2 DEF Early
<1>10. /\ disposed => \A u \in Tokens : IsQueued(ExpiryOf(u))' = IsQueued(ExpiryOf(u))
       /\ ~disposed => \A u \in Tokens : IsQueued(ExpiryOf(u))' <=> (IsQueued(ExpiryOf(u)) \/ Early(u))
       /\ \A i, j \in DOMAIN queue' : queue'[i] = queue'[j] /\ IsTimer(queue'[i]) => i = j
  <2>1. CASE disposed
    BY <1>1, <1>4, <2>1 DEF IsQueued, PlacesDiffer
  <2>2. CASE ~disposed
    <3>1. queue' = queue \o f /\ f \in Seq(Events) /\ Len(f) = n
      <4>1. f \in [1..n -> Events]
        BY <1>3, EventFacts
      <4> QED
        BY <1>3, <1>4, <2>2, <4>1
    <3>2. /\ DOMAIN queue = 1..Len(queue) /\ Len(queue) \in Nat
          /\ DOMAIN queue' = 1..Len(queue) + n
          /\ \A i \in DOMAIN queue : queue'[i] = queue[i]
          /\ \A i \in DOMAIN queue' :
               i \in DOMAIN queue \/ (i - Len(queue) \in 1..n /\ queue'[i] = f[i - Len(queue)])
          /\ \A i \in 1..n : Len(queue) + i \in DOMAIN queue' /\ queue'[Len(queue) + i] = f[i]
      BY <1>1, <1>3, <3>1, JoinFacts
    <3>3. \A i \in DOMAIN queue, j \in 1..n : queue[i] # f[j]
      <4>1. ASSUME NEW i \in DOMAIN queue, NEW j \in 1..n, queue[i] = f[j] PROVE FALSE
        <5>1. Early(early[j]) /\ IsQueued(ExpiryOf(early[j])) /\ early[j] \in Tokens
          BY <1>3, <1>5, <4>1 DEF Early, IsQueued
        <5> QED
          BY <1>1, <5>1 DEF PlacedOnce
      <4> QED
        BY <4>1
    <3>4. \A u \in Tokens : IsQueued(ExpiryOf(u))' <=> (IsQueued(ExpiryOf(u)) \/ Early(u))
      <4>1. ASSUME NEW u \in Tokens, IsQueued(ExpiryOf(u))' PROVE IsQueued(ExpiryOf(u)) \/ Early(u)
        <5>1. PICK i \in DOMAIN queue' : queue'[i] = ExpiryOf(u)
          BY <4>1 DEF IsQueued
        <5>2. CASE i \in DOMAIN queue
          BY <3>2, <5>1, <5>2 DEF IsQueued
        <5>3. CASE i - Len(queue) \in 1..n /\ queue'[i] = f[i - Len(queue)]
          <6>0. /\ early[i - Len(queue)] \in Tokens
                /\ ExpiryOf(early[i - Len(queue)]) = ExpiryOf(u)
            BY <1>5, <5>1, <5>3
          <6>1. early[i - Len(queue)] = u
            BY <6>0, ExpiriesDiffer
          <6> QED
            BY <1>3, <5>3, <6>1 DEF Early
        <5> QED
          BY <3>2, <5>2, <5>3
      <4>2. ASSUME NEW u \in Tokens, IsQueued(ExpiryOf(u)) PROVE IsQueued(ExpiryOf(u))'
        <5>1. PICK i \in DOMAIN queue : queue[i] = ExpiryOf(u)
          BY <4>2 DEF IsQueued
        <5>2. i \in DOMAIN queue'
          BY <1>3, <3>2
        <5> QED
          BY <3>2, <5>1, <5>2 DEF IsQueued
      <4>3. ASSUME NEW u \in Tokens, Early(u) PROVE IsQueued(ExpiryOf(u))'
        <5>1. PICK i \in 1..n : early[i] = u
          BY <1>3, <4>3 DEF Early
        <5>2. Len(queue) + i \in DOMAIN queue' /\ queue'[Len(queue) + i] = ExpiryOf(u)
          BY <1>5, <3>2, <5>1
        <5> QED
          BY <5>2 DEF IsQueued
      <4> QED
        BY <4>1, <4>2, <4>3
    <3>5. \A i, j \in 1..n : f[i] = f[j] => i = j
      BY <1>1, <1>3, <1>5, ExpiriesDiffer DEF PlacesDiffer
    <3>6. ASSUME NEW i \in DOMAIN queue', NEW j \in DOMAIN queue', queue'[i] = queue'[j], IsTimer(queue'[i])
          PROVE  i = j
      <4>1. CASE i \in DOMAIN queue /\ j \in DOMAIN queue
        BY <1>1, <3>2, <3>6, <4>1 DEF PlacesDiffer
      <4>2. CASE i \in DOMAIN queue /\ j \notin DOMAIN queue
        BY <3>2, <3>3, <3>6, <4>2
      <4>3. CASE i \notin DOMAIN queue /\ j \in DOMAIN queue
        BY <3>2, <3>3, <3>6, <4>3
      <4>4. CASE i \notin DOMAIN queue /\ j \notin DOMAIN queue
        <5>1. i - Len(queue) = j - Len(queue)
          BY <3>2, <3>5, <3>6, <4>4
        <5> QED
          BY <1>3, <3>2, <5>1
      <4> QED
        BY <4>1, <4>2, <4>3, <4>4
    <3> QED
      BY <2>2, <3>4, <3>6
  <2> QED
    BY <2>1, <2>2
<1>11. PlacesDiffer'
  BY <1>1, <1>2, <1>8, <1>10 DEF PlacesDiffer
<1>12. ASSUME NEW u \in Tokens PROVE PlacedOnce(u)'
  <2>1. PlacedOnce(u) /\ Runs(u)' = Runs(u)
    BY <1>1, <1>2 DEF Runs
  <2>2. CASE disposed
    BY <1>2, <1>9, <1>10, <2>1, <2>2 DEF PlacedOnce
  <2>3. CASE ~disposed
    BY <1>2, <1>9, <1>10, <2>1, <2>3 DEF PlacedOnce
  <2> QED
    BY <2>2, <2>3
<1> QED
  BY <1>6, <1>7, <1>11, <1>12 DEF TimersInv

\* An expiry is handed over.
LEMMA DeliverStep == ASSUME TimersInv, Delivers PROVE TimersInv'
<1>1. /\ EventsInv /\ TimersTypeOK /\ PlacesDiffer /\ \A u \in Tokens : PlacedOnce(u)
      /\ queue \in Seq(Events)
  BY DEF TimersInv, EventsInv, EventsTypeOK
<1>2. /\ Dispatch /\ queue # <<>> /\ queue' = Tail(queue) /\ disposed' = disposed
      /\ handed' = IF IsTimer(Head(queue)) THEN [handed EXCEPT ![Head(queue).value] = @ + 1] ELSE handed
      /\ UNCHANGED <<active, startedAs, early, subscribed, withdrawn>>
  BY DEF Delivers, Dispatch
<1>3. EventsInv'
  BY <1>1, <1>2, DispatchStep
<1>4. /\ Head(queue) = queue[1] /\ 1 \in DOMAIN queue /\ Len(queue) \in Nat
      /\ DOMAIN queue = 1..Len(queue)
      /\ DOMAIN queue' = 1..Len(queue) - 1
      /\ \A i \in DOMAIN queue' : i + 1 \in DOMAIN queue /\ queue'[i] = queue[i + 1]
      /\ \A i \in DOMAIN queue : i = 1 \/ (i - 1 \in DOMAIN queue' /\ queue'[i - 1] = queue[i])
  BY <1>1, <1>2, TailFacts
<1>5. PICK e : e = queue[1]
  OBVIOUS
<1>6. IsTimer(e) => e.value \in Tokens /\ e = ExpiryOf(e.value)
  BY ExpiriesDiffer
<1>7. \A u \in Tokens : handed'[u] = IF e = ExpiryOf(u) THEN handed[u] + 1 ELSE handed[u]
  <2>1. \A u \in Tokens : e = ExpiryOf(u) <=> IsTimer(e) /\ e.value = u
    BY <1>6, ExpiriesDiffer, EventFacts
  <2> QED
    BY <1>1, <1>2, <1>4, <1>5, <1>6, <2>1 DEF TimersTypeOK
<1>8. handed' \in [Tokens -> Nat]
  BY <1>1, <1>2, <1>4, <1>5, <1>6 DEF TimersTypeOK
<1>9. TimersTypeOK'
  BY <1>1, <1>2, <1>3, <1>8 DEF TimersTypeOK, EventsInv
<1>10. \A i, j \in DOMAIN queue' : queue'[i] = queue'[j] /\ IsTimer(queue'[i]) => i = j
  <2>1. ASSUME NEW i \in DOMAIN queue', NEW j \in DOMAIN queue', queue'[i] = queue'[j], IsTimer(queue'[i])
        PROVE  i = j
    <3>1. i + 1 = j + 1
      BY <1>1, <1>4, <2>1 DEF PlacesDiffer
    <3> QED
      BY <1>4, <3>1
  <2> QED
    BY <2>1
<1>11. PlacesDiffer'
  BY <1>1, <1>2, <1>10 DEF PlacesDiffer
<1>12. ASSUME NEW u \in Tokens PROVE PlacedOnce(u)'
  <2>1. /\ PlacedOnce(u) /\ Runs(u)' = Runs(u) /\ Early(u)' = Early(u) /\ ExpiryOf(u) \in Events
        /\ IsTimer(ExpiryOf(u))
    BY <1>1, <1>2, ExpiriesDiffer DEF Runs, Early
  <2>2. CASE e = ExpiryOf(u)
    <3>1. IsQueued(ExpiryOf(u))
      BY <1>4, <1>5, <2>2 DEF IsQueued
    <3>2. ~IsQueued(ExpiryOf(u))'
      <4>1. ASSUME NEW i \in DOMAIN queue', queue'[i] = ExpiryOf(u) PROVE FALSE
        <5>0. i + 1 \in DOMAIN queue /\ queue[i + 1] = queue[1] /\ IsTimer(queue[i + 1])
          BY <1>4, <1>5, <2>1, <2>2, <4>1
        <5>1. i + 1 = 1
          BY <1>1, <1>4, <5>0 DEF PlacesDiffer
        <5> QED
          BY <1>4, <5>1
      <4> QED
        BY <4>1 DEF IsQueued
    <3>3. ~Runs(u) /\ ~Early(u) /\ u \notin withdrawn /\ handed[u] = 0 /\ startedAs[u] # NoTimer
      BY <2>1, <3>1 DEF PlacedOnce
    <3>4. handed'[u] = 1
      BY <1>7, <2>2, <3>3
    <3> QED
      BY <1>2, <2>1, <3>2, <3>3, <3>4 DEF PlacedOnce
  <2>3. CASE e # ExpiryOf(u)
    <3>1. IsQueued(ExpiryOf(u))' <=> IsQueued(ExpiryOf(u))
      BY <1>4, <1>5, <2>3 DEF IsQueued
    <3>2. handed'[u] = handed[u]
      BY <1>7, <2>3
    <3> QED
      BY <1>2, <2>1, <3>1, <3>2, PlacedKept
  <2> QED
    BY <2>2, <2>3
<1> QED
  BY <1>3, <1>9, <1>11, <1>12 DEF TimersInv

\* What the host reports and the bridge enqueues is no expiry.
LEMMA KeyedStep ==
  ASSUME TimersInv, EventsInv', UNCHANGED <<timerVars, disposed>>,
         queue' = queue \/ \E e \in KeyedEvents : queue' = Append(queue, e)
  PROVE  TimersInv'
<1>1. /\ TimersTypeOK /\ PlacesDiffer /\ \A u \in Tokens : PlacedOnce(u)
      /\ queue \in Seq(Events)
      /\ UNCHANGED <<active, startedAs, early, subscribed, withdrawn, handed>>
  BY DEF TimersInv, EventsInv, EventsTypeOK, timerVars
<1>2. TimersTypeOK'
  BY <1>1 DEF TimersTypeOK, EventsInv
<1>3. /\ \A u \in Tokens : IsQueued(ExpiryOf(u))' <=> IsQueued(ExpiryOf(u))
      /\ \A i, j \in DOMAIN queue' : queue'[i] = queue'[j] /\ IsTimer(queue'[i]) => i = j
  <2>1. CASE queue' = queue
    BY <1>1, <2>1 DEF IsQueued, PlacesDiffer
  <2>2. ASSUME NEW e \in KeyedEvents, queue' = Append(queue, e)
        PROVE  /\ \A u \in Tokens : IsQueued(ExpiryOf(u))' <=> IsQueued(ExpiryOf(u))
               /\ \A i, j \in DOMAIN queue' : queue'[i] = queue'[j] /\ IsTimer(queue'[i]) => i = j
    <3>1. e \in Events /\ ~IsTimer(e) /\ \A u \in Tokens : e # ExpiryOf(u)
      BY EventFacts, ExpiriesDiffer DEF IsTimer
    <3>2. /\ DOMAIN queue = 1..Len(queue) /\ Len(queue) \in Nat
          /\ DOMAIN queue' = 1..Len(queue) + 1
          /\ \A i \in DOMAIN queue : queue'[i] = queue[i] /\ i < Len(queue) + 1
          /\ queue'[Len(queue) + 1] = e
      BY <1>1, <2>2, <3>1, AppendFacts
    <3>3. DOMAIN queue' = DOMAIN queue \cup {Len(queue) + 1}
      BY <3>2
    <3>4. \A u \in Tokens : IsQueued(ExpiryOf(u))' <=> IsQueued(ExpiryOf(u))
      BY <3>1, <3>2, <3>3 DEF IsQueued
    <3>5. \A i, j \in DOMAIN queue' : queue'[i] = queue'[j] /\ IsTimer(queue'[i]) => i = j
      BY <1>1, <3>1, <3>2, <3>3 DEF PlacesDiffer
    <3> QED
      BY <3>4, <3>5
  <2> QED
    BY <2>1, <2>2
<1>4. PlacesDiffer'
  BY <1>1, <1>3 DEF PlacesDiffer
<1>5. ASSUME NEW u \in Tokens PROVE PlacedOnce(u)'
  <2>1. PlacedOnce(u) /\ Runs(u)' = Runs(u) /\ Early(u)' = Early(u)
    BY <1>1 DEF Runs, Early
  <2> QED
    BY <1>1, <1>3, <2>1, PlacedKept
<1> QED
  BY <1>2, <1>4, <1>5 DEF TimersInv

\* Changes of the host and the bridge enqueue no expiry.
LEMMA QueueAfterKeyed ==
  /\ \A c \in Channels : EventsInv /\ HostChanges(c) =>
       disposed' = disposed /\ (queue' = queue \/ \E e \in KeyedEvents : queue' = Append(queue, e))
  /\ EventsInv /\ BridgeStep =>
       disposed' = disposed /\ (queue' = queue \/ \E e \in KeyedEvents : queue' = Append(queue, e))
<1>1. ASSUME NEW e, Enqueued(e) PROVE queue' = queue \/ queue' = Append(queue, e)
  BY <1>1 DEF Enqueued
<1>2. ASSUME NEW c \in Channels, EventsInv, HostChanges(c)
      PROVE  disposed' = disposed /\ (queue' = queue \/ \E e \in KeyedEvents : queue' = Append(queue, e))
  <2>1. Other(c, host[c]) \in Values[c]
    BY OtherFacts
  <2>2. [channel |-> c, value |-> Other(c, host[c])] \in KeyedEvents
    BY <2>1, EventFacts
  <2>3. disposed' = disposed
        /\ (queue' = queue \/ Enqueued([channel |-> c, value |-> Other(c, host[c])]))
    BY <1>2 DEF HostChanges
  <2> QED
    BY <1>1, <2>2, <2>3
<1>3. ASSUME EventsInv, BridgeStep
      PROVE  disposed' = disposed /\ (queue' = queue \/ \E e \in KeyedEvents : queue' = Append(queue, e))
  <2>1. host.visibility \in Values["visibility"] /\ host.connectivity \in Values["connectivity"]
        /\ snapshot \in Values["visibility"]
    BY <1>3, HostFacts, ChannelFacts DEF EventsInv, EventsTypeOK
  <2>2. /\ [channel |-> "visibility", value |-> Announced] \in KeyedEvents
        /\ [channel |-> "connectivity", value |-> host.connectivity] \in KeyedEvents
        /\ Launch \in KeyedEvents
    BY <2>1, EventFacts, ChannelFacts DEF Announced
  <2>3. disposed' = disposed
    BY <1>3 DEF BridgeStep, BridgeAsks, BridgeLaunches, BridgeAnnounces, BridgeConnects, BridgeStarted
  <2>4. queue' = queue \/ \E e \in KeyedEvents : Enqueued(e)
    BY <1>3, <2>2 DEF BridgeStep, BridgeAsks, BridgeLaunches, BridgeAnnounces, BridgeConnects,
       BridgeStarted, EnqueuedAndAwaited
  <2> QED
    BY <1>1, <2>3, <2>4
<1> QED
  BY <1>2, <1>3

\* A queue that is emptied for good owes no expiry.
LEMMA DisposedStep == ASSUME TimersInv, Dispose, UNCHANGED timerVars PROVE TimersInv'
<1>1. /\ TimersTypeOK /\ PlacesDiffer /\ \A u \in Tokens : PlacedOnce(u)
      /\ UNCHANGED <<active, startedAs, early, subscribed, withdrawn, handed>>
      /\ queue' = <<>> /\ disposed' = TRUE /\ EventsInv'
  BY DisposeStep DEF TimersInv, timerVars, Dispose
<1>2. TimersTypeOK'
  BY <1>1 DEF TimersTypeOK, EventsInv
<1>3. PlacesDiffer'
  BY <1>1 DEF PlacesDiffer
<1>4. ASSUME NEW u \in Tokens PROVE PlacedOnce(u)'
  <2>1. PlacedOnce(u) /\ Runs(u)' = Runs(u) /\ Early(u)' = Early(u) /\ ~IsQueued(ExpiryOf(u))'
    BY <1>1 DEF Runs, Early, IsQueued
  <2> QED
    BY <1>1, <2>1 DEF PlacedOnce
<1> QED
  BY <1>1, <1>2, <1>3, <1>4 DEF TimersInv

\* The strengthening, in every state.
LEMMA TimersInductive ==
  EventsInit /\ TimersInit /\ [][TimersNext]_<<eventVars, timerVars>> => []TimersInv
<1>1. TimersInv /\ [TimersNext]_<<eventVars, timerVars>> => TimersInv'
  <2> SUFFICES ASSUME TimersInv, [TimersNext]_<<eventVars, timerVars>> PROVE TimersInv'
    OBVIOUS
  <2>1. EventsInv
    BY DEF TimersInv
  <2>2. ASSUME NEW id \in TimerIds, StartTimer(id) \/ CancelTimer(id) \/ Elapses(id) PROVE TimersInv'
    BY <2>2, StartStep, CancelStep, ElapseStep
  <2>3. CASE Subscribe \/ Delivers
    BY <2>3, SubscribeStep, DeliverStep
  <2>4. ASSUME NEW c \in Channels, HostChanges(c), UNCHANGED timerVars PROVE TimersInv'
    BY <2>1, <2>4, HostChangesStep, QueueAfterKeyed, KeyedStep
  <2>5. CASE BridgeStep /\ UNCHANGED timerVars
    <3>1. EventsInv'
      BY <2>1, <2>5, BridgeStays, BridgeLaunchesStep, BridgeTellsStep DEF BridgeStep
    <3> QED
      BY <2>1, <2>5, <3>1, QueueAfterKeyed, KeyedStep
  <2>6. ASSUME NEW raised \in BOOLEAN, Finish(raised), UNCHANGED timerVars PROVE TimersInv'
    <3>1. EventsInv' /\ UNCHANGED <<queue, disposed>>
      BY <2>1, <2>6, FinishStep DEF Finish
    <3> QED
      BY <2>6, <3>1, KeyedStep
  <2>7. CASE Dispose /\ UNCHANGED timerVars
    BY <2>7, DisposedStep
  <2>8. CASE UNCHANGED <<eventVars, timerVars>>
    <3>1. EventsInv' /\ UNCHANGED <<queue, disposed, timerVars>>
      BY <2>1, <2>8, EventsStay DEF eventVars
    <3> QED
      BY <3>1, KeyedStep
  <2> QED
    BY <2>2, <2>3, <2>4, <2>5, <2>6, <2>7, <2>8 DEF TimersNext
<1> QED
  BY <1>1, TimersStart, PTL

\* The queue, the bridge and the timers keep their types.
THEOREM TimersTypeCorrect == TimersSpec => []TimersTypeOK
<1>1. TimersInv => TimersTypeOK
  BY DEF TimersInv
<1> QED
  BY <1>1, TimersInductive, PTL DEF TimersSpec

\* platform/host/lifecycle-bridge.mjs and timer-capabilities.mjs: once the queue has
\* drained the application was last told the state the host is in, unless the change was
\* suppressed or overtaken, and an uncancelled timer is handed over once.
THEOREM EventsAreAccounted == TimersSpec => []EventsAccounted
<1>1. TimersInv => SeesRegardedChanges
  <2> SUFFICES ASSUME TimersInv, Settled, NEW c \in Channels \ missed PROVE seen[c] = host[c]
    BY DEF SeesRegardedChanges
  <2>1. Current(c)
    BY DEF TimersInv, EventsInv, LastIsCurrent, Settled
  <2>2. OnChannel(c) = {} /\ Told(c)
    BY DEF Settled, OnChannel, Told
  <2> QED
    BY <2>1, <2>2 DEF Current
<1>2. TimersInv => TimersAccounted
  <2> SUFFICES ASSUME TimersInv, ~disposed, NEW t \in Tokens \ Unused
               PROVE  handed[t] + Waits(t) + Cardinality({id \in TimerIds : active[id] = t})
                        + (IF t \in withdrawn THEN 1 ELSE 0) = 1
    BY DEF TimersAccounted
  <2>1. PlacedOnce(t) /\ startedAs[t] # NoTimer /\ t # NoTimer /\ IsTimer(ExpiryOf(t))
    BY TimersAssumption, ExpiriesDiffer DEF TimersInv, Unused
  <2>2. PlacesDiffer
    BY DEF TimersInv
  <2>3. Occurrences(t, early) = IF Early(t) THEN 1 ELSE 0
    <3>1. CASE Early(t)
      <4>1. PICK i \in DOMAIN early : early[i] = t
        BY <3>1 DEF Early
      <4>2. {j \in DOMAIN early : early[j] = t} = {i}
        BY <2>2, <4>1 DEF PlacesDiffer
      <4> QED
        BY <3>1, <4>2, FS_Singleton DEF Occurrences
    <3>2. CASE ~Early(t)
      <4>1. {j \in DOMAIN early : early[j] = t} = {}
        BY <3>2 DEF Early
      <4> QED
        BY <3>2, <4>1, FS_EmptySet DEF Occurrences
    <3> QED
      BY <3>1, <3>2
  <2>4. Occurrences(ExpiryOf(t), queue) = IF IsQueued(ExpiryOf(t)) THEN 1 ELSE 0
    <3>1. CASE IsQueued(ExpiryOf(t))
      <4>1. PICK i \in DOMAIN queue : queue[i] = ExpiryOf(t)
        BY <3>1 DEF IsQueued
      <4>2. {j \in DOMAIN queue : queue[j] = ExpiryOf(t)} = {i}
        BY <2>1, <2>2, <4>1 DEF PlacesDiffer
      <4> QED
        BY <3>1, <4>2, FS_Singleton DEF Occurrences
    <3>2. CASE ~IsQueued(ExpiryOf(t))
      <4>1. {j \in DOMAIN queue : queue[j] = ExpiryOf(t)} = {}
        BY <3>2 DEF IsQueued
      <4> QED
        BY <3>2, <4>1, FS_EmptySet DEF Occurrences
    <3> QED
      BY <3>1, <3>2
  <2>5. Cardinality({id \in TimerIds : active[id] = t}) = IF Runs(t) THEN 1 ELSE 0
    <3>1. CASE Runs(t)
      <4>1. PICK id \in TimerIds : active[id] = t
        BY <3>1 DEF Runs
      <4>2. {b \in TimerIds : active[b] = t} = {id}
        BY <2>1, <2>2, <4>1 DEF PlacesDiffer
      <4> QED
        BY <3>1, <4>2, FS_Singleton
    <3>2. CASE ~Runs(t)
      <4>1. {b \in TimerIds : active[b] = t} = {}
        BY <3>2 DEF Runs
      <4> QED
        BY <3>2, <4>1, FS_EmptySet
    <3> QED
      BY <3>1, <3>2
  <2> QED
    BY <2>1, <2>3, <2>4, <2>5 DEF PlacedOnce, Waits
<1> QED
  BY <1>1, <1>2, TimersInductive, PTL DEF EventsAccounted, TimersSpec
-----------------------------------------------------------------------------
(* The media adapter. *)

Selecting == \E c \in Callers : doing[c].op = "select"
PlayPending == \E c \in Callers : doing[c].op = "play"

\* While a request is being handled the listeners are not told, and its end tells.
ToldOrHandling ==
  /\ told = media \/ swallowed \/ handling
  /\ handling => \E c \in Callers : c # Keys /\ doing[c] # Nothing

HoldsOrSelects == source = media.item \/ mislabelled \/ Selecting

\* Sound that is shown as something else is about to change or to be shown.
SoundIsAwaited ==
  /\ on => media.status \in {"playing", "buffering"} \/ mislabelled \/ Selecting \/ PlayPending
  /\ on /\ (pauses > 0 \/ loading) => PlayPending

NoItemIsSilent ==
  media.item = NoTrack => ~on /\ ~PlayPending /\ media.status # "playing"

PlayingOrKnown == media.status = "playing" => on \/ unplayed \/ loading

MediaInv ==
  /\ MediaTypeOK /\ pauses <= commands
  /\ ToldOrHandling /\ HoldsOrSelects /\ SoundIsAwaited /\ NoItemIsSilent /\ PlayingOrKnown
-----------------------------------------------------------------------------
\* Nothing is selected and nothing plays.
LEMMA MediaStarts == MediaInit => MediaInv
<1> SUFFICES ASSUME MediaInit PROVE MediaInv
  OBVIOUS
<1>1. MediaTypeOK
  <2>1. media \in States /\ told \in States
    BY DEF MediaInit, States, Statuses
  <2>2. doing \in [Callers -> Doings]
    BY DEF MediaInit, Doings
  <2>3. pauses \in 0..MaxCommands /\ commands \in 0..MaxCommands
    BY MediaAssumption DEF MediaInit
  <2> QED
    BY <2>1, <2>2, <2>3 DEF MediaInit, MediaTypeOK
<1>2. \A c \in Callers : doing[c].op = "nothing"
  BY DEF MediaInit, Nothing
<1> QED
  BY <1>1, <1>2
     DEF MediaInit, MediaInv, ToldOrHandling, HoldsOrSelects, SoundIsAwaited, NoItemIsSilent,
         PlayingOrKnown, PlayPending, Selecting

\* What callers do has one of four names, and a play that is aborted stays no selection.
LEMMA DoingFacts ==
  ASSUME MediaTypeOK
  PROVE  /\ \A c \in Callers : doing[c].op \in {"nothing", "select", "play", "aborted"}
         /\ \A c \in Callers : doing[c] = Nothing <=> doing[c].op = "nothing"
         /\ \A c \in Callers : doing[c].op = "select" => doing[c].track \in Tracks
         /\ \A c \in Callers : doing[c] \in Doings
  BY DEF MediaTypeOK, Doings, Nothing

\* An abort ends the waiting for play() and nothing else.
LEMMA AbortFacts ==
  ASSUME NEW d \in [Callers -> Doings]
  PROVE  /\ PlaysAborted(d) \in [Callers -> Doings]
         /\ \A c \in Callers :
              /\ PlaysAborted(d)[c].op = "select" <=> d[c].op = "select"
              /\ PlaysAborted(d)[c].op # "play"
              /\ PlaysAborted(d)[c] = Nothing <=> d[c] = Nothing
<1>1. ASSUME NEW c \in Callers, d[c].op = "play"
      PROVE  [d[c] EXCEPT !.op = "aborted"] = [op |-> "aborted", track |-> NoTrack]
  <2>1. d[c] = [op |-> "play", track |-> NoTrack]
    BY <1>1 DEF Doings, Nothing
  <2> QED
    BY <2>1
<1>2. ASSUME NEW c \in Callers
      PROVE  /\ PlaysAborted(d)[c] \in Doings
             /\ PlaysAborted(d)[c].op = "select" <=> d[c].op = "select"
             /\ PlaysAborted(d)[c].op # "play"
             /\ PlaysAborted(d)[c] = Nothing <=> d[c] = Nothing
  <2>1. CASE d[c].op = "play"
    <3>1. PlaysAborted(d)[c] = [op |-> "aborted", track |-> NoTrack]
      BY <1>1, <2>1 DEF PlaysAborted
    <3>2. d[c] # Nothing /\ PlaysAborted(d)[c] # Nothing
      BY <2>1, <3>1 DEF Nothing
    <3>3. PlaysAborted(d)[c] \in Doings
      BY <3>1 DEF Doings
    <3> QED
      BY <2>1, <3>1, <3>2, <3>3
  <2>2. CASE d[c].op # "play"
    BY <2>2 DEF PlaysAborted
  <2> QED
    BY <2>1, <2>2
<1>3. PlaysAborted(d) \in [Callers -> Doings]
  BY <1>2 DEF PlaysAborted
<1> QED
  BY <1>2, <1>3

\* What a step of c leaves to be awaited: its own doing, and that of others, of whom
\* some may be aborted.
LEMMA DoingAfter ==
  ASSUME MediaTypeOK, NEW c \in Callers
  PROVE  /\ \A t \in Tracks : Select(c, t) =>
              doing[c] = Nothing /\ doing' = [doing EXCEPT ![c] = [op |-> "select", track |-> t]]
         /\ Play(c) =>
              doing[c] = Nothing /\ doing' = [doing EXCEPT ![c] = [op |-> "play", track |-> NoTrack]]
         /\ SourceRefused(c) \/ PlayBegins(c) \/ PlayAborted(c) =>
              doing' = [doing EXCEPT ![c] = Nothing]
         /\ SourceResolved(c) => doing' = PlaysAborted([doing EXCEPT ![c] = Nothing])
         /\ Pause(c) \/ Stop(c) \/ Unload(c) =>
              doing[c] = Nothing /\ doing' = PlaysAborted(doing)
         /\ PlayRefused(c) \/ (\E how \in {"ok", "error"} : AnswersOnly(c, how)) =>
              doing[c] = Nothing /\ doing' = doing
  BY DEF Select, Play, SourceRefused, PlayBegins, PlayAborted, SourceResolved, Pause, Stop,
     Unload, PlayRefused, AnswersOnly, Starts, Begins, Paused

\* The same while one caller is done.
LEMMA DoingKinds ==
  ASSUME MediaTypeOK, NEW c \in Callers, NEW d \in [Callers -> Doings],
         d = doing \/ d = [doing EXCEPT ![c] = Nothing]
  PROVE  /\ PlaysAborted(d) \in [Callers -> Doings]
         /\ \A b \in Callers :
              /\ PlaysAborted(d)[b].op = "select" <=> d[b].op = "select"
              /\ PlaysAborted(d)[b].op # "play"
              /\ PlaysAborted(d)[b] = Nothing <=> d[b] = Nothing
  BY AbortFacts

\* What a caller may await.
LEMMA NothingIsDoing == /\ Nothing \in Doings
                        /\ Nothing.op = "nothing"
                        /\ [op |-> "play", track |-> NoTrack] \in Doings
                        /\ \A t \in Tracks : [op |-> "select", track |-> t] \in Doings
                        /\ [op |-> "play", track |-> NoTrack] # Nothing
                        /\ \A t \in Tracks : [op |-> "select", track |-> t] # Nothing
  BY DEF Doings, Nothing

\* The application is told, or told at the end of the request that is handled.
LEMMA ToldAfterEnd ==
  ASSUME MediaInv, NEW c, NEW how, NEW state, Ends(c, how, state)
  PROVE  /\ told' = media' \/ swallowed' \/ handling'
         /\ handling' => handling /\ c = Keys
         /\ media' = state
  BY DEF MediaInv, MediaTypeOK, ToldOrHandling, Ends, HandlingAfter, Noted

\* Who publishes tells, or leaves it to the end of the request.
LEMMA ToldAfterPublish ==
  ASSUME MediaInv, NEW state, Publish(state), handling' = handling
  PROVE  told' = media' \/ swallowed' \/ handling'
  BY DEF MediaInv, MediaTypeOK, ToldOrHandling, Publish, Noted

\* Every step keeps what ToldOrHandling says.
LEMMA ToldStep == MediaInv /\ [MediaNext]_mediaVars => ToldOrHandling'
<1> SUFFICES ASSUME MediaInv, [MediaNext]_mediaVars PROVE ToldOrHandling'
  OBVIOUS
<1> USE DEF ToldOrHandling
<1>1. /\ MediaTypeOK /\ doing \in [Callers -> Doings] /\ handling \in BOOLEAN
      /\ ToldOrHandling
  BY DEF MediaInv, MediaTypeOK
<1>2. ASSUME NEW c \in Callers, Play(c) \/ \E t \in Tracks : Select(c, t)
      PROVE  ToldOrHandling'
  <2>1. PICK what \in Doings : 
          /\ what # Nothing /\ doing[c] = Nothing
          /\ \E state : Starts(c, state, what)
    <3>1. CASE \E t \in Tracks : Select(c, t)
      BY <3>1, NothingIsDoing DEF Select, Begins
    <3>2. CASE Play(c)
      BY <3>2, NothingIsDoing DEF Play, Begins
    <3> QED
      BY <1>2, <3>1, <3>2
  <2>2. /\ told' = media' \/ swallowed' \/ handling'
        /\ handling' = (handling \/ c # Keys)
        /\ doing' = [doing EXCEPT ![c] = what]
    BY <1>1, <2>1 DEF Starts, Noted
  <2>3. doing'[c] # Nothing /\ \A d \in Callers : d # c => doing'[d] = doing[d]
    BY <1>1, <2>1, <2>2
  <2>4. handling' => \E d \in Callers : d # Keys /\ doing'[d] # Nothing
    BY <1>1, <2>1, <2>2, <2>3
  <2> QED
    BY <2>2, <2>4
<1>3. ASSUME NEW c \in Callers, NEW how, NEW state, Ends(c, how, state),
             \A d \in Callers : d # c => (doing'[d] = Nothing <=> doing[d] = Nothing)
      PROVE  ToldOrHandling'
  BY <1>1, <1>3, ToldAfterEnd
<1>4. ASSUME NEW c \in Callers,
             \/ SourceResolved(c) \/ SourceRefused(c) \/ PlayRefused(c) \/ PlayBegins(c)
             \/ PlayAborted(c) \/ Pause(c) \/ Stop(c) \/ Unload(c)
             \/ \E how \in {"ok", "error"} : AnswersOnly(c, how)
      PROVE  ToldOrHandling'
  <2>1. \E how, state : Ends(c, how, state)
    BY <1>4 DEF SourceResolved, SourceRefused, PlayRefused, PlayBegins, PlayAborted, Pause, Stop,
       Unload, AnswersOnly
  <2>2. \A d \in Callers : d # c => (doing'[d] = Nothing <=> doing[d] = Nothing)
    <3>1. CASE SourceRefused(c) \/ PlayBegins(c) \/ PlayAborted(c)
      BY <1>1, <3>1, DoingAfter
    <3>2. CASE SourceResolved(c)
      <4> DEFINE rest == [doing EXCEPT ![c] = Nothing]
      <4>1. rest \in [Callers -> Doings]
        BY <1>1, NothingIsDoing
      <4>2. doing' = PlaysAborted(rest)
        BY <1>1, <3>2, DoingAfter
      <4>3. \A d \in Callers : doing'[d] = Nothing <=> rest[d] = Nothing
        BY <4>1, <4>2, AbortFacts
      <4> QED
        BY <1>1, <4>3
    <3>3. CASE Pause(c) \/ Stop(c) \/ Unload(c)
      BY <1>1, <3>3, DoingAfter, AbortFacts
    <3>4. CASE PlayRefused(c) \/ \E how \in {"ok", "error"} : AnswersOnly(c, how)
      BY <1>1, <3>4, DoingAfter
    <3> QED
      BY <1>4, <3>1, <3>2, <3>3, <3>4
  <2> QED
    BY <1>3, <2>1, <2>2
<1>5. CASE ElementEvent
  <2>1. handling' = handling
        /\ \A d \in Callers : doing'[d] = Nothing <=> doing[d] = Nothing
    <3>1. CASE \E s \in {"ended", "error"} : FallsSilent(s)
      BY <1>1, <3>1, AbortFacts DEF FallsSilent
    <3>2. CASE PauseFires \/ Loaded \/ Refreshes \/ \E s \in {"buffering", "playing"} : Buffers(s)
      BY <3>2 DEF PauseFires, Loaded, Refreshes, Buffers
    <3> QED
      BY <1>5, <3>1, <3>2 DEF ElementEvent
  <2>2. (\E state : Publish(state)) \/ UNCHANGED <<media, told, swallowed>>
    BY <1>5 DEF ElementEvent, PauseFires, Loaded, Refreshes, Buffers, FallsSilent
  <2>3. told' = media' \/ swallowed' \/ handling'
    BY <1>1, <2>1, <2>2, ToldAfterPublish
  <2> QED
    BY <1>1, <2>1, <2>3
<1>6. CASE UNCHANGED mediaVars
  BY <1>1, <1>6 DEF mediaVars
<1> QED
  BY <1>2, <1>4, <1>5, <1>6 DEF MediaNext

\* The state that a step leads to, and who awaits what.
LEMMA MediaTypes ==
  ASSUME MediaInv, [MediaNext]_mediaVars PROVE MediaTypeOK' /\ pauses' <= commands'
<1> USE DEF States, Statuses
<1>1. /\ MediaTypeOK /\ media \in States /\ told \in States /\ doing \in [Callers -> Doings]
      /\ pauses <= commands
  BY DEF MediaInv, MediaTypeOK
<1>2. \A status \in Statuses : With(status) \in States
  BY <1>1 DEF With
<1>3. media' \in States
  <2>1. ASSUME NEW c \in Callers, NEW t \in Tracks, Select(c, t) PROVE media' \in States
    BY <2>1 DEF Select, Starts
  <2>2. ASSUME NEW c \in Callers, Unload(c) PROVE media' \in States
    BY <2>2 DEF Unload, Ends
  <2>3. ASSUME NEW c \in Callers, Play(c) PROVE media' = With("playing")
    BY <2>3 DEF Play, Starts
  <2>4. ASSUME NEW c \in Callers,
               \/ SourceResolved(c) \/ SourceRefused(c) \/ PlayRefused(c) \/ PlayBegins(c)
               \/ PlayAborted(c) \/ Pause(c) \/ Stop(c) \/ \E how \in {"ok", "error"} : AnswersOnly(c, how)
        PROVE  media' = media \/ \E status \in Statuses : media' = With(status)
    BY <2>4 DEF SourceResolved, SourceRefused, PlayRefused, PlayBegins, PlayAborted, Pause, Stop,
       AnswersOnly, Ends
  <2>5. CASE ElementEvent
    <3>1. media' = media \/ \E status \in Statuses : media' = With(status)
      BY <2>5 DEF ElementEvent, PauseFires, Loaded, Refreshes, Buffers, FallsSilent, Publish
    <3> QED
      BY <1>1, <1>2, <3>1
  <2>6. CASE UNCHANGED mediaVars
    BY <1>1, <2>6 DEF mediaVars
  <2> QED
    BY <1>1, <1>2, <2>1, <2>2, <2>3, <2>4, <2>5, <2>6 DEF MediaNext
<1>4. told' \in States
  <2>1. told' = told \/ told' = media'
    BY DEF MediaNext, mediaVars, ElementEvent, Select, SourceResolved, SourceRefused, Play,
       PlayRefused, PlayBegins, PlayAborted, Pause, Stop, Unload, AnswersOnly, PauseFires, Loaded,
       Refreshes, Buffers, FallsSilent, Starts, Ends, Publish
  <2> QED
    BY <1>1, <1>3, <2>1
<1>5. doing' \in [Callers -> Doings]
  <2>1. ASSUME NEW c \in Callers,
               \/ SourceResolved(c) \/ SourceRefused(c) \/ PlayRefused(c) \/ PlayBegins(c)
               \/ PlayAborted(c) \/ Pause(c) \/ Stop(c) \/ Unload(c) \/ Play(c)
               \/ (\E t \in Tracks : Select(c, t)) \/ \E how \in {"ok", "error"} : AnswersOnly(c, how)
        PROVE  doing' \in [Callers -> Doings]
    <3> DEFINE rest == [doing EXCEPT ![c] = Nothing]
    <3>1. rest \in [Callers -> Doings]
      BY <1>1, NothingIsDoing
    <3>2. PlaysAborted(rest) \in [Callers -> Doings] /\ PlaysAborted(doing) \in [Callers -> Doings]
      BY <1>1, <3>1, AbortFacts
    <3>3. CASE \/ Play(c) \/ \E t \in Tracks : Select(c, t)
      <4>1. PICK what \in Doings : doing' = [doing EXCEPT ![c] = what]
        BY <3>3, NothingIsDoing DEF Select, Play, Starts
      <4> QED
        BY <1>1, <4>1
    <3>4. CASE ~(\/ Play(c) \/ \E t \in Tracks : Select(c, t))
      BY <1>1, <2>1, <3>1, <3>2, <3>4, DoingAfter
    <3> QED
      BY <3>3, <3>4
  <2>2. CASE ElementEvent
    <3>1. doing' = doing \/ doing' = PlaysAborted(doing)
      BY <2>2 DEF ElementEvent, PauseFires, Loaded, Refreshes, Buffers, FallsSilent
    <3> QED
      BY <1>1, <3>1, AbortFacts
  <2>3. CASE UNCHANGED mediaVars
    BY <1>1, <2>3 DEF mediaVars
  <2> QED
    BY <2>1, <2>2, <2>3 DEF MediaNext
<1>6. source' \in Tracks \cup {NoTrack}
  <2>1. ASSUME NEW c \in Callers, SourceResolved(c) PROVE source' \in Tracks
    BY <1>1, <2>1, DoingFacts DEF SourceResolved
  <2>2. (\A c \in Callers : ~SourceResolved(c)) => source' = source \/ source' = NoTrack
    BY DEF MediaNext, mediaVars, ElementEvent, Select, SourceRefused, Play,
       PlayRefused, PlayBegins, PlayAborted, Pause, Stop, Unload, AnswersOnly, PauseFires, Loaded,
       Refreshes, Buffers, FallsSilent
  <2> QED
    BY <1>1, <2>1, <2>2 DEF MediaTypeOK
<1>7. /\ pauses \in Nat /\ commands \in Nat /\ commands <= MaxCommands /\ MaxCommands \in Nat
      /\ handling \in BOOLEAN /\ loading \in BOOLEAN /\ on \in BOOLEAN
  BY MediaAssumption DEF MediaInv, MediaTypeOK
<1>8. /\ commands' \in 0..MaxCommands
      /\ pauses' \in Nat
      /\ pauses' <= commands'
  <2>1. ASSUME NEW c \in Callers, Pause(c) \/ Stop(c)
        PROVE  commands' = commands + 1 /\ commands < MaxCommands /\ pauses' \in {pauses, pauses + 1}
    BY <2>1 DEF Pause, Stop, Begins, Paused
  <2>2. ASSUME NEW c \in Callers,
               \/ PlayRefused(c) \/ Unload(c) \/ Play(c)
               \/ (\E t \in Tracks : Select(c, t)) \/ \E how \in {"ok", "error"} : AnswersOnly(c, how)
        PROVE  commands' = commands + 1 /\ commands < MaxCommands /\ pauses' \in {0, pauses}
    BY <2>2 DEF PlayRefused, Unload, Play, Select, AnswersOnly, Begins
  <2>3. ASSUME NEW c \in Callers,
               SourceResolved(c) \/ SourceRefused(c) \/ PlayBegins(c) \/ PlayAborted(c)
        PROVE  commands' = commands /\ pauses' \in {0, pauses}
    BY <2>3 DEF SourceResolved, SourceRefused, PlayBegins, PlayAborted
  <2>4. CASE PauseFires
    BY <1>1, <1>7, <2>4 DEF PauseFires
  <2>5. CASE UNCHANGED mediaVars \/ (ElementEvent /\ ~PauseFires)
    <3>1. UNCHANGED <<pauses, commands>>
      BY <2>5 DEF mediaVars, ElementEvent, Loaded, Refreshes, Buffers, FallsSilent
    <3> QED
      BY <1>1, <1>7, <3>1
  <2>6. (\E c \in Callers : Pause(c) \/ Stop(c)) => commands' \in 0..MaxCommands /\ pauses' \in Nat
          /\ pauses' <= commands'
    BY <1>1, <1>7, <2>1
  <2> QED
    BY <1>1, <1>7, <2>2, <2>3, <2>4, <2>5, <2>6 DEF MediaNext
<1>9. pauses' \in 0..MaxCommands
  BY <1>7, <1>8
<1>10. handling' \in BOOLEAN
  BY <1>7 DEF MediaNext, mediaVars, ElementEvent, Select, SourceResolved, SourceRefused, Play,
     PlayRefused, PlayBegins, PlayAborted, Pause, Stop, Unload, AnswersOnly, PauseFires, Loaded,
     Refreshes, Buffers, FallsSilent, Starts, Ends, HandlingAfter
<1>11. loading' \in BOOLEAN /\ on' \in BOOLEAN
  <2>1. loading' \in {loading, TRUE, FALSE}
    BY DEF MediaNext, mediaVars, ElementEvent, Select, SourceResolved, SourceRefused, Play,
       PlayRefused, PlayBegins, PlayAborted, Pause, Stop, Unload, AnswersOnly, PauseFires, Loaded,
       Refreshes, Buffers, FallsSilent
  <2>2. on' \in {on, TRUE, FALSE}
    BY DEF MediaNext, mediaVars, ElementEvent, Select, SourceResolved, SourceRefused, Play,
       PlayRefused, PlayBegins, PlayAborted, Pause, Stop, Unload, AnswersOnly, PauseFires, Loaded,
       Refreshes, Buffers, FallsSilent, Paused
  <2> QED
    BY <1>7, <2>1, <2>2
<1>12. mislabelled' \in BOOLEAN
  BY <1>1 DEF MediaTypeOK, MediaNext, mediaVars, ElementEvent, Select, SourceResolved, SourceRefused,
     Play, PlayRefused, PlayBegins, PlayAborted, Pause, Stop, Unload, AnswersOnly, PauseFires,
     Loaded, Refreshes, Buffers, FallsSilent
<1>13. swallowed' \in BOOLEAN /\ unplayed' \in BOOLEAN
  <2>1. (\E f, g \in BOOLEAN : Noted(f, g)) \/ UNCHANGED <<swallowed, unplayed>>
    BY DEF MediaNext, mediaVars, ElementEvent, Select, SourceResolved, SourceRefused,
     Play, PlayRefused, PlayBegins, PlayAborted, Pause, Stop, Unload, AnswersOnly, PauseFires,
     Loaded, Refreshes, Buffers, FallsSilent, Starts, Ends, Publish
  <2> QED
    BY <1>1, <2>1 DEF MediaTypeOK, Noted
<1> QED
  BY <1>3, <1>4, <1>5, <1>6, <1>8, <1>9, <1>10, <1>11, <1>12, <1>13 DEF MediaTypeOK

\* Every step keeps what HoldsOrSelects says.
LEMMA HoldsStep == MediaInv /\ [MediaNext]_mediaVars => HoldsOrSelects'
<1> SUFFICES ASSUME MediaInv, [MediaNext]_mediaVars PROVE HoldsOrSelects'
  OBVIOUS
<1> USE DEF HoldsOrSelects, Selecting
<1>1. MediaTypeOK /\ doing \in [Callers -> Doings] /\ HoldsOrSelects /\ media \in States
  BY DEF MediaInv, MediaTypeOK
<1>2. ASSUME NEW c \in Callers, NEW t \in Tracks, Select(c, t) PROVE HoldsOrSelects'
  <2>1. doing'[c] = [op |-> "select", track |-> t]
    BY <1>1, <1>2 DEF Select, Starts
  <2> QED
    BY <2>1
<1>3. ASSUME NEW c \in Callers, SourceResolved(c) \/ SourceRefused(c) \/ Unload(c) PROVE HoldsOrSelects'
  <2>1. CASE SourceResolved(c)
    <3>1. source' = doing[c].track /\ media' = media /\ mislabelled' = (media.item # doing[c].track)
      BY <2>1 DEF SourceResolved, Ends
    <3> QED
      BY <3>1
  <2>2. CASE SourceRefused(c)
    BY <2>2 DEF SourceRefused
  <2>3. CASE Unload(c)
    BY <2>3 DEF Unload, Ends
  <2> QED
    BY <1>3, <2>1, <2>2, <2>3
<1>4. \A status \in Statuses : With(status).item = media.item
  BY <1>1 DEF With, States
<1>5. ASSUME NEW c \in Callers,
             \/ Play(c) \/ PlayRefused(c) \/ PlayBegins(c) \/ PlayAborted(c) \/ Pause(c) \/ Stop(c)
             \/ \E how \in {"ok", "error"} : AnswersOnly(c, how)
      PROVE  HoldsOrSelects'
  <2>1. media'.item = media.item /\ UNCHANGED <<source, mislabelled>>
    BY <1>4, <1>5 DEF Statuses, Play, PlayRefused, PlayBegins, PlayAborted, Pause, Stop, AnswersOnly, Starts, Ends
  <2>2. \A d \in Callers : doing[d].op = "select" => doing'[d].op = "select"
    <3>1. CASE Pause(c) \/ Stop(c)
      <4>1. doing' = PlaysAborted(doing)
        BY <3>1 DEF Pause, Stop, Paused
      <4> QED
        BY <1>1, <4>1, AbortFacts
    <3>2. CASE \/ Play(c) \/ PlayRefused(c) \/ \E how \in {"ok", "error"} : AnswersOnly(c, how)
      BY <1>1, <3>2, DoingAfter, NothingIsDoing
    <3>3. CASE PlayBegins(c) \/ PlayAborted(c)
      <4>1. doing[c].op # "select"
        BY <3>3 DEF PlayBegins, PlayAborted
      <4> QED
        BY <1>1, <3>3, <4>1, DoingAfter
    <3> QED
      BY <1>5, <3>1, <3>2, <3>3
  <2> QED
    BY <1>1, <2>1, <2>2
<1>6. CASE ElementEvent
  <2>1. media'.item = media.item /\ UNCHANGED <<source, mislabelled>>
    BY <1>4, <1>6 DEF ElementEvent, PauseFires, Loaded, Refreshes, Buffers, FallsSilent, Publish, Statuses
  <2>2. doing' = doing \/ doing' = PlaysAborted(doing)
    BY <1>6 DEF ElementEvent, PauseFires, Loaded, Refreshes, Buffers, FallsSilent
  <2> QED
    BY <1>1, <2>1, <2>2, AbortFacts
<1>7. CASE UNCHANGED mediaVars
  BY <1>1, <1>7 DEF mediaVars
<1> QED
  BY <1>2, <1>3, <1>5, <1>6, <1>7 DEF MediaNext

\* Plays and selections that stay under way when a caller's own doing ends or begins.
LEMMA OthersPending ==
  ASSUME MediaTypeOK, NEW c \in Callers, NEW what \in Doings, doing' = [doing EXCEPT ![c] = what]
  PROVE  /\ doing[c].op # "play" => (PlayPending => PlayPending')
         /\ doing[c].op # "select" => (Selecting => Selecting')
         /\ what.op = "play" => PlayPending'
         /\ what.op = "select" => Selecting'
  BY DEF MediaTypeOK, PlayPending, Selecting

\* Sound begins with play(), and ends with whatever aborts it.
LEMMA SoundStep == MediaInv /\ [MediaNext]_mediaVars => SoundIsAwaited'
<1> SUFFICES ASSUME MediaInv, [MediaNext]_mediaVars PROVE SoundIsAwaited'
  OBVIOUS
<1>1. MediaTypeOK /\ doing \in [Callers -> Doings] /\ SoundIsAwaited /\ pauses \in Nat
  BY DEF MediaInv, MediaTypeOK
<1>2. on' = FALSE => SoundIsAwaited'
  BY DEF SoundIsAwaited
<1>3. ASSUME NEW c \in Callers, NEW t \in Tracks, Select(c, t) PROVE SoundIsAwaited'
  <2>1. /\ doing' = [doing EXCEPT ![c] = [op |-> "select", track |-> t]]
        /\ doing[c] = Nothing /\ UNCHANGED <<on, pauses, loading>>
    BY <1>3 DEF Select, Starts, Begins
  <2>2. Selecting' /\ (PlayPending => PlayPending')
    BY <1>1, <2>1, OthersPending, NothingIsDoing
  <2> QED
    BY <1>1, <2>1, <2>2 DEF SoundIsAwaited
<1>4. ASSUME NEW c \in Callers, Play(c) PROVE SoundIsAwaited'
  <2>1. /\ doing' = [doing EXCEPT ![c] = [op |-> "play", track |-> NoTrack]]
        /\ doing[c] = Nothing
    BY <1>4 DEF Play, Starts, Begins
  <2>2. PlayPending'
    BY <1>1, <2>1, OthersPending, NothingIsDoing
  <2> QED
    BY <2>2 DEF SoundIsAwaited
<1>5. ASSUME NEW c \in Callers, SourceResolved(c) \/ Pause(c) \/ Stop(c) \/ Unload(c)
      PROVE  SoundIsAwaited'
  BY <1>2, <1>5 DEF SourceResolved, Pause, Stop, Unload, Paused
<1>6. ASSUME NEW c \in Callers, PlayRefused(c) PROVE SoundIsAwaited'
  <2>1. UNCHANGED on /\ ~on
    BY <1>6 DEF PlayRefused
  <2> QED
    BY <2>1 DEF SoundIsAwaited
<1>7. ASSUME NEW c \in Callers, SourceRefused(c) PROVE SoundIsAwaited'
  <2>1. mislabelled' /\ UNCHANGED <<on, pauses, loading>>
    BY <1>7 DEF SourceRefused
  <2>2. doing' = [doing EXCEPT ![c] = Nothing] /\ doing[c].op = "select"
    BY <1>7 DEF SourceRefused
  <2>3. PlayPending => PlayPending'
    BY <1>1, <2>2, OthersPending, NothingIsDoing
  <2> QED
    BY <1>1, <2>1, <2>3 DEF SoundIsAwaited
<1>8. ASSUME NEW c \in Callers, PlayBegins(c) PROVE SoundIsAwaited'
  <2>1. media' = With("playing") /\ pauses = 0 /\ ~loading /\ UNCHANGED <<on, pauses, loading>>
    BY <1>8 DEF PlayBegins, Ends
  <2>2. media'.status = "playing"
    BY <1>1, <2>1 DEF With, MediaTypeOK, States
  <2> QED
    BY <2>1, <2>2 DEF SoundIsAwaited
<1>9. ASSUME NEW c \in Callers, PlayAborted(c) PROVE SoundIsAwaited'
  <2>1. media' = media /\ UNCHANGED <<on, pauses, loading, mislabelled>>
    BY <1>9 DEF PlayAborted, Ends
  <2>2. doing' = [doing EXCEPT ![c] = Nothing] /\ doing[c].op = "aborted"
    BY <1>9 DEF PlayAborted
  <2>3. (PlayPending => PlayPending') /\ (Selecting => Selecting')
    BY <1>1, <2>2, OthersPending, NothingIsDoing
  <2> QED
    BY <1>1, <2>1, <2>3 DEF SoundIsAwaited
<1>10. ASSUME NEW c \in Callers, NEW how \in {"ok", "error"}, AnswersOnly(c, how) PROVE SoundIsAwaited'
  <2>1. media' = media /\ UNCHANGED <<on, pauses, loading, mislabelled, doing>>
    BY <1>10 DEF AnswersOnly, Ends
  <2> QED
    BY <1>1, <2>1 DEF SoundIsAwaited, PlayPending, Selecting
<1>11. CASE PauseFires
  <2>1. UNCHANGED <<on, loading, doing, mislabelled>> /\ pauses > 0 /\ pauses' = pauses - 1
    BY <1>11 DEF PauseFires
  <2>2. on => PlayPending
    BY <1>1, <2>1 DEF SoundIsAwaited
  <2> QED
    BY <2>1, <2>2 DEF SoundIsAwaited, PlayPending
<1>12. CASE Loaded
  <2>1. UNCHANGED <<on, pauses, doing, mislabelled>> /\ loading /\ pauses = 0
    BY <1>12 DEF Loaded
  <2>2. on => PlayPending
    BY <1>1, <2>1 DEF SoundIsAwaited
  <2> QED
    BY <2>1, <2>2 DEF SoundIsAwaited, PlayPending
<1>13. ASSUME NEW s \in {"buffering", "playing"}, Buffers(s) PROVE SoundIsAwaited'
  <2>1. media' = With(s) /\ pauses = 0 /\ ~loading /\ UNCHANGED <<on, pauses, loading>>
    BY <1>13 DEF Buffers, Publish
  <2>2. media'.status = s
    BY <1>1, <2>1 DEF With, MediaTypeOK, States
  <2> QED
    BY <2>1, <2>2 DEF SoundIsAwaited
<1>14. ASSUME NEW s \in {"ended", "error"}, FallsSilent(s) PROVE SoundIsAwaited'
  BY <1>2, <1>14 DEF FallsSilent
<1>15. CASE Refreshes \/ UNCHANGED mediaVars
  <2>1. UNCHANGED <<media, on, pauses, loading, doing, mislabelled>>
    BY <1>15 DEF Refreshes, Publish, mediaVars
  <2> QED
    BY <1>1, <2>1 DEF SoundIsAwaited, PlayPending, Selecting
<1> QED
  BY <1>3, <1>4, <1>5, <1>6, <1>7, <1>8, <1>9, <1>10, <1>11, <1>12, <1>13, <1>14, <1>15
     DEF MediaNext, ElementEvent

\* Nothing is played without an item, and a state is playing while there is sound,
\* while there will be, or since a play() that was rejected.
LEMMA PlayingStep ==
  MediaInv /\ [MediaNext]_mediaVars => NoItemIsSilent' /\ PlayingOrKnown'
<1> SUFFICES ASSUME MediaInv, [MediaNext]_mediaVars PROVE NoItemIsSilent' /\ PlayingOrKnown'
  OBVIOUS
<1> DEFINE Claim == NoItemIsSilent /\ PlayingOrKnown
<1>1. MediaTypeOK /\ doing \in [Callers -> Doings] /\ Claim /\ media \in States
  BY DEF MediaInv, MediaTypeOK
<1>2. \A status \in Statuses : With(status).item = media.item /\ With(status).status = status
  BY <1>1 DEF With, States
<1>3. ASSUME NEW c \in Callers, NEW t \in Tracks, Select(c, t) PROVE Claim'
  <2>1. media' = [status |-> "loading", item |-> t]
    BY <1>3 DEF Select, Starts
  <2>2. media'.item # NoTrack /\ media'.status = "loading"
    BY <2>1, MediaAssumption
  <2> QED
    BY <2>2 DEF NoItemIsSilent, PlayingOrKnown
<1>4. ASSUME NEW c \in Callers, Play(c) PROVE Claim'
  <2>1. media'.item = media.item /\ media.item # NoTrack /\ on'
    BY <1>2, <1>4 DEF Play, Starts, MayPlay, Statuses
  <2> QED
    BY <2>1 DEF NoItemIsSilent, PlayingOrKnown
<1>5. ASSUME NEW c \in Callers, SourceResolved(c) PROVE Claim'
  <2>1. on' = FALSE /\ loading' = TRUE /\ media' = media
    BY <1>5 DEF SourceResolved, Ends
  <2> DEFINE rest == [doing EXCEPT ![c] = Nothing]
  <2>2. rest \in [Callers -> Doings] /\ doing' = PlaysAborted(rest)
    BY <1>1, <1>5, NothingIsDoing DEF SourceResolved
  <2>3. ~PlayPending'
    <3> HIDE DEF rest
    <3> QED
      BY <2>2, AbortFacts DEF PlayPending
  <2> QED
    BY <1>1, <2>1, <2>3 DEF NoItemIsSilent, PlayingOrKnown
<1>6. ASSUME NEW c \in Callers, Unload(c) PROVE Claim'
  <2>1. on' = FALSE /\ media'.status = "idle" /\ doing' = PlaysAborted(doing)
    BY <1>6 DEF Unload, Ends
  <2>2. ~PlayPending'
    BY <1>1, <2>1, AbortFacts DEF PlayPending
  <2> QED
    BY <2>1, <2>2 DEF NoItemIsSilent, PlayingOrKnown
<1>7. ASSUME NEW c \in Callers, Pause(c) \/ Stop(c) PROVE Claim'
  <2>1. /\ on' = FALSE /\ doing' = PlaysAborted(doing)
        /\ media'.item = media.item
        /\ media'.status # "playing" \/ (media' = media /\ media.item = NoTrack)
    BY <1>2, <1>7 DEF Pause, Stop, Ends, Paused, Statuses
  <2>2. ~PlayPending'
    BY <1>1, <2>1, AbortFacts DEF PlayPending
  <2>3. media.item = NoTrack => media.status # "playing"
    BY <1>1 DEF NoItemIsSilent
  <2>4. media'.status # "playing"
    BY <2>1, <2>3
  <2> QED
    BY <2>1, <2>2, <2>4 DEF NoItemIsSilent, PlayingOrKnown
<1>8. ASSUME NEW c \in Callers, PlayRefused(c) PROVE Claim'
  <2>1. media'.item = media.item /\ media.item # NoTrack /\ media'.status = "playing"
    BY <1>2, <1>8 DEF PlayRefused, Ends, MayPlay, Statuses
  <2>2. unplayed' = TRUE
    BY <1>8, <2>1 DEF PlayRefused, Ends, Noted
  <2> QED
    BY <2>1, <2>2 DEF NoItemIsSilent, PlayingOrKnown
<1>9. ASSUME NEW c \in Callers, PlayBegins(c) PROVE Claim'
  <2>1. on' /\ media'.item = media.item
    BY <1>2, <1>9 DEF PlayBegins, Ends, Statuses
  <2>2. media.item # NoTrack
    BY <1>1, <1>9 DEF PlayBegins, NoItemIsSilent
  <2> QED
    BY <2>1, <2>2 DEF NoItemIsSilent, PlayingOrKnown
<1>10. ASSUME NEW c \in Callers, NEW how \in {"ok", "error"},
              SourceRefused(c) \/ PlayAborted(c) \/ AnswersOnly(c, how)
       PROVE  Claim'
  <2>1. media' = media /\ UNCHANGED <<on, loading>>
    BY <1>10 DEF SourceRefused, PlayAborted, AnswersOnly, Ends
  <2>2. media'.status = "playing" /\ unplayed => unplayed'
    <3>1. \E f, g \in BOOLEAN : Noted(f, g)
      BY <1>10 DEF SourceRefused, PlayAborted, AnswersOnly, Ends
    <3> QED
      BY <3>1 DEF Noted
  <2>3. ~PlayPending => ~PlayPending'
    BY <1>1, <1>10, NothingIsDoing DEF SourceRefused, PlayAborted, AnswersOnly, PlayPending
  <2>4. NoItemIsSilent'
    BY <1>1, <2>1, <2>3 DEF NoItemIsSilent
  <2>5. PlayingOrKnown'
    BY <1>1, <2>1, <2>2 DEF PlayingOrKnown
  <2> QED
    BY <2>4, <2>5
<1>11. ASSUME NEW state, Publish(state) PROVE state.status = "playing" /\ unplayed => unplayed'
  BY <1>11 DEF Publish, Noted
<1>12. CASE PauseFires
  <2>1. /\ UNCHANGED <<on, doing, loading>> /\ media'.item = media.item
        /\ media'.status = "paused" \/ media'.status = "ended"
    BY <1>2, <1>12 DEF PauseFires, Publish, Statuses
  <2> QED
    BY <1>1, <2>1 DEF NoItemIsSilent, PlayingOrKnown, PlayPending
<1>13. CASE Loaded
  <2>1. UNCHANGED <<on, doing>> /\ media'.item = media.item /\ media'.status = "ready"
    BY <1>2, <1>13 DEF Loaded, Publish, Statuses
  <2> QED
    BY <1>1, <2>1 DEF NoItemIsSilent, PlayingOrKnown, PlayPending
<1>14. ASSUME NEW s \in {"buffering", "playing"}, Buffers(s) PROVE Claim'
  <2>1. UNCHANGED <<on, doing>> /\ on /\ media'.item = media.item
    BY <1>2, <1>14 DEF Buffers, Publish, Statuses
  <2> QED
    BY <1>1, <2>1 DEF NoItemIsSilent, PlayingOrKnown
<1>15. ASSUME NEW s \in {"ended", "error"}, FallsSilent(s) PROVE Claim'
  <2>1. on' = FALSE /\ doing' = PlaysAborted(doing) /\ media'.item = media.item /\ media'.status = s
    BY <1>2, <1>15 DEF FallsSilent, Publish, Statuses
  <2>2. ~PlayPending'
    BY <1>1, <2>1, AbortFacts DEF PlayPending
  <2> QED
    BY <2>1, <2>2 DEF NoItemIsSilent, PlayingOrKnown
<1>16. CASE Refreshes \/ UNCHANGED mediaVars
  <2>1. UNCHANGED <<media, on, loading, doing>>
    BY <1>16 DEF Refreshes, Publish, mediaVars
  <2>2. media.status = "playing" /\ unplayed => unplayed'
    BY <1>11, <1>16 DEF Refreshes, mediaVars
  <2> QED
    BY <1>1, <2>1, <2>2 DEF NoItemIsSilent, PlayingOrKnown, PlayPending
<1> QED
  BY <1>1, <1>3, <1>4, <1>5, <1>6, <1>7, <1>8, <1>9, <1>10, <1>12, <1>13, <1>14, <1>15, <1>16
     DEF MediaNext, ElementEvent

\* The strengthening, in every state.
LEMMA MediaInductive == MediaSpec => []MediaInv
<1>1. MediaInv /\ [MediaNext]_mediaVars => MediaInv'
  BY MediaTypes, ToldStep, HoldsStep, SoundStep, PlayingStep DEF MediaInv
<1> QED
  BY <1>1, MediaStarts, PTL DEF MediaSpec

\* The state machine, what callers await and the element's state keep their types.
THEOREM MediaTypeCorrect == MediaSpec => []MediaTypeOK
<1>1. MediaInv => MediaTypeOK
  BY DEF MediaInv
<1> QED
  BY <1>1, MediaInductive, PTL

\* createBrowserMediaCapabilities of platform/host/media-capabilities.mjs: however the
\* commands of the application, the media keys and the element's events overlap, once
\* everything is over the application knows what is shown and hears what is shown,
\* but for the failures that the property names.
THEOREM MediaSettled == MediaSpec => []MediaSettles
<1>1. MediaInv => ToldUnlessFailed
  BY DEF MediaInv, ToldUnlessFailed, ToldOrHandling, Resting
<1>2. MediaInv /\ Resting => ~Selecting /\ ~PlayPending
  BY NothingIsDoing DEF Resting, Selecting, PlayPending
<1>3. MediaInv => HoldsWhatItShows /\ SoundIsControllable /\ PlayingIsAudible
  BY <1>2 DEF MediaInv, HoldsWhatItShows, SoundIsControllable, PlayingIsAudible, AtRest,
     HoldsOrSelects, SoundIsAwaited, PlayingOrKnown
<1> QED
  BY <1>1, <1>3, MediaInductive, PTL DEF MediaSettles
-----------------------------------------------------------------------------
(* Motion. *)

TasksOn(c) == {t \in frameTasks : t.channel = c}
Rests(c) == playing[c] = Idle /\ TasksOn(c) = {}

RunsAs(m, r) ==
  /\ r \in [serial : Serials \ {0}, motion : Motions, step : Nat, round : Nat, tween : Nat]
  /\ r.motion = m.motion /\ r.serial = m.serial
  /\ r.step \in StepsOf(r.motion) /\ r.tween = r.step /\ r.round \in 0..r.motion.rounds

\* What is declared runs, and has one task.
HasFrameTask(c) == \E t \in frameTasks :
  TasksOn(c) = {t} /\ t.serial = playing[c].serial /\ t.step = playing[c].step

MotionMoves(c) ==
  /\ RunsAs(declared[c], playing[c])
  /\ HasFrameTask(c) \/ (TasksOn(c) = {} /\ c \in overrun)

\* What is deferred is declared, rests, and shows what it begins or ends with.
DeferredRests(c) ==
  deferred[c] # Idle =>
    /\ Rests(c) /\ deferring /\ declared[c].motion # Still
    /\ deferred[c] \in Prepared /\ deferred[c].serial # 0
    /\ deferred[c].serial = declared[c].serial
    /\ styled[c] = [serial |-> deferred[c].serial, final |-> deferred[c].reduced]

EndShown(c) ==
  Rests(c) /\ deferred[c] = Idle /\ c \notin overrun =>
    styled[c] = IF declared[c].motion = Still THEN Unstyled
                ELSE [serial |-> declared[c].serial, final |-> TRUE]

ChannelSound(c) ==
  /\ Rests(c) \/ MotionMoves(c)
  /\ DeferredRests(c)
  /\ EndShown(c)

MotionTyped ==
  /\ declared \in [MotionChannels -> [serial : Serials, motion : Motions \cup {Still}]]
  /\ frameTasks \subseteq [channel : MotionChannels, serial : Serials, step : Nat,
                           left : Nat \ {0}, begun : BOOLEAN]
  /\ \A c \in MotionChannels : styled[c] \in [serial : Serials, final : BOOLEAN]
  /\ {reduced, deferring} \subseteq BOOLEAN
  /\ motionRenders \in Serials /\ overrun \subseteq MotionChannels

MotionInv == MotionTyped /\ \A c \in MotionChannels : ChannelSound(c)

\* What MotionHolds says is what the strengthening says of channels at rest.
LEMMA MotionSettledAs == MotionInv => MotionTypeOK /\ MotionHolds
<1> SUFFICES ASSUME MotionInv PROVE MotionTypeOK /\ MotionHolds
  OBVIOUS
<1>1. ASSUME NEW c \in MotionChannels, MotionMoves(c)
      PROVE  /\ playing[c] # Idle /\ playing[c].serial \in Serials /\ playing[c].motion \in Motions
             /\ {playing[c].step, playing[c].tween} \subseteq {0} \cup StepsOf(playing[c].motion)
             /\ playing[c].round \in 0..playing[c].motion.rounds
             /\ playing[c].tween = playing[c].step
             /\ playing[c].motion = declared[c].motion /\ playing[c].serial = declared[c].serial
  BY <1>1 DEF MotionMoves, RunsAs, Idle
<1>2. MotionTypeOK
  BY <1>1 DEF MotionInv, MotionTyped, MotionTypeOK, ChannelSound, Rests, DeferredRests
<1>3. TasksAreOwned
  <2>1. ASSUME NEW t \in frameTasks
        PROVE  /\ t.channel \in MotionChannels /\ t \in TasksOn(t.channel)
               /\ MotionMoves(t.channel) /\ TasksOn(t.channel) = {t}
               /\ t.serial = playing[t.channel].serial /\ t.step = playing[t.channel].step
    <3>1. t.channel \in MotionChannels /\ t \in TasksOn(t.channel)
      BY DEF MotionInv, MotionTyped, TasksOn
    <3>2. MotionMoves(t.channel)
      BY <3>1 DEF MotionInv, ChannelSound, Rests
    <3> QED
      BY <3>1, <3>2 DEF MotionMoves, HasFrameTask
  <2>2. ASSUME NEW t \in frameTasks, NEW u \in frameTasks, t.channel = u.channel PROVE t = u
    BY <2>1, <2>2
  <2> QED
    BY <1>1, <2>1, <2>2 DEF TasksAreOwned
<1>4. DeclaredMotionsRun
  <2>1. ASSUME NEW c \in MotionChannels, playing[c] # Idle
        PROVE  MotionMoves(c) /\ (c \in overrun \/ \E t \in frameTasks : t.channel = c)
    <3>1. MotionMoves(c)
      BY <2>1 DEF MotionInv, ChannelSound, Rests
    <3> QED
      BY <3>1 DEF MotionMoves, HasFrameTask, TasksOn
  <2> QED
    BY <1>1, <2>1 DEF DeclaredMotionsRun, MotionInv, ChannelSound, DeferredRests
<1>5. RestShowsTheEnd
  <2>1. ASSUME NEW c \in MotionChannels, playing[c] = Idle PROVE Rests(c)
    BY <1>1, <2>1 DEF MotionInv, ChannelSound
  <2> QED
    BY <2>1 DEF RestShowsTheEnd, MotionInv, ChannelSound, EndShown
<1> QED
  BY <1>2, <1>3, <1>4, <1>5 DEF MotionHolds

\* Nothing moves.
LEMMA MotionStarts == MotionInit => MotionInv
<1> SUFFICES ASSUME MotionInit PROVE MotionInv
  OBVIOUS
<1>1. 0 \in Serials
  BY MotionAssumption DEF Serials
<1>2. MotionTyped
  BY <1>1 DEF MotionInit, MotionTyped, Unstyled
<1>3. ASSUME NEW c \in MotionChannels PROVE ChannelSound(c)
  BY <1>1 DEF MotionInit, ChannelSound, Rests, TasksOn, DeferredRests, EndShown
<1> QED
  BY <1>2, <1>3 DEF MotionInv

\* A set of numbers has a least one.
LEMMA LeastOf ==
  ASSUME NEW S \in SUBSET Nat, S # {}
  PROVE  Min(S) \in S /\ \A n \in S : Min(S) <= n
<1> DEFINE R == OpToRel(<, Nat)
<1>1. IsWellFoundedOn(R, Nat)
  BY NatLessThanWellFounded
<1>2. \A i, j \in Nat : i < j => <<i, j>> \in R
  BY DEF OpToRel
<1> HIDE DEF R
<1>3. PICK x \in S : \A y \in S : ~(<<y, x>> \in R)
  BY <1>1, WFMin
<1>4. x \in Nat /\ \A y \in S : y \in Nat /\ ~(y < x)
  BY <1>2, <1>3
<1>5. \A y \in S : x <= y
  BY <1>4
<1> QED
  BY <1>5 DEF Min

\* A motion that runs on is at one of its steps that take time, in one of its rounds.
LEMMA AdvanceFacts ==
  ASSUME NEW m \in Motions, NEW i \in Nat, NEW k \in 0..m.rounds, reduced \in BOOLEAN
  PROVE  LET n == Advance(m, i, k) IN
         /\ n.how \in {"runs", "over", "recurses"}
         /\ n.how = "runs" => /\ n.step \in StepsOf(m) /\ n.step \in Nat /\ m.steps[n.step] \in Nat \ {0}
                              /\ n.round \in 0..m.rounds
         /\ n.how = "recurses" => reduced
<1>1. /\ m.rounds \in Nat /\ m.steps \in Seq(Nat)
      /\ m.rounds = 1 \/ \E j \in StepsOf(m) : m.steps[j] > 0
  BY MotionAssumption DEF StepsOf
<1>2. ASSUME NEW j \in Nat, Timed(m, j) # {}
      PROVE  /\ Min(Timed(m, j)) \in StepsOf(m) /\ Min(Timed(m, j)) \in Nat
             /\ m.steps[Min(Timed(m, j))] \in Nat \ {0}
  <2>1. Timed(m, j) \in SUBSET Nat
    BY <1>1 DEF Timed, StepsOf
  <2>2. Min(Timed(m, j)) \in Timed(m, j)
    BY <1>2, <2>1, LeastOf
  <2>3. \A x \in Timed(m, j) : x \in StepsOf(m) /\ x \in Nat /\ m.steps[x] \in Nat \ {0}
    BY <1>1 DEF Timed, StepsOf
  <2> QED
    BY <2>2, <2>3
<1>3. m.rounds # 1 => Timed(m, 0) # {}
  BY <1>1 DEF Timed, StepsOf
<1>4. k \in Nat /\ (m.rounds = 0 => k = 0)
  BY <1>1
<1>5. CASE reduced
  BY <1>5 DEF Advance
<1>6. CASE ~reduced /\ Timed(m, i) # {}
  BY <1>2, <1>6 DEF Advance
<1>7. CASE ~reduced /\ Timed(m, i) = {} /\ m.rounds # 0 /\ k + 1 >= m.rounds
  BY <1>7 DEF Advance
<1>8. CASE ~reduced /\ Timed(m, i) = {} /\ ~(m.rounds # 0 /\ k + 1 >= m.rounds)
  <2>1. Timed(m, 0) # {} /\ NextRound(m, k) \in 0..m.rounds
    BY <1>1, <1>3, <1>4, <1>8 DEF NextRound
  <2> QED
    BY <1>2, <1>8, <2>1 DEF Advance
<1> QED
  BY <1>5, <1>6, <1>7, <1>8

\* A motion that begins runs a step that takes time, or is over.
LEMMA FirstFacts ==
  ASSUME NEW m \in Motions, reduced \in BOOLEAN
  PROVE  LET n == FirstStep(m) IN
         /\ n.how \in {"runs", "over"}
         /\ n.how = "runs" => /\ n.step \in StepsOf(m) /\ n.step \in Nat /\ m.steps[n.step] \in Nat \ {0}
                              /\ n.round \in 0..m.rounds
<1>1. 0 \in 0..m.rounds
  BY MotionAssumption
<1>2. CASE reduced
  BY <1>2 DEF FirstStep
<1>3. CASE ~reduced
  BY <1>1, <1>3, AdvanceFacts DEF FirstStep
<1> QED
  BY <1>2, <1>3

\* Who holds a task is found by a cancellation of its channel.
LEMMA TaskFacts ==
  ASSUME MotionInv, NEW t \in frameTasks
  PROVE  /\ t.channel \in MotionChannels /\ MotionMoves(t.channel) /\ TasksOn(t.channel) = {t}
         /\ t.serial = playing[t.channel].serial /\ t.step = playing[t.channel].step
         /\ playing[t.channel] # Idle /\ playing[t.channel].tween = t.step
<1>1. t.channel \in MotionChannels /\ t \in TasksOn(t.channel)
  BY DEF MotionInv, MotionTyped, TasksOn
<1>2. MotionMoves(t.channel)
  BY <1>1 DEF MotionInv, ChannelSound, Rests
<1> QED
  BY <1>1, <1>2 DEF MotionMoves, HasFrameTask, RunsAs, Idle

\* Started anew, a channel moves or is over at once; what is disposed of rests.
LEMMA RestartFacts ==
  ASSUME MotionInv, NEW gone \in SUBSET MotionChannels, NEW starting \in SUBSET MotionChannels,
         NEW before, Restart(gone, starting, before),
         \A c \in starting :
           /\ declared'[c] \in [serial : Serials \ {0}, motion : Motions]
           /\ c \in gone \/ Rests(c)
  PROVE  /\ \A c \in starting : \/ RunsAs(declared'[c], playing'[c]) /\ HasFrameTask(c)'
                                \/ Rests(c)' /\ styled'[c] = [serial |-> declared'[c].serial, final |-> TRUE]
         /\ \A c \in gone \ starting : Rests(c)'
         /\ \A c \in MotionChannels \ starting : styled'[c] = before[c]
         /\ \A c \in MotionChannels \ (gone \cup starting) :
              playing'[c] = playing[c] /\ TasksOn(c)' = TasksOn(c)
         /\ \A c \in starting :
              styled'[c] = before[c] \/ styled'[c] \in [serial : Serials, final : BOOLEAN]
         /\ frameTasks' \subseteq [channel : MotionChannels, serial : Serials, step : Nat,
                                   left : Nat \ {0}, begun : BOOLEAN]
<1> DEFINE serial(c) == declared'[c].serial
           first(c)  == FirstStep(declared'[c].motion)
           record(c) == Record(serial(c), declared'[c].motion, 0, first(c))
           starts     == {c \in starting : first(c).how = "runs"}
           task(c)   == Task(c, record(c))
<1>1. /\ playing' = [c \in MotionChannels |->
                       IF c \in starts THEN record(c)
                       ELSE IF c \in gone THEN Idle ELSE playing[c]]
      /\ frameTasks' = (frameTasks \ Cancelled(gone)) \cup {task(c) : c \in starts}
      /\ styled' = [c \in MotionChannels |->
                      IF c \in starting \ starts THEN [serial |-> serial(c), final |-> TRUE]
                      ELSE IF c \in starts /\ first(c).step > 1
                           THEN [serial |-> serial(c), final |-> FALSE]
                      ELSE before[c]]
  BY DEF Restart
<1>2. ASSUME NEW c \in starts
      PROVE  /\ RunsAs(declared'[c], record(c)) /\ c \in starting
             /\ task(c) \in [channel : MotionChannels, serial : Serials, step : Nat,
                             left : Nat \ {0}, begun : BOOLEAN]
             /\ task(c).channel = c /\ task(c).serial = record(c).serial
             /\ task(c).step = record(c).step
  <2>1. /\ declared'[c] \in [serial : Serials \ {0}, motion : Motions] /\ reduced \in BOOLEAN
        /\ c \in starting /\ first(c).how = "runs"
    BY DEF MotionInv, MotionTyped
  <2>2. PICK m \in Motions : m = declared'[c].motion
    BY <2>1
  <2>3. PICK n : n = FirstStep(m)
    OBVIOUS
  <2>4. n.step \in StepsOf(m) /\ n.step \in Nat /\ m.steps[n.step] \in Nat \ {0} /\ n.round \in 0..m.rounds
    BY <2>1, <2>2, <2>3, FirstFacts
  <2>5. n.round \in Nat
    BY <2>4, MotionAssumption
  <2>6. record(c) = [serial |-> serial(c), motion |-> m, step |-> n.step, round |-> n.round,
                     tween |-> n.step]
    BY <2>2, <2>3 DEF Record, TweenAfter
  <2>7. task(c) = [channel |-> c, serial |-> serial(c), step |-> n.step, left |-> m.steps[n.step],
                   begun |-> FALSE]
    <3> HIDE DEF record, first, starts
    <3>1. /\ record(c).serial = serial(c) /\ record(c).step = n.step
          /\ record(c).motion = m
      BY <2>6
    <3> QED
      BY <3>1 DEF Task
  <2> HIDE DEF record, task, first, starts
  <2>8. serial(c) \in Serials \ {0}
    BY <2>1
  <2>9. RunsAs(declared'[c], record(c))
    BY <2>1, <2>2, <2>4, <2>5, <2>6, <2>8 DEF RunsAs
  <2> QED
    BY <2>1, <2>4, <2>6, <2>7, <2>8, <2>9
<1>3. \A t \in frameTasks : t \in Cancelled(gone) <=> t.channel \in gone
  BY TaskFacts DEF Cancelled
<1>4. \A c \in starting \ starts : c \in MotionChannels /\ first(c).how # "runs"
  OBVIOUS
<1>5. starts \subseteq starting /\ starts \subseteq MotionChannels
  OBVIOUS
<1> HIDE DEF record, task, first, starts, serial
<1>6. ASSUME NEW c \in MotionChannels
      PROVE  TasksOn(c)' = (IF c \in gone THEN {} ELSE TasksOn(c))
                           \cup (IF c \in starts THEN {task(c)} ELSE {})
  <2>1. \A t : t \in frameTasks' <=> (t \in frameTasks /\ t.channel \notin gone) \/ \E d \in starts : t = task(d)
    BY <1>1, <1>3
  <2>2. TasksOn(c)' = {t \in frameTasks' : t.channel = c}
    BY DEF TasksOn
  <2>3. \A d \in starts : task(d).channel = d
    BY <1>2
  <2>4. ASSUME NEW t PROVE t \in TasksOn(c)' <=> (c \notin gone /\ t \in TasksOn(c)) \/ (c \in starts /\ t = task(c))
    <3>1. t \in TasksOn(c)' <=> t \in frameTasks' /\ t.channel = c
      BY <2>2
    <3>2. t \in TasksOn(c) <=> t \in frameTasks /\ t.channel = c
      BY DEF TasksOn
    <3> QED
      BY <2>1, <2>3, <3>1, <3>2
  <2> QED
    BY <2>4
<1>7. \A c \in starting : c \in gone \/ TasksOn(c) = {}
  BY DEF Rests
<1>8. ASSUME NEW c \in starting, c \in starts PROVE RunsAs(declared'[c], playing'[c]) /\ HasFrameTask(c)'
  <2>1. TasksOn(c)' = {task(c)} /\ playing'[c] = record(c)
    BY <1>1, <1>5, <1>6, <1>7, <1>8
  <2>2. task(c) \in frameTasks'
    BY <1>1, <1>8
  <2> QED
    BY <1>2, <1>8, <2>1, <2>2 DEF HasFrameTask
<1>9. ASSUME NEW c \in starting \ starts
      PROVE  Rests(c)' /\ styled'[c] = [serial |-> declared'[c].serial, final |-> TRUE]
  <2>1. TasksOn(c)' = {} /\ playing'[c] = Idle
    BY <1>1, <1>6, <1>7 DEF Rests
  <2> QED
    BY <1>1, <2>1 DEF Rests, serial
<1>10. ASSUME NEW c \in gone \ starting PROVE Rests(c)'
  BY <1>1, <1>5, <1>6 DEF Rests
<1>11. \A c \in MotionChannels \ starting : styled'[c] = before[c]
  BY <1>1, <1>5
<1>12. ASSUME NEW c \in MotionChannels \ (gone \cup starting)
       PROVE  playing'[c] = playing[c] /\ TasksOn(c)' = TasksOn(c)
  BY <1>1, <1>5, <1>6
<1>13. ASSUME NEW c \in starting
       PROVE  styled'[c] = before[c] \/ styled'[c] \in [serial : Serials, final : BOOLEAN]
  <2>1. serial(c) \in Serials
    BY DEF serial
  <2> QED
    BY <1>1, <2>1
<1>14. frameTasks' \subseteq [channel : MotionChannels, serial : Serials, step : Nat,
                              left : Nat \ {0}, begun : BOOLEAN]
  BY <1>1, <1>2 DEF MotionInv, MotionTyped
<1> QED
  BY <1>8, <1>9, <1>10, <1>11, <1>12, <1>13, <1>14

\* A channel that nothing happens to stays as it is.
LEMMA ChannelStays ==
  ASSUME NEW c \in MotionChannels, ChannelSound(c), TasksOn(c)' = TasksOn(c),
         playing'[c] = playing[c], declared'[c] = declared[c], deferred'[c] = deferred[c],
         styled'[c] = styled[c], c \in overrun' <=> c \in overrun, deferring => deferring'
  PROVE  ChannelSound(c)'
<1>1. Rests(c)' <=> Rests(c)
  BY DEF Rests
<1>2. HasFrameTask(c) => HasFrameTask(c)'
  <2> SUFFICES ASSUME HasFrameTask(c) PROVE HasFrameTask(c)'
    OBVIOUS
  <2>1. PICK t \in frameTasks :
          TasksOn(c) = {t} /\ t.serial = playing[c].serial /\ t.step = playing[c].step
    BY DEF HasFrameTask
  <2>2. t \in frameTasks'
    BY <2>1 DEF TasksOn
  <2> QED
    BY <2>1, <2>2 DEF HasFrameTask
<1>3. MotionMoves(c) => MotionMoves(c)'
  BY <1>2 DEF MotionMoves, RunsAs, StepsOf
<1>4. DeferredRests(c)'
  BY <1>1 DEF ChannelSound, DeferredRests
<1>5. EndShown(c)'
  BY <1>1 DEF ChannelSound, EndShown
<1> QED
  BY <1>1, <1>3, <1>4, <1>5 DEF ChannelSound

\* A render stops what the tree no longer declares, and starts or defers the rest.
LEMMA RenderStep ==
  ASSUME MotionInv, NEW newTree \in MotionTrees, NEW defer \in BOOLEAN, RenderMotion(newTree, defer)
  PROVE  MotionInv'
<1> DEFINE changed  == {c[1] : c \in {c \in MotionChannels : newTree[c] # declared[c].motion}}
           gone     == {c \in MotionChannels : c[1] \in changed}
           moving   == {c \in gone : newTree[c] # Still}
           serial   == motionRenders + 1
           cleared  == [c \in MotionChannels |-> IF c \in gone THEN Unstyled ELSE styled[c]]
           prepared == [c \in MotionChannels |-> IF c \in moving
                          THEN [serial |-> serial, final |-> reduced] ELSE cleared[c]]
           starting == IF deferring' THEN {} ELSE moving
           before   == IF deferring' THEN prepared ELSE cleared
<1>1. /\ motionRenders < MaxMotionRenders /\ motionRenders' = serial
      /\ deferring' = (deferring \/ defer)
      /\ declared' = [c \in MotionChannels |-> IF c \in gone
                        THEN [serial |-> serial, motion |-> newTree[c]] ELSE declared[c]]
      /\ deferred' = [c \in MotionChannels |->
                        IF c \in moving /\ deferring' THEN [serial |-> serial, reduced |-> reduced]
                        ELSE IF c \in gone THEN Idle ELSE deferred[c]]
      /\ IF deferring' THEN Restart(gone, {}, prepared) ELSE Restart(gone, moving, cleared)
      /\ overrun' = overrun \ gone
      /\ reduced' = reduced
  BY DEF RenderMotion
<1>2. gone \in SUBSET MotionChannels /\ moving \in SUBSET gone /\ starting \in SUBSET moving
  OBVIOUS
<1>3. \A c \in gone : newTree[c] \in Motions \cup {Still} /\ (newTree[c] = Still <=> c \notin moving)
  BY DEF MotionTrees
<1>4. /\ motionRenders \in Serials /\ motionRenders \in Nat /\ serial \in Serials \ {0}
      /\ 0 \in Serials
  BY <1>1, MotionAssumption DEF MotionInv, MotionTyped, Serials
<1>5. /\ reduced \in BOOLEAN /\ deferring \in BOOLEAN /\ deferring' \in BOOLEAN /\ overrun \subseteq MotionChannels
      /\ \A c \in MotionChannels : styled[c] \in [serial : Serials, final : BOOLEAN]
      /\ declared \in [MotionChannels -> [serial : Serials, motion : Motions \cup {Still}]]
  BY <1>1 DEF MotionInv, MotionTyped
<1>6. Restart(gone, starting, before)
  BY <1>1
<1>7. \A c \in MotionChannels :
        before[c] = IF c \in moving /\ deferring' THEN [serial |-> serial, final |-> reduced]
                    ELSE IF c \in gone THEN Unstyled ELSE styled[c]
  BY <1>2
<1> HIDE DEF changed, gone, moving, serial, cleared, prepared, before, starting
<1>8. /\ \A c \in gone : declared'[c] = [serial |-> serial, motion |-> newTree[c]]
      /\ \A c \in MotionChannels \ gone : declared'[c] = declared[c]
      /\ declared' \in [MotionChannels -> [serial : Serials, motion : Motions \cup {Still}]]
  BY <1>1, <1>2, <1>3, <1>4, <1>5
<1>9. \A c \in starting : /\ declared'[c] \in [serial : Serials \ {0}, motion : Motions]
                          /\ c \in gone \/ Rests(c)
  <2> SUFFICES ASSUME NEW c \in starting
               PROVE  declared'[c] \in [serial : Serials \ {0}, motion : Motions] /\ c \in gone
    OBVIOUS
  <2>1. c \in moving /\ c \in gone
    BY <1>2
  <2>2. newTree[c] \in Motions
    BY <1>3, <2>1
  <2>3. declared'[c] = [serial |-> serial, motion |-> newTree[c]]
    BY <1>8, <2>1
  <2> QED
    BY <1>4, <2>1, <2>2, <2>3
<1> DEFINE taskTypes == [channel : MotionChannels, serial : Serials, step : Nat,
                         left : Nat \ {0}, begun : BOOLEAN]
<1>10. /\ \A c \in starting : \/ RunsAs(declared'[c], playing'[c]) /\ HasFrameTask(c)'
                              \/ Rests(c)' /\ styled'[c] = [serial |-> declared'[c].serial, final |-> TRUE]
       /\ \A c \in gone \ starting : Rests(c)'
       /\ \A c \in MotionChannels \ starting : styled'[c] = before[c]
       /\ \A c \in MotionChannels \ (gone \cup starting) :
            playing'[c] = playing[c] /\ TasksOn(c)' = TasksOn(c)
       /\ \A c \in starting :
            styled'[c] = before[c] \/ styled'[c] \in [serial : Serials, final : BOOLEAN]
       /\ frameTasks' \subseteq taskTypes
  <2>1. starting \in SUBSET MotionChannels
    BY <1>2
  <2> QED
    BY <1>2, <1>6, <1>9, <2>1, RestartFacts
<1> HIDE DEF taskTypes
<1>11. \A c \in MotionChannels : before[c] \in [serial : Serials, final : BOOLEAN]
  <2> SUFFICES ASSUME NEW c \in MotionChannels
               PROVE  before[c] \in [serial : Serials, final : BOOLEAN]
    OBVIOUS
  <2>1. CASE c \in moving /\ deferring'
    BY <1>4, <1>5, <1>7, <2>1
  <2>2. CASE ~(c \in moving /\ deferring') /\ c \in gone
    <3>1. before[c] = Unstyled
      BY <1>7, <2>2
    <3> QED
      BY <1>4, <3>1 DEF Unstyled
  <2>3. CASE ~(c \in moving /\ deferring') /\ c \notin gone
    BY <1>5, <1>7, <2>3
  <2> QED
    BY <2>1, <2>2, <2>3
<1>12. MotionTyped'
  <2>1. \A c \in MotionChannels : styled'[c] \in [serial : Serials, final : BOOLEAN]
    BY <1>10, <1>11
  <2> QED
    BY <1>1, <1>4, <1>5, <1>8, <1>10, <2>1 DEF MotionTyped, taskTypes
<1>13. ASSUME NEW c \in MotionChannels, c \notin gone PROVE ChannelSound(c)'
  <2>1. c \notin starting /\ c \notin moving
    BY <1>2, <1>13
  <2>2. styled'[c] = styled[c] /\ playing'[c] = playing[c] /\ TasksOn(c)' = TasksOn(c)
    BY <1>7, <1>10, <1>13, <2>1
  <2>3. deferred'[c] = deferred[c] /\ declared'[c] = declared[c] /\ (c \in overrun' <=> c \in overrun)
    BY <1>1, <1>8, <1>13, <2>1
  <2>4. ChannelSound(c) /\ (deferring => deferring')
    BY <1>1 DEF MotionInv
  <2> QED
    BY <2>2, <2>3, <2>4, ChannelStays
<1>14. ASSUME NEW c \in moving, deferring' PROVE ChannelSound(c)'
  <2>1. Rests(c)' /\ styled'[c] = [serial |-> serial, final |-> reduced] /\ c \in MotionChannels
    BY <1>2, <1>7, <1>10, <1>14 DEF starting
  <2>2. deferred'[c] = [serial |-> serial, reduced |-> reduced]
    BY <1>1, <1>14, <2>1
  <2>3. declared'[c].motion # Still /\ declared'[c].serial = serial
    <3>1. c \in gone /\ newTree[c] # Still
      BY <1>2, <1>3, <1>14
    <3>2. declared'[c] = [serial |-> serial, motion |-> newTree[c]]
      BY <1>8, <3>1
    <3> QED
      BY <3>1, <3>2
  <2>4. deferred'[c] \in Prepared /\ deferred'[c] # Idle
    <3>1. /\ serial \in Serials /\ serial # 0
          /\ [serial |-> serial, reduced |-> reduced] # [serial |-> 0]
      BY <1>4
    <3> QED
      BY <1>5, <2>2, <3>1 DEF Prepared, Idle
  <2>5. deferred'[c].serial # 0 /\ deferred'[c].serial = declared'[c].serial
        /\ styled'[c] = [serial |-> deferred'[c].serial, final |-> deferred'[c].reduced]
    BY <1>4, <2>1, <2>2, <2>3
  <2> QED
    BY <1>14, <2>1, <2>3, <2>4, <2>5 DEF ChannelSound, DeferredRests, EndShown
<1>15. ASSUME NEW c \in moving, ~deferring' PROVE ChannelSound(c)'
  <2>1. c \in starting /\ c \in MotionChannels /\ c \in gone
    BY <1>2, <1>15 DEF starting
  <2>2. deferred'[c] = Idle /\ declared'[c].motion # Still
    BY <1>1, <1>3, <1>8, <1>15, <2>1
  <2>3. CASE RunsAs(declared'[c], playing'[c]) /\ HasFrameTask(c)'
    <3>1. MotionMoves(c)' /\ ~Rests(c)'
      BY <2>3 DEF MotionMoves, HasFrameTask, Rests, TasksOn
    <3> QED
      BY <2>2, <3>1 DEF ChannelSound, DeferredRests, EndShown
  <2>4. CASE Rests(c)' /\ styled'[c] = [serial |-> declared'[c].serial, final |-> TRUE]
    BY <2>2, <2>4 DEF ChannelSound, DeferredRests, EndShown
  <2> QED
    BY <1>10, <2>1, <2>3, <2>4
<1>16. ASSUME NEW c \in gone, c \notin moving PROVE ChannelSound(c)'
  <2>1. Rests(c)' /\ styled'[c] = Unstyled /\ c \in MotionChannels
    BY <1>2, <1>7, <1>10, <1>16
  <2>2. deferred'[c] = Idle /\ declared'[c].motion = Still
    BY <1>1, <1>3, <1>8, <1>16, <2>1
  <2> QED
    BY <2>1, <2>2 DEF ChannelSound, DeferredRests, EndShown
<1> QED
  BY <1>2, <1>5, <1>12, <1>13, <1>14, <1>15, <1>16 DEF MotionInv

\* What was deferred starts with the signal, unless motion was reduced when it was prepared.
LEMMA ActivateStep == ASSUME MotionInv, ActivateDeferred PROVE MotionInv'
<1> DEFINE starting == {c \in MotionChannels : deferred[c] # Idle /\ ~deferred[c].reduced}
<1>1. /\ deferring /\ deferring' = FALSE
      /\ UNCHANGED <<declared, reduced, motionRenders, overrun>>
      /\ deferred' = [c \in MotionChannels |-> Idle]
      /\ Restart({}, starting, styled)
  BY DEF ActivateDeferred
<1>2. \A c \in MotionChannels : ChannelSound(c)
  BY DEF MotionInv
<1>3. \A c \in starting : /\ declared'[c] \in [serial : Serials \ {0}, motion : Motions]
                          /\ Rests(c)
  BY <1>1, <1>2 DEF MotionInv, MotionTyped, ChannelSound, DeferredRests
<1>4. starting \in SUBSET MotionChannels
  OBVIOUS
<1>5. \A c \in MotionChannels : c \in starting \/ deferred[c] = Idle \/ deferred[c].reduced
  OBVIOUS
<1> HIDE DEF starting
<1> DEFINE taskTypes == [channel : MotionChannels, serial : Serials, step : Nat,
                         left : Nat \ {0}, begun : BOOLEAN]
<1>6. /\ \A c \in starting : \/ RunsAs(declared'[c], playing'[c]) /\ HasFrameTask(c)'
                             \/ Rests(c)' /\ styled'[c] = [serial |-> declared'[c].serial, final |-> TRUE]
      /\ \A c \in MotionChannels \ starting : styled'[c] = styled[c]
      /\ \A c \in MotionChannels \ starting :
           playing'[c] = playing[c] /\ TasksOn(c)' = TasksOn(c)
      /\ \A c \in starting :
           styled'[c] = styled[c] \/ styled'[c] \in [serial : Serials, final : BOOLEAN]
      /\ frameTasks' \subseteq taskTypes
  <2> DEFINE none == MotionChannels \ MotionChannels
  <2>1. none = {}
    OBVIOUS
  <2> HIDE DEF none
  <2>2. none \in SUBSET MotionChannels /\ Restart(none, starting, styled)
    BY <1>1, <2>1
  <2>3. \A c \in starting : c \in none \/ Rests(c)
    BY <1>3
  <2>4. /\ \A c \in starting : \/ RunsAs(declared'[c], playing'[c]) /\ HasFrameTask(c)'
                               \/ Rests(c)' /\ styled'[c] = [serial |-> declared'[c].serial, final |-> TRUE]
        /\ \A c \in none \ starting : Rests(c)'
        /\ \A c \in MotionChannels \ starting : styled'[c] = styled[c]
        /\ \A c \in MotionChannels \ (none \cup starting) :
             playing'[c] = playing[c] /\ TasksOn(c)' = TasksOn(c)
        /\ \A c \in starting :
             styled'[c] = styled[c] \/ styled'[c] \in [serial : Serials, final : BOOLEAN]
        /\ frameTasks' \subseteq taskTypes
    BY <1>3, <1>4, <2>2, <2>3, RestartFacts
  <2> QED
    BY <2>1, <2>4
<1>7. MotionTyped'
  <2>1. \A c \in MotionChannels : styled'[c] \in [serial : Serials, final : BOOLEAN]
    BY <1>6 DEF MotionInv, MotionTyped
  <2> QED
    BY <1>1, <1>6, <2>1 DEF MotionInv, MotionTyped
<1>8. \A c \in MotionChannels : deferred'[c] = Idle /\ declared'[c] = declared[c]
  BY <1>1
<1>9. ASSUME NEW c \in starting PROVE ChannelSound(c)'
  <2>1. deferred'[c] = Idle /\ declared'[c].motion # Still
    BY <1>3, <1>4, <1>8, MotionAssumption
  <2>2. CASE RunsAs(declared'[c], playing'[c]) /\ HasFrameTask(c)'
    <3>1. MotionMoves(c)' /\ ~Rests(c)'
      BY <2>2 DEF MotionMoves, HasFrameTask, Rests, TasksOn
    <3> QED
      BY <2>1, <3>1 DEF ChannelSound, DeferredRests, EndShown
  <2>3. CASE Rests(c)' /\ styled'[c] = [serial |-> declared'[c].serial, final |-> TRUE]
    BY <2>1, <2>3 DEF ChannelSound, DeferredRests, EndShown
  <2> QED
    BY <1>6, <2>2, <2>3
<1>10. ASSUME NEW c \in MotionChannels, c \notin starting, deferred[c] # Idle PROVE ChannelSound(c)'
  <2>1. /\ Rests(c) /\ declared[c].motion # Still
        /\ styled[c] = [serial |-> declared[c].serial, final |-> TRUE]
    BY <1>2, <1>5, <1>10 DEF ChannelSound, DeferredRests, Prepared
  <2>2. Rests(c)' /\ styled'[c] = styled[c]
    BY <1>6, <1>10, <2>1 DEF Rests
  <2> QED
    BY <1>8, <2>1, <2>2 DEF ChannelSound, DeferredRests, EndShown
<1>11. ASSUME NEW c \in MotionChannels, c \notin starting, deferred[c] = Idle PROVE ChannelSound(c)'
  <2>1. /\ Rests(c)' <=> Rests(c)
        /\ styled'[c] = styled[c] /\ playing'[c] = playing[c] /\ TasksOn(c)' = TasksOn(c)
    BY <1>6, <1>11 DEF Rests
  <2>2. HasFrameTask(c) => HasFrameTask(c)'
    BY <2>1 DEF HasFrameTask, TasksOn
  <2>3. MotionMoves(c) => MotionMoves(c)'
    BY <1>1, <1>8, <2>1, <2>2 DEF MotionMoves, RunsAs, StepsOf
  <2> QED
    BY <1>1, <1>2, <1>8, <1>11, <2>1, <2>3 DEF ChannelSound, DeferredRests, EndShown
<1> QED
  BY <1>7, <1>9, <1>10, <1>11 DEF MotionInv

\* The preference for reduced motion touches nothing that runs.
LEMMA PreferenceStep == ASSUME MotionInv, PreferenceChanges PROVE MotionInv'
<1>1. UNCHANGED <<declared, playing, frameTasks, deferring, deferred, styled, motionRenders, overrun>>
      /\ reduced' = ~reduced
  BY DEF PreferenceChanges
<1>2. MotionTyped'
  BY <1>1 DEF MotionInv, MotionTyped
<1>3. ASSUME NEW c \in MotionChannels PROVE ChannelSound(c)'
  BY <1>1, ChannelStays DEF MotionInv, TasksOn
<1> QED
  BY <1>2, <1>3 DEF MotionInv

\* A frame moves the tasks that have begun, and each that is due leads its motion on.
LEMMA FrameStep == ASSUME MotionInv, NEW time \in 1..FrameTime, Frame(time) PROVE MotionInv'
<1> DEFINE due  == {t \in frameTasks : t.begun /\ t.left <= time}
           mine(t) == playing[t.channel] # Idle /\ playing[t.channel].serial = t.serial
           next(t) == Advance(playing[t.channel].motion, t.step, playing[t.channel].round)
           that(how) == {t \in due : mine(t) /\ next(t).how = how}
           record(t) == Record(t.serial, playing[t.channel].motion, t.step, next(t))
           taskOf(c) == CHOOSE t \in frameTasks : t.channel = c
           channelsOf(tasks) == {t.channel : t \in tasks}
           moved(t) == [t EXCEPT !.begun = TRUE, !.left = IF t.begun THEN @ - time ELSE @]
           led(t) == Task(t.channel, record(t))
           taskTypes == [channel : MotionChannels, serial : Serials, step : Nat,
                         left : Nat \ {0}, begun : BOOLEAN]
<1>1. /\ frameTasks' = {moved(t) : t \in frameTasks \ due} \cup {led(t) : t \in that("runs")}
      /\ styled' = [c \in MotionChannels |->
                      IF c \in channelsOf(frameTasks)
                      THEN [serial |-> taskOf(c).serial, final |-> taskOf(c) \in that("over")]
                      ELSE styled[c]]
      /\ overrun' = overrun \cup channelsOf(that("recurses"))
      /\ UNCHANGED <<declared, reduced, deferring, deferred, motionRenders>>
  BY DEF Frame
<1>2. PICK dropped \in SUBSET channelsOf(that("recurses")) :
        playing' = [c \in MotionChannels |->
                      IF c \in channelsOf(that("runs")) THEN record(taskOf(c))
                      ELSE IF c \in channelsOf(that("over")) \cup dropped THEN Idle
                      ELSE playing[c]]
  BY DEF Frame
<1>3. frameTasks \subseteq taskTypes /\ reduced \in BOOLEAN /\ time \in Nat /\ overrun \subseteq MotionChannels
  BY MotionAssumption DEF MotionInv, MotionTyped
<1>4. ASSUME NEW t \in frameTasks
      PROVE  /\ t.channel \in MotionChannels /\ t \in taskTypes /\ mine(t)
             /\ taskOf(t.channel) = t /\ TasksOn(t.channel) = {t} /\ MotionMoves(t.channel)
             /\ t.serial = playing[t.channel].serial /\ t.step = playing[t.channel].step
  <2>1. /\ t.channel \in MotionChannels /\ t \in taskTypes /\ mine(t)
        /\ TasksOn(t.channel) = {t} /\ MotionMoves(t.channel)
        /\ t.serial = playing[t.channel].serial /\ t.step = playing[t.channel].step
    BY <1>3, TaskFacts
  <2>2. \A u \in frameTasks : u.channel = t.channel => u = t
    BY <2>1 DEF TasksOn
  <2>3. taskOf(t.channel) \in frameTasks /\ taskOf(t.channel).channel = t.channel
    OBVIOUS
  <2> QED
    BY <2>1, <2>2, <2>3
<1> HIDE DEF taskOf
<1>5. ASSUME NEW t \in frameTasks
      PROVE  /\ next(t).how \in {"runs", "over", "recurses"}
             /\ next(t).how = "runs" =>
                  /\ RunsAs(declared[t.channel], record(t)) /\ led(t) \in taskTypes
                  /\ led(t).channel = t.channel /\ led(t).serial = record(t).serial
                  /\ led(t).step = record(t).step
  <2>1. PICK c \in MotionChannels : c = t.channel
    BY <1>4
  <2>2. /\ playing[c] \in [serial : Serials \ {0}, motion : Motions, step : Nat, round : Nat, tween : Nat]
        /\ playing[c].motion = declared[c].motion /\ playing[c].serial = declared[c].serial
        /\ playing[c].round \in 0..playing[c].motion.rounds /\ t.serial = playing[c].serial
        /\ t.step \in Nat
    BY <1>4, <2>1 DEF MotionMoves, RunsAs
  <2>3. PICK m \in Motions : m = playing[c].motion
    BY <2>2
  <2>4. PICK n : n = Advance(m, t.step, playing[c].round)
    OBVIOUS
  <2>5. /\ n.how \in {"runs", "over", "recurses"}
        /\ n.how = "runs" => /\ n.step \in StepsOf(m) /\ n.step \in Nat /\ m.steps[n.step] \in Nat \ {0}
                             /\ n.round \in 0..m.rounds
    BY <1>3, <2>2, <2>3, <2>4, AdvanceFacts
  <2>6. next(t) = n
    BY <2>1, <2>3, <2>4
  <2>7. record(t) = [serial |-> t.serial, motion |-> m, step |-> n.step, round |-> n.round,
                     tween |-> n.step]
    <3> HIDE DEF next
    <3> QED
      BY <2>1, <2>3, <2>6 DEF Record, TweenAfter
  <2> HIDE DEF record, next
  <2>8. led(t) = [channel |-> c, serial |-> t.serial, step |-> n.step, left |-> m.steps[n.step],
                  begun |-> FALSE]
    <3>1. record(t).serial = t.serial /\ record(t).step = n.step /\ record(t).motion = m
      BY <2>7
    <3> QED
      BY <2>1, <3>1 DEF Task
  <2> HIDE DEF led
  <2>9. ASSUME n.how = "runs" PROVE RunsAs(declared[c], record(t)) /\ led(t) \in taskTypes
    <3>1. n.round \in Nat
      BY <2>5, <2>9, MotionAssumption
    <3>2. t.serial \in Serials \ {0}
      BY <2>2
    <3> QED
      BY <2>2, <2>3, <2>5, <2>7, <2>8, <2>9, <3>1, <3>2 DEF RunsAs
  <2> QED
    BY <2>1, <2>5, <2>6, <2>7, <2>8, <2>9
<1>6. ASSUME NEW t \in frameTasks, t \notin due
      PROVE  /\ moved(t) \in taskTypes /\ moved(t).channel = t.channel
             /\ moved(t).serial = t.serial /\ moved(t).step = t.step
  <2>1. t \in taskTypes /\ ~(t.begun /\ t.left <= time)
    BY <1>4, <1>6
  <2>2. (IF t.begun THEN t.left - time ELSE t.left) \in Nat \ {0}
    BY <1>3, <2>1
  <2>3. moved(t) = [channel |-> t.channel, serial |-> t.serial, step |-> t.step,
                    left |-> IF t.begun THEN t.left - time ELSE t.left, begun |-> TRUE]
    <3>1. moved(t) = [t EXCEPT !.begun = TRUE, !.left = IF t.begun THEN t.left - time ELSE t.left]
      <4> HIDE DEF taskTypes
      <4> QED
        OBVIOUS
    <3> HIDE DEF moved
    <3>2. t = [channel |-> t.channel, serial |-> t.serial, step |-> t.step, left |-> t.left, begun |-> t.begun]
      BY <2>1
    <3> QED
      BY <3>1, <3>2
  <2> QED
    BY <2>1, <2>2, <2>3
<1>7. /\ \A t : t \in due => t \in frameTasks
      /\ \A t, how : t \in that(how) <=> t \in due /\ next(t).how = how
  <2>1. \A t \in due : mine(t)
    BY <1>4
  <2> QED
    BY <2>1
<1>8. \A c, tasks : c \in channelsOf(tasks) <=> \E t \in tasks : t.channel = c
  OBVIOUS
<1> HIDE DEF due, mine, next, that, record, channelsOf, moved, led, taskTypes
<1>9. frameTasks' \subseteq taskTypes
  BY <1>1, <1>5, <1>6, <1>7
<1>10. ASSUME NEW c \in MotionChannels
       PROVE  \A t : t \in TasksOn(c)' <=>
                \/ \E u \in TasksOn(c) : u \notin due /\ t = moved(u)
                \/ \E u \in TasksOn(c) : u \in that("runs") /\ t = led(u)
  <2>1. \A t : t \in TasksOn(c)' <=> t \in frameTasks' /\ t.channel = c
    BY DEF TasksOn
  <2>2. \A t : t \in TasksOn(c) <=> t \in frameTasks /\ t.channel = c
    BY DEF TasksOn
  <2>3. \A u \in that("runs") : u \in frameTasks /\ led(u).channel = u.channel
    BY <1>5, <1>7
  <2>4. \A u \in frameTasks : u \notin due => moved(u).channel = u.channel
    BY <1>6
  <2>5. \A t : t \in frameTasks' <=> (\E u \in frameTasks \ due : t = moved(u)) \/ \E u \in that("runs") : t = led(u)
    BY <1>1
  <2> QED
    BY <2>1, <2>2, <2>3, <2>4, <2>5
<1>11. \A c \in MotionChannels : ChannelSound(c)
  BY DEF MotionInv
\* a channel without a task
<1>12. ASSUME NEW c \in MotionChannels, TasksOn(c) = {}
       PROVE  ChannelSound(c)' /\ styled'[c] = styled[c]
  <2>1. \A t \in frameTasks : t.channel # c
    BY <1>12 DEF TasksOn
  <2>2. c \notin channelsOf(frameTasks) /\ \A how : c \notin channelsOf(that(how))
    BY <1>7, <1>8, <2>1
  <2>3. playing'[c] = playing[c] /\ styled'[c] = styled[c] /\ (c \in overrun' <=> c \in overrun)
    BY <1>1, <1>2, <2>2
  <2>4. TasksOn(c)' = TasksOn(c)
    BY <1>10, <1>12
  <2> QED
    BY <1>1, <1>11, <2>3, <2>4, ChannelStays
\* a channel with a task
<1>13. ASSUME NEW c \in MotionChannels, NEW t \in frameTasks, TasksOn(c) = {t}
       PROVE  ChannelSound(c)' /\ styled'[c] \in [serial : Serials, final : BOOLEAN]
  <2>1. /\ t.channel = c /\ t \in taskTypes /\ taskOf(c) = t /\ MotionMoves(c)
        /\ t.serial = playing[c].serial /\ t.step = playing[c].step
    <3>1. t.channel = c
      BY <1>13 DEF TasksOn
    <3> QED
      BY <1>4, <3>1
  <2>2. \A u \in frameTasks : u.channel = c => u = t
    BY <1>13 DEF TasksOn
  <2>3. \A how : c \in channelsOf(that(how)) <=> t \in that(how)
    BY <1>7, <1>8, <2>1, <2>2
  <2>4. c \in channelsOf(frameTasks)
    BY <1>8, <2>1
  <2>5. styled'[c] = [serial |-> t.serial, final |-> t \in that("over")]
    BY <1>1, <2>1, <2>4
  <2>6. styled'[c] \in [serial : Serials, final : BOOLEAN]
    BY <2>1, <2>5 DEF taskTypes
  <2>7. playing[c] # Idle /\ ~Rests(c) /\ declared[c].motion \in Motions /\ playing[c].serial = declared[c].serial
    BY <2>1 DEF MotionMoves, RunsAs, Idle, Rests
  <2>8. deferred'[c] = Idle /\ declared'[c] = declared[c]
    BY <1>1, <1>11, <2>7 DEF ChannelSound, DeferredRests
  <2>9. DeferredRests(c)'
    BY <2>8 DEF DeferredRests
  <2>10. CASE t \notin due
    <3>1. TasksOn(c)' = {moved(t)}
      BY <1>7, <1>10, <1>13, <2>10
    <3>2. moved(t) \in frameTasks' /\ moved(t).serial = t.serial /\ moved(t).step = t.step
      BY <1>1, <1>6, <2>10
    <3>3. playing'[c] = playing[c]
      BY <1>2, <1>7, <2>3, <2>10
    <3>4. HasFrameTask(c)'
      BY <2>1, <3>1, <3>2, <3>3 DEF HasFrameTask
    <3>5. MotionMoves(c)' /\ ~Rests(c)'
      BY <2>1, <2>7, <2>8, <3>3, <3>4 DEF MotionMoves, Rests, RunsAs, StepsOf
    <3> QED
      BY <2>6, <2>9, <3>5 DEF ChannelSound, EndShown
  <2>11. CASE t \in that("runs")
    <3>1. TasksOn(c)' = {led(t)}
      BY <1>7, <1>10, <1>13, <2>11
    <3>2. /\ led(t) \in frameTasks' /\ led(t).serial = record(t).serial /\ led(t).step = record(t).step
          /\ RunsAs(declared[c], record(t))
      BY <1>1, <1>5, <1>7, <2>1, <2>11
    <3>3. playing'[c] = record(t)
      BY <1>2, <2>1, <2>3, <2>11
    <3>4. HasFrameTask(c)'
      BY <3>1, <3>2, <3>3 DEF HasFrameTask
    <3>5. MotionMoves(c)' /\ ~Rests(c)'
      BY <2>8, <3>1, <3>2, <3>3, <3>4 DEF MotionMoves, Rests
    <3> QED
      BY <2>6, <2>9, <3>5 DEF ChannelSound, EndShown
  <2>12. CASE t \in that("over")
    <3>1. TasksOn(c)' = {} /\ t \notin that("runs")
      BY <1>7, <1>10, <1>13, <2>12
    <3>2. playing'[c] = Idle
      BY <1>2, <2>3, <2>12, <3>1
    <3>3. Rests(c)' /\ styled'[c] = [serial |-> declared[c].serial, final |-> TRUE]
      BY <2>1, <2>5, <2>7, <2>12, <3>1, <3>2 DEF Rests
    <3> QED
      BY <2>6, <2>7, <2>8, <2>9, <3>3, MotionAssumption DEF ChannelSound, EndShown
  <2>13. CASE t \in that("recurses")
    <3>1. TasksOn(c)' = {} /\ t \notin that("runs") /\ t \notin that("over") /\ c \in overrun'
      BY <1>1, <1>7, <1>10, <1>13, <2>3, <2>13
    <3>2. playing'[c] = Idle \/ playing'[c] = playing[c]
      BY <1>2, <2>3, <3>1
    <3>3. Rests(c)' \/ MotionMoves(c)'
      BY <2>1, <2>8, <3>1, <3>2 DEF Rests, MotionMoves, RunsAs, StepsOf
    <3> QED
      BY <2>6, <2>9, <3>1, <3>3 DEF ChannelSound, EndShown
  <2> QED
    BY <1>5, <1>7, <2>10, <2>11, <2>12, <2>13
<1>14. ASSUME NEW c \in MotionChannels PROVE TasksOn(c) = {} \/ \E t \in frameTasks : TasksOn(c) = {t}
  BY <1>11 DEF ChannelSound, Rests, MotionMoves, HasFrameTask
<1>15. overrun' \subseteq MotionChannels
  BY <1>1, <1>3, <1>4, <1>7, <1>8
<1>16. MotionTyped'
  <2>1. \A c \in MotionChannels : styled'[c] \in [serial : Serials, final : BOOLEAN]
    BY <1>12, <1>13, <1>14 DEF MotionInv, MotionTyped
  <2> QED
    BY <1>1, <1>9, <1>15, <2>1 DEF MotionInv, MotionTyped, taskTypes
<1> QED
  BY <1>12, <1>13, <1>14, <1>16 DEF MotionInv

\* The strengthening, in every state.
LEMMA MotionInductive == MotionSpec => []MotionInv
<1>1. ASSUME MotionInv, [MotionNext]_motionVars PROVE MotionInv'
  <2>1. CASE UNCHANGED motionVars
    <3>1. MotionTyped'
      BY <1>1, <2>1 DEF MotionInv, MotionTyped, motionVars
    <3>2. ASSUME NEW c \in MotionChannels PROVE ChannelSound(c)'
      BY <1>1, <2>1, ChannelStays DEF MotionInv, motionVars, TasksOn
    <3> QED
      BY <3>1, <3>2 DEF MotionInv
  <2>2. CASE MotionNext
    BY <1>1, <2>2, RenderStep, ActivateStep, PreferenceStep, FrameStep DEF MotionNext
  <2> QED
    BY <1>1, <2>1, <2>2
<1> QED
  BY <1>1, MotionStarts, PTL DEF MotionSpec

\* The declarations, the motions and their tasks keep their types, whatever is rendered
\* and whatever the frames are (motion-renderer-session.mjs, motion-runtime.mjs).
THEOREM MotionTypeCorrect == MotionSpec => []MotionTypeOK
BY MotionInductive, MotionSettledAs, PTL

\* A motion that was replaced or left the tree writes no style any more, what runs or
\* waits is what the tree declares, and a channel at rest shows the end of its motion.
THEOREM MotionIsDeclared == MotionSpec => []MotionHolds
BY MotionInductive, MotionSettledAs, PTL
-----------------------------------------------------------------------------
(* Previews. *)

\* What holds at first and is kept at each node holds at last.
LEMMA NodesDone ==
  ASSUME NEW v, NEW step, NEW P, <<0, v>> \in P,
         \A n \in 1..Images : \A x : <<n - 1, x>> \in P => <<n, step[n][x]>> \in P
  PROVE  <<Images, ByNodes(step, v)>> \in P
PROOF
<1> DEFINE N == Images
           after[n \in 0..N] == IF n = 0 THEN v ELSE step[n][after[n - 1]]
<1>1. N \in Nat /\ N \in 0..N
  BY PreviewsAssumption
<1>2. ByNodes(step, v) = after[N]
  BY DEF ByNodes
<1> HIDE DEF N
<1>3. PICK f : f = [i \in 0..N |-> f[i]] /\ f[0] = v /\ \A m \in 1..N : f[m] = step[m][f[m - 1]]
  <2>1. \E f : Stepped(f, step, v, N)
    BY <1>1, StepsExist
  <2> QED
    BY <2>1 DEF Stepped
<1>4. f = [n \in 0..N |-> IF n = 0 THEN v ELSE step[n][f[n - 1]]]
  <2>1. \A n \in 0..N : f[n] = IF n = 0 THEN v ELSE step[n][f[n - 1]]
    <3>1. f[0] = v /\ \A m \in 1..N : f[m] = step[m][f[m - 1]]
      BY <1>3
    <3>2. \A n \in 0..N : n = 0 \/ n \in 1..N
      BY <1>1
    <3>3. \A n \in 1..N : n # 0
      BY <1>1
    <3> QED
      BY <3>1, <3>2, <3>3
  <2> QED
    BY <1>3, <2>1
<1>5. after = [n \in 0..N |-> IF n = 0 THEN v ELSE step[n][after[n - 1]]]
  BY <1>4
<1> HIDE DEF after
<1>6. after[0] = v /\ \A n \in 1..N : n - 1 \in 0..N /\ after[n] = step[n][after[n - 1]]
  BY <1>1, <1>5
<1> DEFINE Bad == {n \in 0..N : <<n, after[n]>> \notin P}
<1>7. Bad = {}
  <2> SUFFICES ASSUME Bad # {} PROVE FALSE
    OBVIOUS
  <2>1. PICK n \in Bad : \A m \in Bad : n <= m
    <3>1. Bad \in SUBSET Nat
      BY <1>1
    <3> HIDE DEF Bad
    <3> QED
      BY <3>1, LeastNumber
  <2>2. n \in 0..N /\ <<n, after[n]>> \notin P
    BY <2>1
  <2>3. n \in 1..N /\ n - 1 \in 0..N
    BY <1>1, <1>6, <2>2
  <2>4. n - 1 \notin Bad
    <3> HIDE DEF Bad
    <3> QED
      BY <1>1, <2>1, <2>3
  <2>5. <<n - 1, after[n - 1]>> \in P
    BY <2>3, <2>4
  <2>6. after[n] = step[n][after[n - 1]]
    BY <1>6, <2>3
  <2>7. <<n, step[n][after[n - 1]]>> \in P
    BY <2>3, <2>5 DEF N
  <2> QED
    BY <2>2, <2>6, <2>7
<1> QED
  BY <1>1, <1>2, <1>7 DEF N

\* What the content's tables say of each other: a kept selection's URL is the cached one, and
\* the URLs that are live are those of kept selections.
UrlsAgree(c) ==
  /\ \A p \in Previews : /\ p \in c.kept => c.url[p] = c.entry[p]
                         /\ p \notin c.kept => c.url[p] = 0
                         /\ c.url[p] # 0 => <<p, c.url[p]>> \in c.live
                         /\ c.entry[p] <= c.made[p]
  /\ \A u \in c.live : c.url[u[1]] = u[2]

\* An entry has as many owners as nodes show its URL, if the nodes show s.
Shown(s, p, k) == {n \in 1..Images : s[n] = <<p, k>>}
Owned(c, s) ==
  \A p \in Previews : c.entry[p] # 0 => c.owners[p] = Cardinality(Shown(s, p, c.entry[p]))

ShownUrls == [1..Images -> Urls \cup {NoUrl}]
Showing(s, n, u) == [s EXCEPT ![n] = u]

\* Content is its fields.
LEMMA ContentFacts ==
  ASSUME NEW c
  PROVE  c \in Content <=>
           /\ c = [kept |-> c.kept, url |-> c.url, made |-> c.made, live |-> c.live,
                   entry |-> c.entry, owners |-> c.owners]
           /\ c.kept \subseteq Previews /\ c.live \subseteq Urls
           /\ c.url \in [Previews -> Nat] /\ c.made \in [Previews -> Nat]
           /\ c.entry \in [Previews -> Nat] /\ c.owners \in [Previews -> Nat]
BY DEF Content

\* URLs are pairs of a preview and a number other than 0.
LEMMA UrlFacts ==
  /\ \A u \in Urls : /\ u = <<u[1], u[2]>> /\ u # NoUrl
                     /\ u[1] \in Previews /\ u[2] \in Nat /\ u[2] # 0
  /\ \A p \in Previews, k \in Nat : k # 0 => <<p, k>> \in Urls
  /\ NoUrl \notin Urls /\ \A p, k : k # 0 => <<p, k>> # NoUrl
BY DEF Urls, NoUrl

\* The nodes that show a URL are finitely many.
LEMMA ShownFacts ==
  ASSUME NEW s, NEW p, NEW k
  PROVE  IsFiniteSet(Shown(s, p, k)) /\ Cardinality(Shown(s, p, k)) \in Nat
PROOF
<1>1. Images \in Nat /\ IsFiniteSet(1..Images)
  BY PreviewsAssumption, FS_Interval
<1>2. Shown(s, p, k) \in SUBSET (1..Images)
  BY DEF Shown
<1> QED
  BY <1>1, <1>2, FS_Subset, FS_CardinalityType

\* One node less or more that shows the URL.
LEMMA ShownWith ==
  ASSUME NEW s \in ShownUrls, NEW n \in 1..Images, NEW u \in Urls \cup {NoUrl}, NEW p, NEW k, k # 0
  PROVE  /\ s[n] = <<p, k>> /\ u # <<p, k>> =>
              Cardinality(Shown(Showing(s, n, u), p, k)) = Cardinality(Shown(s, p, k)) - 1
         /\ s[n] # <<p, k>> /\ u = <<p, k>> =>
              Cardinality(Shown(Showing(s, n, u), p, k)) = Cardinality(Shown(s, p, k)) + 1
         /\ (s[n] = <<p, k>> <=> u = <<p, k>>) => Shown(Showing(s, n, u), p, k) = Shown(s, p, k)
         /\ Showing(s, n, u) \in ShownUrls
PROOF
<1> DEFINE A == Shown(s, p, k)
           B == Shown(Showing(s, n, u), p, k)
<1>1. /\ Showing(s, n, u) \in ShownUrls /\ Showing(s, n, u)[n] = u
      /\ \A m \in 1..Images : m # n => Showing(s, n, u)[m] = s[m]
  BY DEF Showing, ShownUrls
<1>2. IsFiniteSet(A) /\ Cardinality(A) \in Nat
  BY ShownFacts
<1>3. CASE s[n] = <<p, k>> /\ u # <<p, k>>
  <2>1. B = A \ {n} /\ n \in A
    BY <1>1, <1>3 DEF Shown
  <2> HIDE DEF A, B
  <2>2. Cardinality(A \ {n}) = Cardinality(A) - 1
    BY <1>2, <2>1, FS_RemoveElement
  <2> QED
    BY <1>1, <1>3, <2>1, <2>2 DEF A, B
<1>4. CASE s[n] # <<p, k>> /\ u = <<p, k>>
  <2>1. B = A \cup {n} /\ n \notin A
    BY <1>1, <1>4 DEF Shown
  <2> HIDE DEF A, B
  <2>2. Cardinality(A \cup {n}) = Cardinality(A) + 1
    BY <1>2, <2>1, FS_AddElement
  <2> QED
    BY <1>1, <1>4, <2>1, <2>2 DEF A, B
<1>5. CASE s[n] = <<p, k>> <=> u = <<p, k>>
  BY <1>1, <1>5 DEF Shown
<1> QED
  BY <1>1, <1>3, <1>4, <1>5

\* Dropping selections leaves the registry alone.
LEMMA DropFacts ==
  ASSUME NEW c \in Content, UrlsAgree(c), NEW ps \in SUBSET c.kept
  PROVE  LET d == Drop(c, ps) IN
         /\ d \in Content /\ UrlsAgree(d) /\ d.kept = c.kept \ ps
         /\ d.made = c.made /\ d.entry = c.entry /\ d.owners = c.owners
PROOF
<1> DEFINE d == Drop(c, ps)
<1>1. /\ c.kept \subseteq Previews /\ c.url \in [Previews -> Nat] /\ c.live \subseteq Urls
      /\ ps \subseteq Previews
  BY ContentFacts
<1>2. /\ d = [kept |-> d.kept, url |-> d.url, made |-> d.made, live |-> d.live,
              entry |-> d.entry, owners |-> d.owners]
      /\ d.kept = c.kept \ ps /\ d.made = c.made /\ d.entry = c.entry /\ d.owners = c.owners
      /\ d.live = c.live \ {<<p, c.url[p]>> : p \in ps}
      /\ d.url = [p \in Previews |-> IF p \in ps THEN 0 ELSE c.url[p]]
  <2>1. c = [kept |-> c.kept, url |-> c.url, made |-> c.made, live |-> c.live,
             entry |-> c.entry, owners |-> c.owners]
    BY ContentFacts
  <2>2. d = [kept |-> c.kept \ ps, url |-> [p \in Previews |-> IF p \in ps THEN 0 ELSE c.url[p]],
             made |-> c.made, live |-> c.live \ {<<p, c.url[p]>> : p \in ps},
             entry |-> c.entry, owners |-> c.owners]
    <3> DEFINE dead == {<<p, c.url[p]>> : p \in ps}
               urls == [p \in Previews |-> IF p \in ps THEN 0 ELSE c.url[p]]
    <3>1. d = [c EXCEPT !.kept = @ \ ps, !.live = @ \ dead, !.url = urls]
      BY <2>1 DEF Drop
    <3> HIDE DEF dead, urls, d
    <3>2. d = [kept |-> c.kept \ ps, url |-> urls, made |-> c.made, live |-> c.live \ dead,
               entry |-> c.entry, owners |-> c.owners]
      BY <2>1, <3>1
    <3> QED
      BY <3>2 DEF dead, urls
  <2> HIDE DEF d
  <2> QED
    BY <2>2
<1> HIDE DEF d
<1>3. d \in Content
  <2>1. d.url \in [Previews -> Nat]
    BY <1>1, <1>2
  <2> QED
    BY <1>2, <2>1, ContentFacts
<1>4. UrlsAgree(d)
  <2>1. ASSUME NEW p \in Previews
        PROVE  /\ p \in d.kept => d.url[p] = d.entry[p]
               /\ p \notin d.kept => d.url[p] = 0
               /\ d.url[p] # 0 => <<p, d.url[p]>> \in d.live
               /\ d.entry[p] <= d.made[p]
    BY <1>1, <1>2 DEF UrlsAgree
  <2>2. ASSUME NEW u \in d.live PROVE d.url[u[1]] = u[2]
    <3>1. u \in c.live /\ c.url[u[1]] = u[2] /\ u = <<u[1], u[2]>> /\ u[1] \in Previews
      BY <1>1, <1>2, UrlFacts DEF UrlsAgree
    <3>2. u[1] \notin ps
      BY <1>2, <3>1
    <3> QED
      BY <1>2, <3>1, <3>2
  <2> QED
    BY <2>1, <2>2 DEF UrlsAgree
<1> QED
  BY <1>2, <1>3, <1>4 DEF d

\* After prune, one more fits.
LEMMA PruneFits ==
  ASSUME NEW c \in Content, UrlsAgree(c), IsFiniteSet(c.kept), pickedAs \in [Previews -> Nat]
  PROVE  LET d == Prune(c) IN
         /\ d \in Content /\ UrlsAgree(d) /\ d.kept \subseteq c.kept
         /\ d.made = c.made /\ d.entry = c.entry /\ d.owners = c.owners
         /\ IsFiniteSet(d.kept) /\ Cardinality(d.kept) \in Nat
         /\ Cardinality(d.kept) < MaxSelections
PROOF
<1> DEFINE fresh == c.kept \ old
           since(p) == {q \in fresh : pickedAs[q] >= pickedAs[p]}
           stay == {p \in fresh : Cardinality(since(p)) < MaxSelections}
           d == Prune(c)
<1>1. c.kept \ stay \in SUBSET c.kept /\ d = Drop(c, c.kept \ stay)
  BY DEF Prune
<1>2. stay \subseteq fresh /\ fresh \subseteq c.kept /\ c.kept \ (c.kept \ stay) = stay
      /\ c.kept \subseteq Previews
  BY ContentFacts
<1>3. \A p \in stay : Cardinality(since(p)) < MaxSelections
  OBVIOUS
<1> HIDE DEF stay, d
<1>4. /\ d \in Content /\ UrlsAgree(d) /\ d.kept = stay
      /\ d.made = c.made /\ d.entry = c.entry /\ d.owners = c.owners
  BY <1>1, <1>2, DropFacts
<1>5. IsFiniteSet(fresh) /\ IsFiniteSet(stay) /\ Cardinality(stay) \in Nat
  <2>1. fresh \in SUBSET c.kept /\ stay \in SUBSET c.kept
    BY <1>2
  <2> HIDE DEF fresh
  <2> QED
    BY <2>1, FS_Subset, FS_CardinalityType
<1> HIDE DEF fresh
<1>6. Cardinality(stay) < MaxSelections
  <2>1. CASE stay = {}
    BY <2>1, FS_EmptySet, PreviewsAssumption
  <2>2. CASE stay # {}
    <3> DEFINE nums == {pickedAs[p] : p \in stay}
    <3>1. nums \in SUBSET Nat /\ nums # {}
      BY <1>2, <2>2
    <3>2. PICK x \in nums : \A y \in nums : x <= y
      <4> HIDE DEF nums
      <4> QED
        BY <3>1, LeastNumber
    <3>3. PICK p \in stay : pickedAs[p] = x
      OBVIOUS
    <3>4. \A q \in stay : pickedAs[q] \in Nat /\ pickedAs[p] <= pickedAs[q]
      BY <1>2, <3>2, <3>3
    <3>5. stay \in SUBSET since(p) /\ since(p) \in SUBSET fresh
      BY <1>2, <3>3, <3>4
    <3>6. Cardinality(since(p)) < MaxSelections
      BY <1>3
    <3> HIDE DEF since
    <3>7. /\ IsFiniteSet(since(p)) /\ Cardinality(since(p)) \in Nat
          /\ Cardinality(stay) <= Cardinality(since(p))
      BY <1>5, <3>5, FS_Subset, FS_CardinalityType
    <3> QED
      BY <1>5, <3>6, <3>7, PreviewsAssumption
  <2> QED
    BY <2>1, <2>2
<1> QED
  BY <1>2, <1>4, <1>5, <1>6 DEF d

\* Resolving gives a preview a URL that was never used, unless it has one; others keep theirs.
LEMMA ResolveFacts ==
  ASSUME NEW c \in Content, UrlsAgree(c), IsFiniteSet(c.kept), pickedAs \in [Previews -> Nat],
         NEW p \in Previews
  PROVE  LET d == Resolve(c, p) IN
         /\ d \in Content /\ UrlsAgree(d) /\ d.kept \subseteq c.kept
         /\ \A q \in Previews : c.made[q] <= d.made[q]
         /\ \A q \in Previews : (q # p \/ c.entry[p] # 0 \/ d.entry[p] = 0) =>
                                  d.entry[q] = c.entry[q] /\ d.owners[q] = c.owners[q]
         /\ c.entry[p] = 0 /\ d.entry[p] # 0 =>
              p \in c.kept /\ d.entry[p] > c.made[p] /\ d.owners[p] = 0
PROOF
<1> DEFINE d == Resolve(c, p)
           e == Prune(c)
<1>0. /\ c.kept \subseteq Previews /\ c.made \in [Previews -> Nat] /\ c.entry \in [Previews -> Nat]
      /\ c.owners \in [Previews -> Nat]
  BY ContentFacts
<1>1. /\ e \in Content /\ UrlsAgree(e) /\ e.kept \subseteq c.kept
      /\ e.made = c.made /\ e.entry = c.entry /\ e.owners = c.owners
  <2> HIDE DEF e
  <2> QED
    BY PruneFits DEF e
<1>2. CASE c.entry[p] # 0
  <2>1. d = c
    BY <1>2 DEF Resolve
  <2> HIDE DEF d
  <2> QED
    BY <1>0, <1>2, <2>1 DEF d
<1>3. CASE c.entry[p] = 0 /\ p \notin e.kept
  <2>1. d = e
    BY <1>3 DEF Resolve
  <2> HIDE DEF d, e
  <2> QED
    BY <1>0, <1>1, <1>3, <2>1 DEF d
<1>4. CASE c.entry[p] = 0 /\ p \in e.kept
  <2> DEFINE k == e.made[p] + 1
  <2>0. /\ e.url \in [Previews -> Nat] /\ e.live \subseteq Urls /\ k \in Nat /\ k > 0 /\ k > c.made[p]
        /\ e.url[p] = 0
    <3> HIDE DEF e
    <3>1. e.url \in [Previews -> Nat] /\ e.live \subseteq Urls
      BY <1>1, ContentFacts
    <3>2. e.url[p] = 0
      BY <1>1, <1>4 DEF UrlsAgree
    <3> QED
      BY <1>0, <1>1, <3>1, <3>2
  <2>1. d = [e EXCEPT !.url[p] = k, !.made[p] = IF k > @ THEN k ELSE @,
                      !.live = @ \cup {<<p, k>>}, !.entry[p] = k, !.owners[p] = 0]
    BY <1>4, <2>0 DEF Resolve
  <2> HIDE DEF d, e
  <2>2. /\ d = [kept |-> d.kept, url |-> d.url, made |-> d.made, live |-> d.live,
              entry |-> d.entry, owners |-> d.owners]
        /\ d.kept = e.kept /\ d.url = [e.url EXCEPT ![p] = k] /\ d.made = [e.made EXCEPT ![p] = k]
        /\ d.live = e.live \cup {<<p, k>>} /\ d.entry = [e.entry EXCEPT ![p] = k]
        /\ d.owners = [e.owners EXCEPT ![p] = 0]
    <3>1. e = [kept |-> e.kept, url |-> e.url, made |-> e.made, live |-> e.live,
               entry |-> e.entry, owners |-> e.owners]
      BY <1>1, ContentFacts
    <3>2. d = [kept |-> e.kept, url |-> [e.url EXCEPT ![p] = k],
               made |-> [e.made EXCEPT ![p] = IF k > @ THEN k ELSE @],
               live |-> e.live \cup {<<p, k>>}, entry |-> [e.entry EXCEPT ![p] = k],
               owners |-> [e.owners EXCEPT ![p] = 0]]
      BY <2>1, <3>1
    <3>3. e.made[p] \in Nat
      BY <1>0, <1>1
    <3>4. [e.made EXCEPT ![p] = IF k > @ THEN k ELSE @] = [e.made EXCEPT ![p] = k]
      BY <3>3
    <3> HIDE DEF k
    <3> QED
      BY <3>2, <3>4
  <2> HIDE DEF k
  <2>3. d \in Content
    <3>1. <<p, k>> \in Urls
      BY <2>0, UrlFacts
    <3> QED
      BY <1>0, <1>1, <2>0, <2>2, <3>1, ContentFacts
  <2>4. UrlsAgree(d)
    <3>1. ASSUME NEW q \in Previews
          PROVE  /\ q \in d.kept => d.url[q] = d.entry[q]
                 /\ q \notin d.kept => d.url[q] = 0
                 /\ d.url[q] # 0 => <<q, d.url[q]>> \in d.live
                 /\ d.entry[q] <= d.made[q]
      <4>1. CASE q = p
        BY <1>0, <1>1, <1>4, <2>0, <2>2, <4>1
      <4>2. CASE q # p
        BY <1>0, <1>1, <1>4, <2>0, <2>2, <4>2 DEF UrlsAgree
      <4> QED
        BY <4>1, <4>2
    <3>2. ASSUME NEW u \in d.live PROVE d.url[u[1]] = u[2]
      <4>1. CASE u = <<p, k>>
        BY <2>0, <2>2, <4>1
      <4>2. CASE u \in e.live
        <5>1. u \in Urls /\ u = <<u[1], u[2]>> /\ u[2] # 0 /\ u[1] \in Previews /\ e.url[u[1]] = u[2]
          BY <1>1, <2>0, <4>2, UrlFacts DEF UrlsAgree
        <5> QED
          BY <2>0, <2>2, <5>1
      <4> QED
        BY <2>2, <4>1, <4>2
    <3> QED
      BY <3>1, <3>2 DEF UrlsAgree
  <2> QED
    BY <1>0, <1>1, <1>4, <2>0, <2>2, <2>3, <2>4 DEF d
<1> QED
  BY <1>2, <1>3, <1>4

\* A node lets its URL go: only with its last node is an entry dropped.
LEMMA ReleaseFacts ==
  ASSUME NEW c \in Content, UrlsAgree(c), NEW s \in ShownUrls, Owned(c, s), NEW n \in 1..Images
  PROVE  LET d == Release(c, s[n]) IN
         /\ d \in Content /\ UrlsAgree(d) /\ Owned(d, Showing(s, n, NoUrl))
         /\ d.kept = c.kept /\ d.made = c.made
         /\ \A p \in Previews : d.entry[p] # c.entry[p] =>
              /\ d.entry[p] = 0 /\ s[n] = <<p, c.entry[p]>>
              /\ Cardinality(Shown(s, p, c.entry[p])) = 1
PROOF
<1> DEFINE u == s[n]
           d == Release(c, u)
           t == Showing(s, n, NoUrl)
<1>0. /\ u \in Urls \cup {NoUrl} /\ NoUrl \in Urls \cup {NoUrl}
      /\ c.url \in [Previews -> Nat] /\ c.entry \in [Previews -> Nat]
      /\ c.owners \in [Previews -> Nat] /\ c.live \subseteq Urls
  BY ContentFacts DEF ShownUrls
<1>1. c = [kept |-> c.kept, url |-> c.url, made |-> c.made, live |-> c.live,
           entry |-> c.entry, owners |-> c.owners]
  BY ContentFacts
<1>2. ASSUME NEW p \in Previews, c.entry[p] # 0, u # <<p, c.entry[p]>>
      PROVE  c.owners[p] = Cardinality(Shown(t, p, c.entry[p]))
  <2>1. NoUrl # <<p, c.entry[p]>>
    BY <1>2, UrlFacts
  <2>2. Shown(t, p, c.entry[p]) = Shown(s, p, c.entry[p])
    BY <1>0, <1>2, <2>1, ShownWith
  <2> QED
    BY <1>2, <2>2 DEF Owned
<1>3. CASE ~Known(c, u)
  <2>1. d = c
    BY <1>3 DEF Release
  <2>2. \A p \in Previews : c.entry[p] # 0 => u # <<p, c.entry[p]>>
    BY <1>3, UrlFacts DEF Known
  <2>3. Owned(c, t)
    BY <1>2, <2>2 DEF Owned
  <2> QED
    BY <2>1, <2>3
<1>4. CASE Known(c, u)
  <2> DEFINE p == u[1]
             k == u[2]
  <2>1. u = <<p, k>> /\ p \in Previews /\ k \in Nat /\ k # 0 /\ c.entry[p] = k
    BY <1>0, <1>4, UrlFacts DEF Known
  <2>2. \A q \in Previews : q # p => u # <<q, c.entry[q]>>
    BY <2>1
  <2>3. /\ c.owners[p] = Cardinality(Shown(s, p, k)) /\ c.owners[p] \in Nat
        /\ Cardinality(Shown(t, p, k)) = c.owners[p] - 1
    <3>1. s[n] = <<p, k>> /\ NoUrl # <<p, k>>
      BY <2>1, UrlFacts
    <3>2. Cardinality(Shown(t, p, k)) = Cardinality(Shown(s, p, k)) - 1
      <4> HIDE DEF p, k
      <4> QED
        BY <1>0, <2>1, <3>1, ShownWith
    <3> QED
      BY <1>0, <2>1, <3>2 DEF Owned
  <2>4. c.owners[p] # 0
    <3>1. n \in Shown(s, p, k) /\ IsFiniteSet(Shown(s, p, k))
      <4>1. s[n] = <<p, k>>
        BY <2>1
      <4> HIDE DEF p, k
      <4> QED
        BY <4>1, ShownFacts DEF Shown
    <3> QED
      BY <2>3, <3>1, FS_EmptySet
  <2>5. CASE c.owners[p] > 1
    <3>1. d = [c EXCEPT !.owners[p] = @ - 1]
      BY <1>4, <2>4, <2>5 DEF Release
    <3> HIDE DEF d, p, k, u, t
    <3>2. d = [kept |-> c.kept, url |-> c.url, made |-> c.made, live |-> c.live,
               entry |-> c.entry, owners |-> [c.owners EXCEPT ![p] = @ - 1]]
      BY <1>1, <3>1
    <3>3. [c.owners EXCEPT ![p] = @ - 1] \in [Previews -> Nat]
      BY <1>0, <2>1, <2>3, <2>5
    <3>4. d \in Content
      BY <3>2, <3>3, ContentFacts
    <3>5. UrlsAgree(d)
      BY <3>2 DEF UrlsAgree
    <3>6. ASSUME NEW q \in Previews, d.entry[q] # 0
          PROVE  d.owners[q] = Cardinality(Shown(t, q, d.entry[q]))
      <4>1. CASE q = p
        BY <1>0, <2>1, <2>3, <3>2, <4>1
      <4>2. CASE q # p
        BY <1>0, <1>2, <2>2, <3>2, <3>6, <4>2
      <4> QED
        BY <4>1, <4>2
    <3> QED
      BY <3>2, <3>4, <3>5, <3>6 DEF d, u, t, Owned
  <2>6. CASE c.owners[p] = 1
    <3> DEFINE gone == {<<p, c.url[p]>>}
    <3>1. d = [c EXCEPT !.owners[p] = 0, !.entry[p] = 0, !.url[p] = 0, !.live = @ \ gone]
      BY <1>4, <2>6 DEF Release
    <3> HIDE DEF d, p, k, u, t, gone
    <3>2. d = [kept |-> c.kept, url |-> [c.url EXCEPT ![p] = 0], made |-> c.made,
               live |-> c.live \ gone, entry |-> [c.entry EXCEPT ![p] = 0],
               owners |-> [c.owners EXCEPT ![p] = 0]]
      BY <1>1, <3>1
    <3>3. d \in Content
      BY <1>0, <2>1, <3>2, ContentFacts
    <3>4. UrlsAgree(d)
      <4>1. ASSUME NEW q \in Previews
            PROVE  /\ q \in d.kept => d.url[q] = d.entry[q]
                   /\ q \notin d.kept => d.url[q] = 0
                   /\ d.url[q] # 0 => <<q, d.url[q]>> \in d.live
                   /\ d.entry[q] <= d.made[q]
        <5>0. c.made \in [Previews -> Nat]
          BY ContentFacts
        <5>1. CASE q = p
          BY <1>0, <3>2, <5>0, <5>1
        <5>2. CASE q # p
          BY <1>0, <3>2, <5>2 DEF UrlsAgree, gone
        <5> QED
          BY <5>1, <5>2
      <4>2. ASSUME NEW v \in d.live PROVE d.url[v[1]] = v[2]
        <5>1. v \in c.live /\ v \notin gone /\ c.url[v[1]] = v[2] /\ v = <<v[1], v[2]>>
          BY <1>0, <3>2, UrlFacts DEF UrlsAgree
        <5>2. v[1] # p
          BY <5>1 DEF gone
        <5> QED
          BY <1>0, <3>2, <5>1, <5>2
      <4> QED
        BY <4>1, <4>2 DEF UrlsAgree
    <3>5. Owned(d, t)
      BY <1>0, <1>2, <2>1, <2>2, <3>2 DEF Owned
    <3>6. ASSUME NEW q \in Previews, d.entry[q] # c.entry[q]
          PROVE  /\ d.entry[q] = 0 /\ u = <<q, c.entry[q]>>
                 /\ Cardinality(Shown(s, q, c.entry[q])) = 1
      <4>1. q = p
        BY <1>0, <3>2, <3>6
      <4> QED
        BY <1>0, <2>1, <2>3, <2>6, <3>2, <4>1
    <3> QED
      BY <3>2, <3>3, <3>4, <3>5, <3>6 DEF d, u, t
  <2> QED
    BY <2>3, <2>4, <2>5, <2>6
<1> QED
  BY <1>3, <1>4

\* A node that shows nothing takes a URL: the entry, if it has that URL, has one owner more.
LEMMA RetainFacts ==
  ASSUME NEW c \in Content, UrlsAgree(c), NEW s \in ShownUrls, Owned(c, s), NEW n \in 1..Images,
         s[n] = NoUrl, NEW u \in Urls \cup {NoUrl}
  PROVE  LET d == Retain(c, u) IN
         /\ d \in Content /\ UrlsAgree(d) /\ Owned(d, Showing(s, n, u))
         /\ d.kept = c.kept /\ d.made = c.made /\ d.entry = c.entry
PROOF
<1> DEFINE d == Retain(c, u)
           t == Showing(s, n, u)
<1>0. c.entry \in [Previews -> Nat] /\ c.owners \in [Previews -> Nat]
  BY ContentFacts
<1>2. ASSUME NEW p \in Previews, c.entry[p] # 0, u # <<p, c.entry[p]>>
      PROVE  c.owners[p] = Cardinality(Shown(t, p, c.entry[p]))
  <2>1. NoUrl # <<p, c.entry[p]>>
    BY <1>2, UrlFacts
  <2>2. Shown(t, p, c.entry[p]) = Shown(s, p, c.entry[p])
    <3> DEFINE k == c.entry[p]
    <3>1. k # 0 /\ s[n] # <<p, k>> /\ u # <<p, k>>
      BY <1>2, <2>1
    <3> HIDE DEF k
    <3>2. \A m \in 1..Images : t[m] = <<p, k>> <=> s[m] = <<p, k>>
      BY <3>1 DEF Showing, ShownUrls
    <3> HIDE DEF t
    <3>3. Shown(t, p, k) = Shown(s, p, k)
      BY <3>2 DEF Shown
    <3> QED
      BY <3>3 DEF k
  <2> QED
    BY <1>2, <2>2 DEF Owned
<1>3. CASE ~Known(c, u)
  <2>1. d = c
    BY <1>3 DEF Retain
  <2>2. \A p \in Previews : c.entry[p] # 0 => u # <<p, c.entry[p]>>
    BY <1>3, UrlFacts DEF Known
  <2>3. Owned(c, t)
    BY <1>2, <2>2 DEF Owned
  <2> QED
    BY <2>1, <2>3
<1>4. CASE Known(c, u)
  <2> DEFINE p == u[1]
             k == u[2]
  <2>1. u = <<p, k>> /\ p \in Previews /\ k \in Nat /\ k # 0 /\ c.entry[p] = k
    BY <1>4, UrlFacts DEF Known
  <2>2. \A q \in Previews : q # p => u # <<q, c.entry[q]>>
    BY <2>1
  <2>3. Cardinality(Shown(t, p, k)) = c.owners[p] + 1 /\ c.owners[p] \in Nat
    <3>1. s[n] # <<p, k>>
      BY <2>1, UrlFacts
    <3>2. Cardinality(Shown(t, p, k)) = Cardinality(Shown(s, p, k)) + 1
      <4> HIDE DEF p, k
      <4> QED
        BY <2>1, <3>1, ShownWith
    <3> QED
      BY <1>0, <2>1, <3>2 DEF Owned
  <2>4. d = [c EXCEPT !.owners[p] = @ + 1]
    BY <1>4 DEF Retain
  <2> HIDE DEF d, p, k, t
  <2>5. d = [kept |-> c.kept, url |-> c.url, made |-> c.made, live |-> c.live,
             entry |-> c.entry, owners |-> [c.owners EXCEPT ![p] = @ + 1]]
    <3>1. c = [kept |-> c.kept, url |-> c.url, made |-> c.made, live |-> c.live,
               entry |-> c.entry, owners |-> c.owners]
      BY ContentFacts
    <3> QED
      BY <2>4, <3>1
  <2>6. d \in Content
    <3>1. [c.owners EXCEPT ![p] = @ + 1] \in [Previews -> Nat]
      BY <1>0, <2>1
    <3> QED
      BY <2>5, <3>1, ContentFacts
  <2>7. UrlsAgree(d)
    BY <2>5 DEF UrlsAgree
  <2>8. ASSUME NEW q \in Previews, d.entry[q] # 0
        PROVE  d.owners[q] = Cardinality(Shown(t, q, d.entry[q]))
    <3>1. CASE q = p
      BY <1>0, <2>1, <2>3, <2>5, <3>1
    <3>2. CASE q # p
      BY <1>0, <1>2, <2>2, <2>5, <2>8, <3>2
    <3> QED
      BY <3>1, <3>2
  <2> QED
    BY <2>5, <2>6, <2>7, <2>8 DEF d, t, Owned
<1> QED
  BY <1>3, <1>4

\* The first nodes show what they will, the others what they did.
Halfway(f, g, n) == [k \in 1..Images |-> IF k <= n THEN g[k] ELSE f[k]]

\* From f to g node by node.
LEMMA HalfwayFacts ==
  ASSUME NEW f \in ShownUrls, NEW g \in ShownUrls
  PROVE  /\ Halfway(f, g, 0) = f /\ Halfway(f, g, Images) = g
         /\ \A n \in 0..Images : Halfway(f, g, n) \in ShownUrls
         /\ \A n \in 1..Images : /\ Halfway(f, g, n) = Showing(Halfway(f, g, n - 1), n, g[n])
                                 /\ Halfway(f, g, n - 1)[n] = f[n]
                                 /\ f[n] = g[n] => Halfway(f, g, n) = Halfway(f, g, n - 1)
PROOF
<1>0. Images \in Nat
  BY PreviewsAssumption
<1>1. Halfway(f, g, 0) = f /\ Halfway(f, g, Images) = g
  BY <1>0 DEF Halfway, ShownUrls
<1>2. \A n \in 0..Images : Halfway(f, g, n) \in ShownUrls
  BY DEF Halfway, ShownUrls
<1>3. ASSUME NEW n \in 1..Images
      PROVE  /\ Halfway(f, g, n) = Showing(Halfway(f, g, n - 1), n, g[n])
             /\ Halfway(f, g, n - 1)[n] = f[n]
             /\ f[n] = g[n] => Halfway(f, g, n) = Halfway(f, g, n - 1)
  <2>1. \A k \in 1..Images : k <= n <=> (k = n \/ k <= n - 1)
    BY <1>0
  <2>2. ~(n <= n - 1)
    BY <1>0
  <2> QED
    BY <2>1, <2>2 DEF Halfway, Showing
<1> QED
  BY <1>1, <1>2, <1>3

\* A preview the patches do not drop: none that shows the URL loses it, or one keeps it.
Safe(c, f, g, p) ==
  \/ \A k \in 1..Images : f[k] = <<p, c.entry[p]>> => g[k] = f[k]
  \/ \E k \in 1..Images : f[k] = <<p, c.entry[p]>> /\ g[k] = f[k]

\* What the patches have made of c when the nodes show s, on the way from f to g.
Patched(d, s, c, f, g) ==
  /\ d \in Content /\ UrlsAgree(d) /\ Owned(d, s) /\ d.kept = c.kept /\ d.made = c.made
  /\ \A p \in Previews : d.entry[p] # c.entry[p] => d.entry[p] = 0 /\ ~Safe(c, f, g, p)

\* What is released for a node that changes may have been the last of its preview.
LEMMA PatchReleases ==
  ASSUME NEW c \in Content, NEW f \in ShownUrls, NEW g \in ShownUrls, NEW s \in ShownUrls,
         NEW n \in 1..Images, s[n] = f[n], f[n] # g[n],
         \A k \in 1..Images : f[k] = g[k] => s[k] = f[k],
         NEW d, Patched(d, s, c, f, g)
  PROVE  Patched(Release(d, s[n]), Showing(s, n, NoUrl), c, f, g)
PROOF
<1> DEFINE e == Release(d, s[n])
<1>1. /\ e \in Content /\ UrlsAgree(e) /\ Owned(e, Showing(s, n, NoUrl))
      /\ e.kept = d.kept /\ e.made = d.made
      /\ \A p \in Previews : e.entry[p] # d.entry[p] =>
           e.entry[p] = 0 /\ s[n] = <<p, d.entry[p]>> /\ Cardinality(Shown(s, p, d.entry[p])) = 1
  BY ReleaseFacts DEF Patched
<1>2. \A p \in Previews : d.entry[p] # c.entry[p] => d.entry[p] = 0 /\ ~Safe(c, f, g, p)
  BY DEF Patched
<1>3. ASSUME NEW p \in Previews, e.entry[p] # c.entry[p] PROVE e.entry[p] = 0 /\ ~Safe(c, f, g, p)
  <2>1. CASE e.entry[p] = d.entry[p]
    BY <1>2, <1>3, <2>1
  <2>2. CASE e.entry[p] # d.entry[p] /\ d.entry[p] # c.entry[p]
    BY <1>1, <1>2, <2>2
  <2>3. CASE e.entry[p] # d.entry[p] /\ d.entry[p] = c.entry[p]
    <3>1. e.entry[p] = 0 /\ s[n] = <<p, c.entry[p]>> /\ Cardinality(Shown(s, p, c.entry[p])) = 1
      BY <1>1, <2>3
    <3>2. ASSUME NEW k \in 1..Images, f[k] = <<p, c.entry[p]>>, g[k] = f[k] PROVE FALSE
      <4>1. k # n /\ s[k] = <<p, c.entry[p]>>
        BY <3>1, <3>2
      <4> DEFINE S == Shown(s, p, c.entry[p])
      <4>2. n \in S /\ k \in S
        BY <3>1, <4>1 DEF Shown
      <4> HIDE DEF S
      <4>3. Cardinality(S) = 1 /\ IsFiniteSet(S)
        BY <3>1, ShownFacts DEF S
      <4>4. \E x : S = {x}
        BY <4>3, FS_Singleton
      <4> QED
        BY <4>1, <4>2, <4>4
    <3>3. f[n] = <<p, c.entry[p]>> /\ g[n] # f[n]
      BY <3>1
    <3> QED
      BY <3>1, <3>2, <3>3 DEF Safe
  <2> QED
    BY <2>1, <2>2, <2>3
<1> QED
  BY <1>1, <1>3 DEF Patched

\* What is retained for a node only adds to its owners.
LEMMA PatchRetains ==
  ASSUME NEW c \in Content, NEW f \in ShownUrls, NEW g \in ShownUrls, NEW s \in ShownUrls,
         NEW n \in 1..Images, s[n] = NoUrl, NEW u \in Urls \cup {NoUrl},
         NEW d, Patched(d, s, c, f, g)
  PROVE  Patched(Retain(d, u), Showing(s, n, u), c, f, g)
BY RetainFacts DEF Patched

\* The books are the tree: what is cached was picked, an image of a preview has a URL of that
\* preview, all images of one preview the same, and those that took it from no other one that
\* is cached.
PreviewsInv ==
  /\ PreviewsTypeOK /\ UrlsAgree(content) /\ Owned(content, src)
  /\ IsFiniteSet(picked) /\ content.kept \subseteq picked
  /\ \A p \in Previews : content.entry[p] # 0 => p \in picked
  /\ \A n \in 1..Images :
       IF tree[n] \in Previews
       THEN src[n] \in Urls /\ src[n][1] = tree[n] /\ src[n][2] <= content.made[tree[n]]
       ELSE src[n] = NoUrl
  /\ \A n, k \in 1..Images : tree[n] = tree[k] => src[n] = src[k]
  /\ \A n \in (1..Images) \ lost : tree[n] \in Previews => Known(content, src[n])

\* Resolving some previews made d of c.
Resolved(c, d) ==
  /\ d \in Content /\ UrlsAgree(d) /\ d.kept \subseteq c.kept
  /\ \A p \in Previews :
       /\ c.made[p] <= d.made[p]
       /\ \/ d.entry[p] = c.entry[p] /\ d.owners[p] = c.owners[p]
          \/ /\ c.entry[p] = 0 /\ p \in c.kept /\ d.entry[p] > c.made[p] /\ d.owners[p] = 0

\* Resolving one preview more.
LEMMA ResolvesOn ==
  ASSUME NEW c \in Content, IsFiniteSet(c.kept), pickedAs \in [Previews -> Nat],
         NEW d, Resolved(c, d), NEW p \in Previews
  PROVE  Resolved(c, Resolve(d, p))
PROOF
<1> DEFINE e == Resolve(d, p)
<1>1. d \in Content /\ UrlsAgree(d) /\ d.kept \subseteq c.kept
  BY DEF Resolved
<1>2. d.kept \in SUBSET c.kept
  BY <1>1
<1>3. IsFiniteSet(d.kept)
  BY <1>2, FS_Subset
<1>4. /\ e \in Content /\ UrlsAgree(e) /\ e.kept \subseteq d.kept
      /\ \A q \in Previews : d.made[q] <= e.made[q]
      /\ \A q \in Previews : (q # p \/ d.entry[p] # 0 \/ e.entry[p] = 0) =>
                               e.entry[q] = d.entry[q] /\ e.owners[q] = d.owners[q]
      /\ d.entry[p] = 0 /\ e.entry[p] # 0 =>
           p \in d.kept /\ e.entry[p] > d.made[p] /\ e.owners[p] = 0
  BY <1>1, <1>3, ResolveFacts
<1> HIDE DEF e
<1>5. /\ c.made \in [Previews -> Nat] /\ d.made \in [Previews -> Nat] /\ e.made \in [Previews -> Nat]
      /\ c.entry \in [Previews -> Nat] /\ d.entry \in [Previews -> Nat]
      /\ e.entry \in [Previews -> Nat]
  BY <1>1, <1>4, ContentFacts
<1>6. ASSUME NEW q \in Previews
      PROVE  /\ c.made[q] <= e.made[q]
             /\ \/ e.entry[q] = c.entry[q] /\ e.owners[q] = c.owners[q]
                \/ /\ c.entry[q] = 0 /\ q \in c.kept /\ e.entry[q] > c.made[q] /\ e.owners[q] = 0
  <2>0. /\ c.made[q] \in Nat /\ d.made[q] \in Nat /\ e.made[q] \in Nat
        /\ c.entry[q] \in Nat /\ d.entry[q] \in Nat /\ e.entry[q] \in Nat
    BY <1>5
  <2>1. /\ c.made[q] <= d.made[q] /\ d.made[q] <= e.made[q]
        /\ \/ d.entry[q] = c.entry[q] /\ d.owners[q] = c.owners[q]
           \/ /\ c.entry[q] = 0 /\ q \in c.kept /\ d.entry[q] > c.made[q] /\ d.owners[q] = 0
    BY <1>4 DEF Resolved
  <2>2. \/ e.entry[q] = d.entry[q] /\ e.owners[q] = d.owners[q]
        \/ d.entry[q] = 0 /\ q \in d.kept /\ e.entry[q] > d.made[q] /\ e.owners[q] = 0
    BY <1>4
  <2>3. q \in d.kept => q \in c.kept
    BY <1>1
  <2> QED
    BY <2>0, <2>1, <2>2, <2>3
<1> QED
  BY <1>1, <1>4, <1>6 DEF Resolved, e

\* A tree that could be materialized has a URL for every preview.
LEMMA MaterializedFacts ==
  ASSUME PreviewsInv, NEW to \in Trees
  PROVE  LET m == Materialized(to) IN
         /\ m \in [c : Content, ok : BOOLEAN] /\ Resolved(content, m.c)
         /\ m.ok => \A n \in 1..Images : to[n] \in Previews => m.c.entry[to[n]] # 0
PROOF
<1> DEFINE V == [c : Content, ok : BOOLEAN]
           m0 == [c |-> content, ok |-> TRUE]
           step == [n \in 1..Images |-> [m \in V |->
                      IF ~m.ok \/ to[n] \notin Previews THEN m
                      ELSE LET c == Resolve(m.c, to[n]) IN [c |-> c, ok |-> c.entry[to[n]] # 0]]]
           has(n, m) == /\ Resolved(content, m.c)
                        /\ m.ok => \A k \in 1..n : to[k] \in Previews => m.c.entry[to[k]] # 0
           P == {x \in (0..Images) \X V : has(x[1], x[2])}
<1>0. Images \in Nat
  BY PreviewsAssumption
<1>1. /\ content \in Content /\ pickedAs \in [Previews -> Nat] /\ IsFiniteSet(content.kept)
      /\ UrlsAgree(content) /\ content.made \in [Previews -> Nat]
  <2>1. content.kept \in SUBSET picked /\ IsFiniteSet(picked) /\ content \in Content
    BY DEF PreviewsInv, PreviewsTypeOK
  <2>2. IsFiniteSet(content.kept)
    BY <2>1, FS_Subset
  <2> QED
    BY <2>1, <2>2, ContentFacts DEF PreviewsInv, PreviewsTypeOK
<1>2. ASSUME NEW n \in 1..Images, NEW m \in V, has(n - 1, m)
      PROVE  step[n][m] \in V /\ has(n, step[n][m])
  <2>0. step[n][m] = IF ~m.ok \/ to[n] \notin Previews THEN m
                     ELSE LET c == Resolve(m.c, to[n]) IN [c |-> c, ok |-> c.entry[to[n]] # 0]
    OBVIOUS
  <2>1. \A k \in 1..n : k \in 1..(n - 1) \/ k = n
    BY <1>0
  <2> HIDE DEF step
  <2>2. CASE ~m.ok \/ to[n] \notin Previews
    BY <1>2, <2>0, <2>1, <2>2
  <2>3. CASE m.ok /\ to[n] \in Previews
    <3> DEFINE c == Resolve(m.c, to[n])
    <3>1. step[n][m] = [c |-> c, ok |-> c.entry[to[n]] # 0]
      BY <2>0, <2>3
    <3>2. Resolved(content, c)
      BY <1>1, <1>2, <2>3, ResolvesOn
    <3>3. c \in Content
      BY <3>2 DEF Resolved
    <3>4. ASSUME NEW q \in Previews, m.c.entry[q] # 0 PROVE c.entry[q] # 0
      <4>1. m.c \in Content /\ UrlsAgree(m.c) /\ m.c.kept \in SUBSET content.kept
        BY <1>2 DEF Resolved
      <4>2. IsFiniteSet(m.c.kept)
        BY <1>1, <4>1, FS_Subset
      <4>3. (q # to[n] \/ m.c.entry[to[n]] # 0) => c.entry[q] = m.c.entry[q]
        BY <1>1, <2>3, <4>1, <4>2, ResolveFacts
      <4> QED
        BY <3>4, <4>3
    <3> HIDE DEF c
    <3>5. \A k \in 1..(n - 1) : to[k] \in Previews => c.entry[to[k]] # 0
      BY <1>2, <2>3, <3>4
    <3>6. step[n][m] \in V /\ step[n][m].c = c /\ step[n][m].ok = (c.entry[to[n]] # 0)
      BY <3>1, <3>3
    <3> QED
      BY <2>1, <3>2, <3>5, <3>6
  <2> QED
    BY <2>2, <2>3
<1>3. m0 \in V /\ has(0, m0)
  <2>1. Resolved(content, content)
    BY <1>1 DEF Resolved
  <2> QED
    BY <1>1, <2>1
<1> HIDE DEF step, has, m0
<1>4. <<0, m0>> \in P
  BY <1>0, <1>3
<1>5. \A n \in 1..Images : \A x : <<n - 1, x>> \in P => <<n, step[n][x]>> \in P
  BY <1>0, <1>2
<1> HIDE DEF P
<1>6. <<Images, ByNodes(step, m0)>> \in P
  BY <1>4, <1>5, NodesDone
<1>7. Materialized(to) = ByNodes(step, m0)
  BY DEF Materialized, step, m0
<1>8. Materialized(to) \in V /\ has(Images, Materialized(to))
  BY <1>6, <1>7 DEF P
<1> QED
  BY <1>8 DEF has

\* The patches of a render bring the nodes from what they showed to what they are to show, and
\* the books with them.
LEMMA PatchesFacts ==
  ASSUME NEW c \in Content, UrlsAgree(c), src \in ShownUrls, Owned(c, src), NEW to \in Trees,
         \A n \in 1..Images : to[n] \in Previews => c.entry[to[n]] # 0
  PROVE  LET a == Attributes(c, to)
             gone == [n \in 1..Images |-> IF to[n] = Absent THEN src[n] ELSE a[n]]
         IN  a \in ShownUrls /\ Patched(SetPatches(RemovePatches(c, to), gone), a, c, src, a)
PROOF
<1> DEFINE a == Attributes(c, to)
           gone == [n \in 1..Images |-> IF to[n] = Absent THEN src[n] ELSE a[n]]
           left == [n \in 1..Images |-> IF to[n] = Absent THEN NoUrl ELSE src[n]]
           d == RemovePatches(c, to)
           e == SetPatches(d, gone)
<1>0. Images \in Nat /\ c.entry \in [Previews -> Nat] /\ Absent \notin Previews
  BY PreviewsAssumption, ContentFacts
<1>1. a \in ShownUrls /\ \A n \in 1..Images : to[n] = Absent => a[n] = NoUrl
  <2>1. ASSUME NEW n \in 1..Images PROVE a[n] \in Urls \cup {NoUrl}
    <3>1. CASE to[n] \in Previews
      <4>1. c.entry[to[n]] \in Nat /\ c.entry[to[n]] # 0
        BY <1>0, <3>1
      <4>2. a[n] = <<to[n], c.entry[to[n]]>>
        BY <3>1 DEF Attributes
      <4> QED
        BY <3>1, <4>1, <4>2, UrlFacts
    <3>2. CASE to[n] \notin Previews
      BY <3>2 DEF Attributes
    <3> QED
      BY <3>1, <3>2
  <2>2. a = [n \in 1..Images |-> a[n]]
    BY DEF Attributes
  <2>3. \A n \in 1..Images : to[n] = Absent => a[n] = NoUrl
    BY <1>0 DEF Attributes
  <2> HIDE DEF a
  <2> QED
    BY <2>1, <2>2, <2>3 DEF ShownUrls
<1>2. left \in ShownUrls
  BY DEF ShownUrls
<1>3. \A n \in 1..Images : /\ gone[n] = IF to[n] = Absent THEN src[n] ELSE a[n]
                           /\ left[n] = IF to[n] = Absent THEN NoUrl ELSE src[n]
  OBVIOUS
<1> HIDE DEF a, gone, left
<1>4. Patched(c, src, c, src, a)
  BY DEF Patched
<1>5. \A x : Release(x, NoUrl) = x
  BY DEF Release, Known
<1>6. Patched(d, left, c, src, a)
  <2> DEFINE step == [n \in 1..Images |-> [x \in Content |->
                        IF to[n] = Absent THEN Release(x, src[n]) ELSE x]]
             P == {y \in (0..Images) \X Content : Patched(y[2], Halfway(src, left, y[1]), c, src, a)}
  <2>1. ASSUME NEW n \in 1..Images, NEW x, <<n - 1, x>> \in P PROVE <<n, step[n][x]>> \in P
    <3> DEFINE s == Halfway(src, left, n - 1)
    <3>0. x \in Content /\ Patched(x, s, c, src, a)
      BY <2>1
    <3>1. /\ s \in ShownUrls /\ s[n] = src[n] /\ Halfway(src, left, n) = Showing(s, n, left[n])
          /\ src[n] = left[n] => Halfway(src, left, n) = s
      BY <1>0, <1>2, HalfwayFacts
    <3>2. step[n][x] = IF to[n] = Absent THEN Release(x, src[n]) ELSE x
      BY <3>0
    <3>3. \A k \in 1..Images : src[k] = a[k] => s[k] = src[k]
      BY <1>1, <1>3 DEF Halfway
    <3> HIDE DEF step, P, s
    <3>4. Patched(step[n][x], Halfway(src, left, n), c, src, a)
      <4>1. CASE left[n] = src[n]
        <5>1. step[n][x] = x
          BY <1>3, <1>5, <3>2, <4>1
        <5> QED
          BY <3>0, <3>1, <4>1, <5>1
      <4>2. CASE left[n] # src[n]
        <5>1. to[n] = Absent /\ left[n] = NoUrl /\ src[n] # a[n]
          BY <1>1, <1>3, <4>2
        <5>2. Patched(Release(x, s[n]), Showing(s, n, NoUrl), c, src, a)
          BY <1>1, <3>0, <3>1, <3>3, <5>1, PatchReleases
        <5> QED
          BY <3>1, <3>2, <5>1, <5>2
      <4> QED
        BY <4>1, <4>2
    <3>5. step[n][x] \in Content
      BY <3>4 DEF Patched
    <3> QED
      BY <1>0, <3>4, <3>5 DEF P
  <2>2. <<0, c>> \in P
    BY <1>0, <1>2, <1>4, HalfwayFacts
  <2> HIDE DEF step, P
  <2>3. <<Images, ByNodes(step, c)>> \in P
    BY <2>1, <2>2, NodesDone
  <2>4. d = ByNodes(step, c)
    BY DEF RemovePatches, step
  <2>5. Patched(d, Halfway(src, left, Images), c, src, a)
    BY <2>3, <2>4 DEF P
  <2> QED
    BY <1>2, <2>5, HalfwayFacts
<1> HIDE DEF d
<1>7. Patched(e, a, c, src, a)
  <2> DEFINE step == [n \in 1..Images |-> [x \in Content |->
                        IF gone[n] = src[n] THEN x ELSE Retain(Release(x, src[n]), gone[n])]]
             P == {y \in (0..Images) \X Content : Patched(y[2], Halfway(left, a, y[1]), c, src, a)}
  <2>1. ASSUME NEW n \in 1..Images, NEW x, <<n - 1, x>> \in P PROVE <<n, step[n][x]>> \in P
    <3> DEFINE s == Halfway(left, a, n - 1)
    <3>0. x \in Content /\ Patched(x, s, c, src, a)
      BY <2>1
    <3>1. /\ s \in ShownUrls /\ s[n] = left[n] /\ Halfway(left, a, n) = Showing(s, n, a[n])
          /\ left[n] = a[n] => Halfway(left, a, n) = s
      BY <1>0, <1>1, <1>2, HalfwayFacts
    <3>2. step[n][x] = IF gone[n] = src[n] THEN x ELSE Retain(Release(x, src[n]), gone[n])
      BY <3>0
    <3>3. \A k \in 1..Images : src[k] = a[k] => s[k] = src[k]
      BY <1>1, <1>3 DEF Halfway
    <3> HIDE DEF step, P, s
    <3>4. Patched(step[n][x], Halfway(left, a, n), c, src, a)
      <4>1. CASE gone[n] = src[n]
        <5>1. step[n][x] = x
          BY <3>2, <4>1
        <5>2. left[n] = a[n]
          BY <1>1, <1>3, <4>1
        <5> QED
          BY <3>0, <3>1, <5>1, <5>2
      <4>2. CASE gone[n] # src[n]
        <5>1. to[n] # Absent /\ left[n] = src[n] /\ gone[n] = a[n] /\ src[n] # a[n]
          BY <1>3, <4>2
        <5> DEFINE r == Release(x, s[n])
                   t == Showing(s, n, NoUrl)
        <5>2. Patched(r, t, c, src, a)
          BY <1>1, <3>0, <3>1, <3>3, <5>1, PatchReleases
        <5>3. t \in ShownUrls /\ t[n] = NoUrl /\ Showing(t, n, a[n]) = Showing(s, n, a[n])
          BY <3>1 DEF Showing, ShownUrls
        <5>4. a[n] \in Urls \cup {NoUrl}
          BY <1>1 DEF ShownUrls
        <5>5. step[n][x] = Retain(r, a[n])
          BY <3>1, <3>2, <4>2, <5>1
        <5> HIDE DEF r, t
        <5>6. Patched(Retain(r, a[n]), Showing(t, n, a[n]), c, src, a)
          BY <1>1, <5>2, <5>3, <5>4, PatchRetains
        <5> QED
          BY <3>1, <5>3, <5>5, <5>6
      <4> QED
        BY <4>1, <4>2
    <3>5. step[n][x] \in Content
      BY <3>4 DEF Patched
    <3> QED
      BY <1>0, <3>4, <3>5 DEF P
  <2>2. <<0, d>> \in P
    <3>1. Halfway(left, a, 0) = left
      BY <1>1, <1>2, HalfwayFacts
    <3> QED
      BY <1>0, <1>6, <3>1 DEF Patched
  <2> HIDE DEF step, P
  <2>3. <<Images, ByNodes(step, d)>> \in P
    BY <2>1, <2>2, NodesDone
  <2>4. e = ByNodes(step, d)
    BY DEF SetPatches, step
  <2>5. Patched(e, Halfway(left, a, Images), c, src, a)
    BY <2>3, <2>4 DEF P
  <2> QED
    BY <1>1, <1>2, <2>5, HalfwayFacts
<1> QED
  BY <1>1, <1>7 DEF a, gone, d, e

\* A URL that was never used is shown by no image.
LEMMA ResolvedOwned ==
  ASSUME PreviewsInv, NEW c, Resolved(content, c)
  PROVE  Owned(c, src)
PROOF
<1> SUFFICES ASSUME NEW p \in Previews, c.entry[p] # 0
             PROVE  c.owners[p] = Cardinality(Shown(src, p, c.entry[p]))
  BY DEF Owned
<1>1. \/ c.entry[p] = content.entry[p] /\ c.owners[p] = content.owners[p]
      \/ content.entry[p] = 0 /\ c.entry[p] > content.made[p] /\ c.owners[p] = 0
  BY DEF Resolved
<1>2. CASE c.entry[p] = content.entry[p] /\ c.owners[p] = content.owners[p]
  BY <1>2 DEF PreviewsInv, Owned
<1>3. CASE c.entry[p] > content.made[p] /\ c.owners[p] = 0
  <2>0. content.made[p] \in Nat /\ c.entry[p] \in Nat
    <3>1. content \in Content /\ c \in Content
      BY DEF PreviewsInv, PreviewsTypeOK, Resolved
    <3> QED
      BY <3>1, ContentFacts
  <2>1. ASSUME NEW n \in 1..Images, src[n] = <<p, c.entry[p]>> PROVE FALSE
    <3>1. src[n][1] = p /\ src[n][2] = c.entry[p] /\ src[n] # NoUrl
      BY <2>1, UrlFacts
    <3>2. tree[n] = p /\ c.entry[p] <= content.made[p]
      BY <3>1 DEF PreviewsInv
    <3> QED
      BY <1>3, <2>0, <3>2
  <2>2. Shown(src, p, c.entry[p]) = {}
    BY <2>1 DEF Shown
  <2> QED
    BY <1>3, <2>2, FS_EmptySet
<1> QED
  BY <1>1, <1>2, <1>3

\* The parts of the invariant about the tree, where neither the tree nor an entry it shows
\* changes.
LEMMA TreeKept ==
  ASSUME PreviewsInv, UNCHANGED <<tree, src, lost>>,
         NEW c, c \in Content, \A p \in Previews : content.made[p] <= c.made[p],
         \A p \in Previews : content.entry[p] # 0 => c.entry[p] = content.entry[p]
  PROVE  /\ \A n \in 1..Images :
              IF tree'[n] \in Previews
              THEN src'[n] \in Urls /\ src'[n][1] = tree'[n] /\ src'[n][2] <= c.made[tree'[n]]
              ELSE src'[n] = NoUrl
         /\ \A n, k \in 1..Images : tree'[n] = tree'[k] => src'[n] = src'[k]
         /\ \A n \in (1..Images) \ lost' : tree'[n] \in Previews => Known(c, src'[n])
PROOF
<1>0. content.made \in [Previews -> Nat] /\ c.made \in [Previews -> Nat]
  <2>1. content \in Content
    BY DEF PreviewsInv, PreviewsTypeOK
  <2> QED
    BY <2>1, ContentFacts
<1>1. ASSUME NEW n \in 1..Images, tree[n] \in Previews
      PROVE  src[n] \in Urls /\ src[n][1] = tree[n] /\ src[n][2] <= c.made[tree[n]]
  <2>1. src[n] \in Urls /\ src[n][1] = tree[n] /\ src[n][2] <= content.made[tree[n]]
    BY <1>1 DEF PreviewsInv
  <2>2. /\ src[n][2] \in Nat /\ content.made[tree[n]] \in Nat /\ c.made[tree[n]] \in Nat
        /\ content.made[tree[n]] <= c.made[tree[n]]
    BY <1>0, <1>1, <2>1, UrlFacts
  <2> QED
    BY <2>1, <2>2
<1>2. ASSUME NEW n \in (1..Images) \ lost, tree[n] \in Previews PROVE Known(c, src[n])
  <2>1. Known(content, src[n]) /\ src[n] \in Urls
    BY <1>2 DEF PreviewsInv
  <2>2. src[n][1] \in Previews /\ src[n][2] # 0
    BY <2>1, UrlFacts
  <2> QED
    BY <2>1, <2>2 DEF Known
<1>3. \A n \in 1..Images : tree[n] \notin Previews => src[n] = NoUrl
  BY DEF PreviewsInv
<1>4. \A n, k \in 1..Images : tree[n] = tree[k] => src[n] = src[k]
  BY DEF PreviewsInv
<1> QED
  BY <1>1, <1>2, <1>3, <1>4

\* A preview that an image keeps, or that no image loses, is not dropped by the patches.
LEMMA ShownIsSafe ==
  ASSUME PreviewsInv, NEW c \in Content, NEW to \in Trees, NEW n \in 1..Images, to[n] \in Previews,
         c.entry[to[n]] # 0,
         tree[n] = to[n] \/ \A k \in 1..Images : tree[k] = to[n] => to[k] = to[n]
  PROVE  Safe(c, src, Attributes(c, to), to[n])
PROOF
<1> DEFINE p == to[n]
           a == Attributes(c, to)
           u == <<p, c.entry[p]>>
<1>1. \A k \in 1..Images : to[k] = p => a[k] = u
  BY DEF Attributes
<1>2. \A k \in 1..Images : src[k] = u => tree[k] = p
  <2>1. u # NoUrl /\ u[1] = p
    BY UrlFacts
  <2> HIDE DEF u, p
  <2> QED
    BY <2>1 DEF PreviewsInv
<1>3. CASE tree[n] = p
  <2>1. CASE src[n] = u
    BY <1>1, <2>1 DEF Safe
  <2>2. CASE src[n] # u
    <3>1. \A k \in 1..Images : tree[k] = tree[n] => src[k] = src[n]
      BY DEF PreviewsInv
    <3>2. \A k \in 1..Images : src[k] # u
      BY <1>2, <1>3, <2>2, <3>1
    <3> QED
      BY <3>2 DEF Safe
  <2> QED
    BY <2>1, <2>2
<1>4. CASE \A k \in 1..Images : tree[k] = p => to[k] = p
  <2>1. \A k \in 1..Images : src[k] = u => a[k] = src[k]
    BY <1>1, <1>2, <1>4
  <2> QED
    BY <2>1 DEF Safe
<1> QED
  BY <1>3, <1>4

\* Nothing is picked or shown at first.
LEMMA PreviewsStart == PreviewsInit => PreviewsInv
PROOF
<1> SUFFICES ASSUME PreviewsInit PROVE PreviewsInv
  OBVIOUS
<1> USE PreviewsAssumption
<1>1. /\ content = [kept |-> {}, url |-> [p \in Previews |-> 0],
                    made |-> [p \in Previews |-> 0], live |-> {},
                    entry |-> [p \in Previews |-> 0], owners |-> [p \in Previews |-> 0]]
      /\ old = {} /\ pickedAs = [p \in Previews |-> 0] /\ lost = {} /\ renders = 0
      /\ tree = [n \in 1..Images |-> Absent] /\ src = [n \in 1..Images |-> NoUrl]
  BY DEF PreviewsInit
<1>2. content \in Content
  BY <1>1, ContentFacts
<1>3. UrlsAgree(content) /\ Owned(content, src)
  BY <1>1 DEF UrlsAgree, Owned
<1>4. picked = {}
  BY <1>1 DEF picked
<1>5. PreviewsTypeOK
  <2>1. Cardinality(content.kept) = 0
    BY <1>1, FS_EmptySet
  <2>2. tree \in Trees /\ src \in [1..Images -> Urls \cup {NoUrl}]
    BY <1>1 DEF Trees
  <2> QED
    BY <1>1, <1>2, <2>1, <2>2 DEF PreviewsTypeOK
<1>6. IsFiniteSet(picked)
  BY <1>4, FS_EmptySet
<1> QED
  BY <1>1, <1>3, <1>4, <1>5, <1>6 DEF PreviewsInv

\* What is picked or dropped leaves the books and the tree alone.
LEMMA SelectionsHold ==
  ASSUME PreviewsInv, UNCHANGED <<tree, src, lost, renders>>,
         content' \in Content, UrlsAgree(content'),
         content'.made = content.made, content'.entry = content.entry,
         content'.owners = content.owners, Cardinality(content'.kept) <= MaxSelections,
         pickedAs' \in [Previews -> Nat], old' \subseteq picked', IsFiniteSet(picked'),
         picked \subseteq picked', content'.kept \subseteq picked'
  PROVE  PreviewsInv'
PROOF
<1>0. content \in Content /\ content.made \in [Previews -> Nat]
  <2>1. content \in Content
    BY DEF PreviewsInv, PreviewsTypeOK
  <2> QED
    BY <2>1, ContentFacts
<1>1. Owned(content', src')
  BY DEF PreviewsInv, Owned
<1>2. /\ \A n \in 1..Images :
           IF tree'[n] \in Previews
           THEN src'[n] \in Urls /\ src'[n][1] = tree'[n] /\ src'[n][2] <= content'.made[tree'[n]]
           ELSE src'[n] = NoUrl
      /\ \A n, k \in 1..Images : tree'[n] = tree'[k] => src'[n] = src'[k]
      /\ \A n \in (1..Images) \ lost' : tree'[n] \in Previews => Known(content', src'[n])
  <2>1. \A p \in Previews : content.made[p] <= content'.made[p]
    BY <1>0
  <2> QED
    BY <2>1, TreeKept
<1>3. PreviewsTypeOK'
  BY DEF PreviewsInv, PreviewsTypeOK, Content, Trees, Urls, NoUrl
<1>4. \A p \in Previews : content'.entry[p] # 0 => p \in picked'
  BY DEF PreviewsInv
<1>5. UrlsAgree(content)' /\ Owned(content, src)'
  BY <1>1 DEF UrlsAgree, Owned, Shown
<1> QED
  BY <1>2, <1>3, <1>4, <1>5 DEF PreviewsInv, Known, Urls, NoUrl

\* A render that throws leaves the images as they are; another brings them to the tree.
LEMMA RenderHolds ==
  ASSUME PreviewsInv, NEW to \in Trees, Render(to)
  PROVE  PreviewsInv'
PROOF
<1> DEFINE m == Materialized(to)
           c == m.c
           a == Attributes(c, to)
           gone == [n \in 1..Images |-> IF to[n] = Absent THEN src[n] ELSE a[n]]
           e == SetPatches(RemovePatches(c, to), gone)
<1>0. /\ Images \in Nat /\ MaxSelections \in Nat
      /\ renders' \in 0..MaxRenders /\ UNCHANGED <<old, pickedAs>> /\ picked' = picked
      /\ src \in ShownUrls
  <2>1. renders' = renders + 1 /\ renders < MaxRenders /\ UNCHANGED <<old, pickedAs>>
    BY DEF Render
  <2>2. renders' \in 0..MaxRenders
    BY <2>1, PreviewsAssumption DEF PreviewsInv, PreviewsTypeOK
  <2> QED
    BY <2>1, <2>2, PreviewsAssumption DEF picked, PreviewsInv, PreviewsTypeOK, ShownUrls
<1>1. /\ Resolved(content, c) /\ c \in Content /\ UrlsAgree(c)
      /\ m.ok \in BOOLEAN
      /\ m.ok => \A n \in 1..Images : to[n] \in Previews => c.entry[to[n]] # 0
  <2>1. /\ m \in [c : Content, ok : BOOLEAN] /\ Resolved(content, m.c)
        /\ m.ok => \A n \in 1..Images : to[n] \in Previews => m.c.entry[to[n]] # 0
    BY MaterializedFacts
  <2> HIDE DEF m
  <2> QED
    BY <2>1 DEF Resolved
<1>2. /\ IF ~m.ok THEN content' = c /\ UNCHANGED <<tree, src, lost>>
         ELSE /\ content' = e /\ src' = a /\ tree' = to
              /\ lost' = {n \in 1..Images :
                            /\ to[n] \in Previews /\ tree[n] # to[n]
                            /\ \E k \in 1..Images : tree[k] = to[n] /\ to[k] # to[n]}
  BY DEF Render
<1> HIDE DEF m
<1>3. Owned(c, src)
  BY <1>1, ResolvedOwned
<1>4. /\ content.made \in [Previews -> Nat] /\ c.made \in [Previews -> Nat]
      /\ content.entry \in [Previews -> Nat] /\ c.entry \in [Previews -> Nat]
  <2>1. content \in Content
    BY DEF PreviewsInv, PreviewsTypeOK
  <2> QED
    BY <1>1, <2>1, ContentFacts
<1>5. /\ c.kept \subseteq content.kept /\ c.kept \subseteq picked
      /\ IsFiniteSet(c.kept) /\ Cardinality(c.kept) <= MaxSelections
      /\ \A p \in Previews : c.entry[p] # 0 => p \in picked
      /\ \A p \in Previews : content.entry[p] # 0 => c.entry[p] = content.entry[p]
      /\ \A p \in Previews : content.made[p] <= c.made[p]
  <2>1. c.kept \in SUBSET content.kept /\ content.kept \in SUBSET picked /\ IsFiniteSet(picked)
    BY <1>1 DEF Resolved, PreviewsInv
  <2>2. IsFiniteSet(content.kept) /\ Cardinality(content.kept) <= MaxSelections
    BY <2>1, FS_Subset DEF PreviewsInv, PreviewsTypeOK
  <2>3. /\ IsFiniteSet(c.kept) /\ Cardinality(c.kept) <= Cardinality(content.kept)
        /\ Cardinality(c.kept) \in Nat /\ Cardinality(content.kept) \in Nat
    BY <2>1, <2>2, FS_Subset, FS_CardinalityType
  <2>4. Cardinality(c.kept) <= MaxSelections
    BY <1>0, <2>2, <2>3
  <2>5. \A p \in Previews : c.entry[p] # 0 => p \in picked
    BY <1>1, <2>1 DEF Resolved, PreviewsInv
  <2> QED
    BY <1>1, <2>1, <2>3, <2>4, <2>5 DEF Resolved
<1>6. CASE ~m.ok
  <2> HIDE DEF c, a, e
  <2>1. content' = c /\ UNCHANGED <<tree, src, lost>>
    BY <1>2, <1>6
  <2>2. /\ \A n \in 1..Images :
             IF tree'[n] \in Previews
             THEN src'[n] \in Urls /\ src'[n][1] = tree'[n] /\ src'[n][2] <= c.made[tree'[n]]
             ELSE src'[n] = NoUrl
        /\ \A n, k \in 1..Images : tree'[n] = tree'[k] => src'[n] = src'[k]
        /\ \A n \in (1..Images) \ lost' : tree'[n] \in Previews => Known(c, src'[n])
    BY <1>1, <1>5, <2>1, TreeKept
  <2>3. PreviewsTypeOK'
    BY <1>0, <1>1, <1>5, <2>1 DEF PreviewsInv, PreviewsTypeOK, Content, Trees, Urls, NoUrl
  <2>4. UrlsAgree(content)' /\ Owned(content, src)'
    BY <1>1, <1>3, <2>1 DEF UrlsAgree, Owned, Shown
  <2> QED
    BY <1>0, <1>5, <2>1, <2>2, <2>3, <2>4 DEF PreviewsInv, Known, Urls, NoUrl
<1>7. CASE m.ok
  <2>1. a \in ShownUrls /\ Patched(e, a, c, src, a)
    BY <1>0, <1>1, <1>3, <1>7, PatchesFacts
  <2>2. ASSUME NEW n \in 1..Images, to[n] \in Previews
        PROVE  /\ a[n] = <<to[n], c.entry[to[n]]>> /\ a[n] \in Urls
               /\ c.entry[to[n]] <= c.made[to[n]] /\ c.entry[to[n]] # 0
    <3>1. c.entry[to[n]] # 0 /\ c.entry[to[n]] \in Nat /\ c.entry[to[n]] <= c.made[to[n]]
      BY <1>1, <1>4, <1>7, <2>2 DEF UrlsAgree
    <3>2. a[n] = <<to[n], c.entry[to[n]]>>
      BY <2>2 DEF Attributes
    <3> QED
      BY <2>2, <3>1, <3>2, UrlFacts
  <2>3. \A n \in 1..Images : to[n] \notin Previews => a[n] = NoUrl
    BY DEF Attributes
  <2>4. ASSUME NEW n \in 1..Images, to[n] \in Previews,
               tree[n] = to[n] \/ \A k \in 1..Images : tree[k] = to[n] => to[k] = to[n]
        PROVE  Known(e, a[n])
    <3>1. c.entry[to[n]] # 0
      BY <2>2, <2>4
    <3>2. Safe(c, src, a, to[n])
      BY <1>1, <2>4, <3>1, ShownIsSafe
    <3> HIDE DEF a, c, e
    <3>3. e.entry[to[n]] = c.entry[to[n]]
      BY <2>1, <2>4, <3>2 DEF Patched
    <3> QED
      BY <2>2, <2>4, <3>3, UrlFacts DEF Known
  <2>5. \A n, k \in 1..Images : to[n] = to[k] => a[n] = a[k]
    BY DEF Attributes
  <2>6. /\ content' = e /\ src' = a /\ tree' = to
        /\ lost' = {n \in 1..Images :
                      /\ to[n] \in Previews /\ tree[n] # to[n]
                      /\ \E k \in 1..Images : tree[k] = to[n] /\ to[k] # to[n]}
    BY <1>2, <1>7
  <2> HIDE DEF a, c, e
  <2>7. /\ e \in Content /\ UrlsAgree(e) /\ Owned(e, a) /\ e.kept = c.kept /\ e.made = c.made
        /\ \A p \in Previews : e.entry[p] # 0 => p \in picked
    BY <1>5, <2>1 DEF Patched
  <2>8. \A n \in (1..Images) \ lost' : to[n] \in Previews => Known(e, a[n])
    BY <2>4, <2>6
  <2>9. PreviewsTypeOK'
    BY <1>0, <1>5, <2>1, <2>6, <2>7
    DEF PreviewsInv, PreviewsTypeOK, Content, Trees, Urls, NoUrl, ShownUrls
  <2>10. UrlsAgree(content)' /\ Owned(content, src)'
    BY <2>6, <2>7 DEF UrlsAgree, Owned, Shown
  <2>11. \A n \in 1..Images :
           IF tree'[n] \in Previews
           THEN src'[n] \in Urls /\ src'[n][1] = tree'[n] /\ src'[n][2] <= content'.made[tree'[n]]
           ELSE src'[n] = NoUrl
    BY <2>2, <2>3, <2>6, <2>7
  <2> QED
    BY <1>0, <1>5, <2>5, <2>6, <2>7, <2>8, <2>9, <2>10, <2>11
    DEF PreviewsInv, Known, Urls, NoUrl
<1> QED
  BY <1>1, <1>6, <1>7

\* Picks, releases, uploads, expiry and renders keep the books.
LEMMA PreviewsStep == PreviewsInv /\ [PreviewsNext]_previewVars => PreviewsInv'
PROOF
<1> SUFFICES ASSUME PreviewsInv, [PreviewsNext]_previewVars PROVE PreviewsInv'
  OBVIOUS
<1>0. /\ content \in Content /\ UrlsAgree(content) /\ pickedAs \in [Previews -> Nat]
      /\ IsFiniteSet(picked) /\ IsFiniteSet(content.kept) /\ content.kept \subseteq picked
      /\ Cardinality(content.kept) <= MaxSelections /\ Cardinality(content.kept) \in Nat
      /\ old \subseteq picked /\ MaxSelections \in Nat /\ Cardinality(picked) \in Nat
  <2>1. content.kept \in SUBSET picked /\ IsFiniteSet(picked)
    BY DEF PreviewsInv
  <2>2. IsFiniteSet(content.kept)
    BY <2>1, FS_Subset
  <2> QED
    BY <2>1, <2>2, FS_CardinalityType, PreviewsAssumption DEF PreviewsInv, PreviewsTypeOK
<1> DEFINE d == Prune(content)
<1>1. /\ d \in Content /\ UrlsAgree(d) /\ d.kept \subseteq content.kept
      /\ d.made = content.made /\ d.entry = content.entry /\ d.owners = content.owners
      /\ IsFiniteSet(d.kept) /\ Cardinality(d.kept) \in Nat /\ Cardinality(d.kept) < MaxSelections
  BY <1>0, PruneFits
<1> HIDE DEF d
<1>2. ASSUME NEW p \in Previews, Pick(p) PROVE PreviewsInv'
  <2>1. /\ p \notin picked /\ pickedAs' = [pickedAs EXCEPT ![p] = Cardinality(picked) + 1]
        /\ content' = [d EXCEPT !.kept = @ \cup {p}]
        /\ UNCHANGED <<old, tree, src, lost, renders>>
    BY <1>2 DEF Pick, d
  <2>2. pickedAs' \in [Previews -> Nat] /\ picked' = picked \cup {p}
    BY <1>0, <2>1 DEF picked
  <2>3. IsFiniteSet(picked') /\ p \notin content.kept
    BY <1>0, <2>1, <2>2, FS_AddElement
  <2>4. content' = [kept |-> d.kept \cup {p}, url |-> d.url, made |-> d.made, live |-> d.live,
                    entry |-> d.entry, owners |-> d.owners]
    BY <1>1, <2>1, ContentFacts
  <2>5. content' \in Content
    BY <1>1, <2>4, ContentFacts
  <2>6. content.entry[p] = 0
    BY <2>1 DEF PreviewsInv
  <2>7. UrlsAgree(content')
    <3>1. d.url[p] = 0 /\ d.entry[p] = 0
      BY <1>1, <2>3, <2>6 DEF UrlsAgree
    <3> QED
      BY <1>1, <2>4, <3>1 DEF UrlsAgree
  <2>8. Cardinality(d.kept \cup {p}) = Cardinality(d.kept) + 1
    BY <1>1, <2>3, FS_AddElement
  <2>9. Cardinality(content'.kept) <= MaxSelections
    BY <1>0, <1>1, <2>4, <2>8
  <2>10. /\ content'.made = content.made /\ content'.entry = content.entry
         /\ content'.owners = content.owners /\ content'.kept \subseteq picked'
         /\ old' \subseteq picked' /\ picked \subseteq picked'
    BY <1>0, <1>1, <2>1, <2>2, <2>4
  <2> QED
    BY <2>1, <2>2, <2>3, <2>5, <2>7, <2>9, <2>10, SelectionsHold
<1>3. ASSUME NEW p \in Previews, ReleaseSelection(p) PROVE PreviewsInv'
  <2>1. /\ p \in content.kept /\ content' = Drop(content, {p})
        /\ UNCHANGED <<old, pickedAs, tree, src, lost, renders>>
    BY <1>3 DEF ReleaseSelection
  <2>2. {p} \in SUBSET content.kept
    BY <2>1
  <2>3. /\ content' \in Content /\ UrlsAgree(content') /\ content'.kept = content.kept \ {p}
        /\ content'.made = content.made /\ content'.entry = content.entry
        /\ content'.owners = content.owners
    BY <1>0, <2>1, <2>2, DropFacts
  <2>4. Cardinality(content'.kept) <= MaxSelections
    <3>1. content'.kept \in SUBSET content.kept
      BY <2>3
    <3>2. /\ Cardinality(content'.kept) <= Cardinality(content.kept)
          /\ Cardinality(content'.kept) \in Nat
      BY <1>0, <3>1, FS_Subset, FS_CardinalityType
    <3> QED
      BY <1>0, <3>2
  <2>5. picked' = picked /\ pickedAs' = pickedAs
    BY <2>1 DEF picked
  <2> QED
    BY <1>0, <2>1, <2>3, <2>4, <2>5, SelectionsHold
<1>4. ASSUME Upload PROVE PreviewsInv'
  <2>1. content' = d /\ UNCHANGED <<old, pickedAs, tree, src, lost, renders>>
    BY <1>4 DEF Upload, d
  <2>2. picked' = picked /\ pickedAs' = pickedAs
    BY <2>1 DEF picked
  <2>3. Cardinality(content'.kept) <= MaxSelections /\ content'.kept \subseteq picked'
    BY <1>0, <1>1, <2>1, <2>2
  <2> QED
    BY <1>0, <1>1, <2>1, <2>2, <2>3, SelectionsHold
<1>5. ASSUME Expire PROVE PreviewsInv'
  <2>1. PICK p \in content.kept : old' = old \cup {p}
    BY <1>5 DEF Expire
  <2>2. UNCHANGED <<content, pickedAs, tree, src, lost, renders>>
    BY <1>5 DEF Expire
  <2>3. picked' = picked /\ pickedAs' = pickedAs
    BY <2>2 DEF picked
  <2>4. old' \subseteq picked'
    BY <1>0, <2>1, <2>3
  <2> QED
    BY <1>0, <2>2, <2>3, <2>4, SelectionsHold
<1>6. ASSUME NEW to \in Trees, Render(to) PROVE PreviewsInv'
  BY <1>6, RenderHolds
<1>7. CASE UNCHANGED previewVars
  <2>1. UNCHANGED <<content, old, pickedAs, tree, src, lost, renders>>
    BY <1>7 DEF previewVars
  <2>2. picked' = picked /\ pickedAs' = pickedAs
    BY <2>1 DEF picked
  <2> QED
    BY <1>0, <2>1, <2>2, SelectionsHold
<1> QED
  BY <1>2, <1>3, <1>4, <1>5, <1>6, <1>7 DEF PreviewsNext

\* The books are kept in every run.
LEMMA PreviewsAlways == PreviewsSpec => []PreviewsInv
BY PreviewsStart, PreviewsStep, PTL DEF PreviewsSpec

\* Selections, URLs and books stay typed, and the selections within their limit.
THEOREM PreviewsTypeCorrect == PreviewsSpec => []PreviewsTypeOK
PROOF
<1>1. PreviewsInv => PreviewsTypeOK
  BY DEF PreviewsInv
<1> QED
  BY <1>1, PreviewsAlways, PTL

\* An image shows its preview as long as the selection was not dropped, but for what one
\* render moves; every URL that is live can be revoked, by its selection or its last owner, and
\* an entry has as many owners as images show its URL: for any number of previews and images.
THEOREM PreviewsHeld == PreviewsSpec => []PreviewsHold
PROOF
<1>1. ASSUME PreviewsInv PROVE PreviewsHold
  <2>0. content \in Content /\ UrlsAgree(content) /\ content.live \subseteq Urls
    <3>1. content \in Content /\ UrlsAgree(content)
      BY <1>1 DEF PreviewsInv, PreviewsTypeOK
    <3> QED
      BY <3>1, ContentFacts
  <2>1. ASSUME NEW n \in (1..Images) \ lost, tree[n] \in content.kept
        PROVE  src[n] \in content.live
    <3>1. tree[n] \in Previews
      BY <2>0, <2>1, ContentFacts
    <3>2. /\ src[n] \in Urls /\ src[n][1] = tree[n] /\ Known(content, src[n])
      BY <1>1, <3>1 DEF PreviewsInv
    <3>3. src[n] = <<tree[n], content.entry[tree[n]]>> /\ content.entry[tree[n]] # 0
      BY <3>2, UrlFacts DEF Known
    <3>4. content.url[tree[n]] = content.entry[tree[n]]
      BY <2>0, <2>1, <3>1 DEF UrlsAgree
    <3> QED
      BY <2>0, <3>1, <3>3, <3>4 DEF UrlsAgree
  <2>2. ASSUME NEW u \in content.live PROVE u[1] \in content.kept /\ content.url[u[1]] = u[2]
    <3>1. u[1] \in Previews /\ u[2] # 0 /\ content.url[u[1]] = u[2]
      BY <2>0, UrlFacts DEF UrlsAgree
    <3> QED
      BY <2>0, <3>1 DEF UrlsAgree
  <2>3. OwnersMirrorNodes
    BY <1>1 DEF PreviewsInv, Owned, Shown, OwnersMirrorNodes
  <2> QED
    BY <2>1, <2>2, <2>3 DEF PreviewsHold, LiveUnlessMoved, LiveUrlsAreKept
<1> QED
  BY <1>1, PreviewsAlways, PTL
-----------------------------------------------------------------------------
(* The end of motions. *)

\* The time of a motion's first steps is a sum.
LEMMA ElapsedFacts ==
  ASSUME NEW m \in Motions
  PROVE  /\ Elapsed(m, 0) = 0
         /\ \A n \in 1..Len(m.steps) : Elapsed(m, n) = Elapsed(m, n - 1) + m.steps[n]
         /\ \A n \in 0..Len(m.steps) : Elapsed(m, n) \in Nat
PROOF
<1> DEFINE N == Len(m.steps)
           S == m.steps
           upTo[i \in 0..N] == IF i = 0 THEN 0 ELSE upTo[i - 1] + S[i]
           step == [n \in 1..N |-> [x \in Nat |-> x + S[n]]]
<1>1. N \in Nat /\ \A n \in 1..N : S[n] \in Nat
  BY MotionAssumption
<1>2. \A n : Elapsed(m, n) = upTo[n]
  BY DEF Elapsed
<1>3. \A n \in 1..N : \A x \in Nat : step[n][x] = x + S[n]
  OBVIOUS
<1> HIDE DEF N, S, step
<1>4. PICK f : f = [i \in 0..N |-> f[i]] /\ f[0] = 0 /\ \A n \in 1..N : f[n] = step[n][f[n - 1]]
  <2>1. \E f : Stepped(f, step, 0, N)
    BY <1>1, StepsExist
  <2> QED
    BY <2>1 DEF Stepped
<1>5. f[0] = 0 /\ \A n \in 1..N : f[n] = step[n][f[n - 1]]
  BY <1>4
<1> DEFINE Bad == {n \in 0..N : f[n] \notin Nat}
<1>6. Bad = {}
  <2> SUFFICES ASSUME Bad # {} PROVE FALSE
    OBVIOUS
  <2>1. PICK n \in Bad : \A k \in Bad : n <= k
    <3>1. Bad \in SUBSET Nat
      BY <1>1
    <3> HIDE DEF Bad
    <3> QED
      BY <3>1, LeastNumber
  <2>2. n \in 0..N /\ f[n] \notin Nat
    BY <2>1
  <2>3. n \in 1..N /\ n - 1 \in 0..N
    BY <1>1, <1>5, <2>2
  <2>4. n - 1 \notin Bad
    <3> HIDE DEF Bad
    <3> QED
      BY <1>1, <2>1, <2>3
  <2>5. f[n - 1] \in Nat
    BY <2>3, <2>4
  <2>6. f[n] = f[n - 1] + S[n] /\ S[n] \in Nat
    BY <1>1, <1>3, <1>5, <2>3, <2>5
  <2> QED
    BY <2>2, <2>5, <2>6
<1>7. \A n \in 0..N : f[n] \in Nat
  BY <1>6
<1> HIDE DEF Bad
<1>8. \A n \in 0..N : f[n] = IF n = 0 THEN 0 ELSE f[n - 1] + S[n]
  <2>1. \A n \in 0..N : n = 0 \/ (n \in 1..N /\ n - 1 \in 0..N)
    BY <1>1
  <2>2. \A n \in 1..N : n # 0
    BY <1>1
  <2>3. \A n \in 1..N : n - 1 \in 0..N
    BY <1>1
  <2>4. \A n \in 1..N : f[n] = f[n - 1] + S[n]
    BY <1>3, <1>5, <1>7, <2>3
  <2> QED
    BY <1>5, <2>1, <2>2, <2>4
<1>9. f = [n \in 0..N |-> IF n = 0 THEN 0 ELSE f[n - 1] + S[n]]
  BY <1>4, <1>8
<1>10. upTo = [n \in 0..N |-> IF n = 0 THEN 0 ELSE upTo[n - 1] + S[n]]
  BY <1>9
<1> HIDE DEF upTo
<1>11. \A n \in 0..N : upTo[n] = IF n = 0 THEN 0 ELSE upTo[n - 1] + S[n]
  BY <1>10
<1> DEFINE Off == {n \in 0..N : upTo[n] # f[n]}
<1>12. Off = {}
  <2> SUFFICES ASSUME Off # {} PROVE FALSE
    OBVIOUS
  <2>1. PICK n \in Off : \A k \in Off : n <= k
    <3>1. Off \in SUBSET Nat
      BY <1>1
    <3> HIDE DEF Off
    <3> QED
      BY <3>1, LeastNumber
  <2>2. n \in 0..N /\ upTo[n] # f[n]
    BY <2>1
  <2>3. n # 0 /\ n \in 1..N /\ n - 1 \in 0..N
    BY <1>1, <1>8, <1>11, <2>2
  <2>4. n - 1 \notin Off
    <3> HIDE DEF Off
    <3> QED
      BY <1>1, <2>1, <2>3
  <2>5. upTo[n - 1] = f[n - 1]
    BY <2>3, <2>4
  <2> QED
    BY <1>8, <1>11, <2>2, <2>3, <2>5
<1>13. \A n \in 0..N : upTo[n] = f[n]
  BY <1>12
<1> HIDE DEF Off
<1>14. 0 \in 0..N /\ \A n \in 1..N : n \in 0..N /\ n - 1 \in 0..N /\ n # 0
  BY <1>1
<1>15. /\ upTo[0] = 0 /\ \A n \in 1..N : upTo[n] = upTo[n - 1] + S[n]
       /\ \A n \in 0..N : upTo[n] \in Nat
  BY <1>7, <1>11, <1>13, <1>14
<1> QED
  BY <1>2, <1>15 DEF N, S

\* Steps that take no time add none, and no step takes any away.
LEMMA ElapsedGrows ==
  ASSUME NEW m \in Motions, NEW a \in 0..Len(m.steps), NEW b \in 0..Len(m.steps), a <= b
  PROVE  /\ Elapsed(m, a) <= Elapsed(m, b)
         /\ (\A i \in (a + 1)..b : m.steps[i] = 0) => Elapsed(m, a) = Elapsed(m, b)
PROOF
<1> DEFINE N == Len(m.steps)
           E(n) == Elapsed(m, n)
           Fine(n) == /\ E(a) <= E(n)
                      /\ (\A i \in (a + 1)..n : m.steps[i] = 0) => E(a) = E(n)
           Bad == {n \in a..N : ~Fine(n)}
<1>1. /\ N \in Nat /\ \A n \in 1..N : m.steps[n] \in Nat
      /\ \A n \in 1..N : E(n) = E(n - 1) + m.steps[n]
      /\ \A n \in 0..N : E(n) \in Nat
  BY MotionAssumption, ElapsedFacts
<1>2. a \in Nat /\ b \in a..N /\ a \in 0..N
  BY <1>1
<1> HIDE DEF N, E
<1>3. Bad = {}
  <2> SUFFICES ASSUME Bad # {} PROVE FALSE
    OBVIOUS
  <2>1. PICK n \in Bad : \A k \in Bad : n <= k
    <3>1. Bad \in SUBSET Nat
      BY <1>1, <1>2
    <3> HIDE DEF Bad
    <3> QED
      BY <3>1, LeastNumber
  <2>2. n \in a..N /\ ~Fine(n)
    BY <2>1
  <2>3. n # a
    BY <1>1, <1>2, <2>2
  <2>4. n \in 1..N /\ n - 1 \in a..N /\ n - 1 \in 0..N /\ n \in (a + 1)..n
    BY <1>1, <1>2, <2>2, <2>3
  <2>5. n - 1 \notin Bad
    <3> HIDE DEF Bad
    <3> QED
      BY <1>1, <2>1, <2>4
  <2>6. Fine(n - 1)
    BY <2>4, <2>5
  <2>7. E(n) = E(n - 1) + m.steps[n] /\ E(n - 1) \in Nat /\ E(a) \in Nat /\ m.steps[n] \in Nat
    BY <1>1, <1>2, <2>4
  <2>8. \A i \in (a + 1)..(n - 1) : i \in (a + 1)..n
    BY <1>2, <2>4
  <2> QED
    BY <2>2, <2>4, <2>6, <2>7, <2>8
<1>4. Fine(b)
  BY <1>2, <1>3
<1> QED
  BY <1>4 DEF E

\* A round less is a round's time less.
LEMMA RoundLess == ASSUME NEW w \in Int, NEW a \in Int PROVE (w - 1) * a = w * a - a /\ w * a \in Int
OBVIOUS

\* From a step to the next that takes time, and from a round to the next, time goes by.
LEMMA AdvancePasses ==
  ASSUME NEW m \in Motions, m.rounds # 0, NEW i \in StepsOf(m), NEW k \in Nat, k < m.rounds,
         reduced \in BOOLEAN, Advance(m, i, k).how = "runs"
  PROVE  LET n     == Advance(m, i, k)
             round == Elapsed(m, Len(m.steps))
         IN  /\ n.round \in Nat /\ n.round < m.rounds /\ n.step \in StepsOf(m)
             /\ m.steps[n.step] + (round - Elapsed(m, n.step)) + (m.rounds - n.round - 1) * round
                  <= (round - Elapsed(m, i)) + (m.rounds - k - 1) * round
PROOF
<1> DEFINE n == Advance(m, i, k)
           N == Len(m.steps)
           E(x) == Elapsed(m, x)
           A == Elapsed(m, Len(m.steps))
<1>1. /\ m.rounds \in Nat /\ N \in Nat /\ StepsOf(m) = 1..N /\ \A x \in 1..N : m.steps[x] \in Nat
      /\ m.rounds # 1 => Timed(m, 0) # {}
  BY MotionAssumption DEF StepsOf, Timed
<1>2. /\ A \in Nat /\ E(0) = 0 /\ \A x \in 0..N : E(x) \in Nat /\ E(x) <= A
      /\ \A x \in 1..N : E(x) = E(x - 1) + m.steps[x]
  <2>1. N \in 0..N /\ A = E(N) /\ \A x \in 0..N : x <= N
    BY <1>1
  <2>2. \A x \in 0..N : E(x) <= E(N)
    BY <2>1, ElapsedGrows
  <2> QED
    BY <2>1, <2>2, ElapsedFacts
<1>3. ASSUME NEW a \in 0..N, Timed(m, a) # {}
      PROVE  LET j == Min(Timed(m, a)) IN j \in 1..N /\ E(j) = E(a) + m.steps[j]
  <2> DEFINE j == Min(Timed(m, a))
  <2>1. Timed(m, a) \in SUBSET Nat
    BY <1>1 DEF Timed
  <2>2. j \in Timed(m, a) /\ \A x \in Timed(m, a) : j <= x
    BY <1>3, <2>1, LeastOf
  <2> HIDE DEF j
  <2>3. j \in 1..N /\ j > a /\ j - 1 \in 0..N /\ a <= j - 1
    BY <1>1, <2>2 DEF Timed
  <2>4. ASSUME NEW x \in (a + 1)..(j - 1) PROVE m.steps[x] = 0
    <3>1. x \in 1..N /\ x > a /\ ~(j <= x)
      BY <1>1, <2>3
    <3>2. x \notin Timed(m, a) /\ m.steps[x] \in Nat
      BY <1>1, <2>2, <3>1
    <3> QED
      BY <1>1, <3>1, <3>2 DEF Timed
  <2>5. E(a) = E(j - 1)
    BY <2>3, <2>4, ElapsedGrows
  <2> QED
    BY <1>2, <2>3, <2>5 DEF j
<1>4. i \in 0..N /\ i \in 1..N /\ 0 \in 0..N
  BY <1>1
<1>5. CASE Timed(m, i) # {}
  <2>1. n.step = Min(Timed(m, i)) /\ n.round = k
    BY <1>5 DEF Advance
  <2>2. n.step \in 1..N /\ E(n.step) = E(i) + m.steps[n.step]
    BY <1>3, <1>4, <1>5, <2>1
  <2> DEFINE P == (m.rounds - k - 1) * A
             j == n.step
  <2>3. P \in Int /\ E(i) \in Nat /\ m.steps[j] \in Nat
    BY <1>1, <1>2, <1>4, <2>2
  <2> HIDE DEF E, A, n
  <2>4. (m.rounds - n.round - 1) * A = P
    BY <2>1
  <2> HIDE DEF P, j
  <2>5. E(j) = E(i) + m.steps[j]
    BY <2>2 DEF j
  <2>6. m.steps[j] + (A - E(j)) + P <= (A - E(i)) + P
    BY <1>2, <2>3, <2>5
  <2> QED
    BY <1>1, <2>1, <2>2, <2>4, <2>6 DEF P, E, A, n, j
<1>6. CASE Timed(m, i) = {}
  <2>1. /\ n.step = Min(Timed(m, 0)) /\ n.round = k + 1 /\ k + 1 < m.rounds
    BY <1>1, <1>6 DEF Advance, NextRound
  <2>2. Timed(m, 0) # {}
    BY <1>1, <2>1
  <2>3. n.step \in 1..N /\ E(n.step) = E(0) + m.steps[n.step]
    BY <1>3, <1>4, <2>1, <2>2
  <2> DEFINE w == m.rounds - k - 1
             P == w * A
             j == n.step
  <2>4. w \in Int /\ E(i) \in Nat /\ m.steps[j] \in Nat /\ E(i) <= A
    BY <1>1, <1>2, <1>4, <2>3
  <2> HIDE DEF E, A, n
  <2>5. m.rounds - n.round - 1 = w - 1
    BY <1>1, <2>1
  <2> HIDE DEF w
  <2>6. (m.rounds - n.round - 1) * A = P - A /\ P \in Int
    <3>1. A \in Int
      BY <1>2
    <3>2. (w - 1) * A = P - A /\ P \in Int
      BY <2>4, <3>1, RoundLess
    <3> HIDE DEF P
    <3> QED
      BY <2>5, <3>2
  <2> HIDE DEF P, j
  <2>7. E(j) = m.steps[j]
    BY <1>2, <2>3, <2>4 DEF j
  <2>8. m.steps[j] + (A - E(j)) + (P - A) <= (A - E(i)) + P
    BY <1>2, <2>4, <2>6, <2>7
  <2> QED
    BY <1>1, <2>1, <2>3, <2>6, <2>8 DEF P, w, E, A, n, j
<1> QED
  BY <1>5, <1>6

\* Declarations come with renders that were, and a motion is in a round it has.
Paced ==
  \A c \in MotionChannels :
    /\ declared[c].serial <= motionRenders
    /\ playing[c] # Idle /\ playing[c].motion.rounds # 0 =>
         playing[c].round < playing[c].motion.rounds

\* What goes on is in a round that the motion has.
LEMMA RoundsLeft ==
  ASSUME NEW m \in Motions, m.rounds # 0, NEW i \in Nat, NEW k \in Nat, k < m.rounds,
         reduced \in BOOLEAN
  PROVE  /\ Advance(m, i, k).how # "recurses"
         /\ Advance(m, i, k).how = "runs" => Advance(m, i, k).round < m.rounds
PROOF
<1>1. m.rounds \in Nat
  BY MotionAssumption
<1>2. CASE reduced
  BY <1>2 DEF Advance
<1>3. CASE ~reduced /\ Timed(m, i) # {}
  BY <1>3 DEF Advance
<1>4. CASE ~reduced /\ Timed(m, i) = {}
  BY <1>1, <1>4 DEF Advance, NextRound
<1> QED
  BY <1>2, <1>3, <1>4

\* Motions begin with their first round.
LEMMA RestartPaced ==
  ASSUME MotionInv, Paced, NEW gone, NEW starting, NEW before, Restart(gone, starting, before),
         \A c \in starting : c \in MotionChannels /\ declared'[c].motion \in Motions
  PROVE  \A c \in MotionChannels :
           playing'[c] # Idle /\ playing'[c].motion.rounds # 0 =>
             playing'[c].round < playing'[c].motion.rounds
PROOF
<1> DEFINE first(c)  == FirstStep(declared'[c].motion)
           record(c) == Record(declared'[c].serial, declared'[c].motion, 0, first(c))
           starts     == {c \in starting : first(c).how = "runs"}
<1>1. playing' = [c \in MotionChannels |->
                    IF c \in starts THEN record(c) ELSE IF c \in gone THEN Idle ELSE playing[c]]
  BY DEF Restart
<1>2. reduced \in BOOLEAN
  BY DEF MotionInv, MotionTyped
<1>3. ASSUME NEW c \in starts, record(c).motion.rounds # 0
      PROVE  record(c).round < record(c).motion.rounds
  <2> DEFINE m == declared'[c].motion
  <2>1. m \in Motions /\ first(c).how = "runs"
    OBVIOUS
  <2>2. first(c) = Advance(m, 0, 0)
    BY <2>1 DEF FirstStep
  <2>3. record(c).motion = m /\ record(c).round = first(c).round
    BY DEF Record
  <2> HIDE DEF m, first, record
  <2>4. m.rounds # 0 /\ m.rounds \in Nat
    BY <1>3, <2>1, <2>3, MotionAssumption
  <2>5. 0 < m.rounds
    BY <2>4
  <2> QED
    BY <1>2, <2>1, <2>2, <2>3, <2>4, <2>5, RoundsLeft
<1> HIDE DEF starts, record, first
<1>4. ASSUME NEW c \in MotionChannels, playing'[c] # Idle, playing'[c].motion.rounds # 0
      PROVE  playing'[c].round < playing'[c].motion.rounds
  <2>1. CASE c \in starts
    <3>1. playing'[c] = record(c)
      BY <1>1, <2>1
    <3> QED
      BY <1>3, <1>4, <2>1, <3>1
  <2>2. CASE c \notin starts
    <3>1. playing'[c] = playing[c]
      BY <1>1, <1>4, <2>2
    <3> QED
      BY <1>4, <3>1 DEF Paced
  <2> QED
    BY <2>1, <2>2
<1> QED
  BY <1>4

\* With every frame a motion comes nearer to its end, and stays within its rounds.
LEMMA FrameLeads ==
  ASSUME MotionInv, Paced, NEW time \in 1..FrameTime, Frame(time)
  PROVE  /\ \A t \in frameTasks :
              playing[t.channel].motion.rounds # 0 =>
                \/ playing'[t.channel] = Idle
                \/ \E u \in frameTasks' :
                     /\ u.channel = t.channel
                     /\ TimeLeft(u, playing'[t.channel]) < TimeLeft(t, playing[t.channel])
         /\ Paced'
PROOF
<1> DEFINE due  == {t \in frameTasks : t.begun /\ t.left <= time}
           mine(t) == playing[t.channel] # Idle /\ playing[t.channel].serial = t.serial
           next(t) == Advance(playing[t.channel].motion, t.step, playing[t.channel].round)
           that(how) == {t \in due : mine(t) /\ next(t).how = how}
           record(t) == Record(t.serial, playing[t.channel].motion, t.step, next(t))
           taskOf(c) == CHOOSE t \in frameTasks : t.channel = c
           channelsOf(tasks) == {t.channel : t \in tasks}
           moved(t) == [t EXCEPT !.begun = TRUE, !.left = IF t.begun THEN @ - time ELSE @]
           led(t) == Task(t.channel, record(t))
<1>0. \A m \in Motions : /\ m.rounds \in Nat /\ Len(m.steps) \in Nat /\ StepsOf(m) = 1..Len(m.steps)
                          /\ \A i \in StepsOf(m) : i \in Nat /\ m.steps[i] \in Nat
                          /\ StepsOf(m) \subseteq 0..Len(m.steps)
  BY MotionAssumption DEF StepsOf
<1>1. /\ frameTasks' = {moved(t) : t \in frameTasks \ due} \cup {led(t) : t \in that("runs")}
      /\ UNCHANGED <<declared, reduced, motionRenders>>
  BY DEF Frame
<1>2. PICK dropped \in SUBSET channelsOf(that("recurses")) :
        playing' = [c \in MotionChannels |->
                      IF c \in channelsOf(that("runs")) THEN record(taskOf(c))
                      ELSE IF c \in channelsOf(that("over")) \cup dropped THEN Idle
                      ELSE playing[c]]
  BY DEF Frame
<1>3. reduced \in BOOLEAN /\ time \in Nat /\ time > 0
  BY MotionAssumption DEF MotionInv, MotionTyped
<1>4. ASSUME NEW t \in frameTasks
      PROVE  /\ t.channel \in MotionChannels /\ mine(t) /\ taskOf(t.channel) = t
             /\ \A u \in frameTasks : u.channel = t.channel => u = t
             /\ t = [channel |-> t.channel, serial |-> t.serial, step |-> t.step,
                     left |-> t.left, begun |-> t.begun]
             /\ t.left \in Nat \ {0} /\ t.begun \in BOOLEAN
             /\ playing[t.channel].motion \in Motions /\ playing[t.channel].step = t.step
             /\ t.step \in StepsOf(playing[t.channel].motion) /\ playing[t.channel].round \in Nat
  <2>1. /\ t.channel \in MotionChannels /\ MotionMoves(t.channel) /\ TasksOn(t.channel) = {t}
        /\ t.serial = playing[t.channel].serial /\ t.step = playing[t.channel].step
        /\ playing[t.channel] # Idle
    BY TaskFacts
  <2>2. /\ playing[t.channel].motion \in Motions /\ playing[t.channel].round \in Nat
        /\ t.step \in StepsOf(playing[t.channel].motion)
    BY <2>1 DEF MotionMoves, RunsAs
  <2>3. \A u \in frameTasks : u.channel = t.channel => u = t
    BY <2>1 DEF TasksOn
  <2>4. taskOf(t.channel) \in frameTasks /\ taskOf(t.channel).channel = t.channel
    OBVIOUS
  <2>5. t \in [channel : MotionChannels, serial : Serials, step : Nat, left : Nat \ {0}, begun : BOOLEAN]
    BY DEF MotionInv, MotionTyped
  <2>6. mine(t) /\ taskOf(t.channel) = t
    BY <2>1, <2>3, <2>4
  <2> HIDE DEF mine, taskOf
  <2> QED
    BY <2>1, <2>2, <2>3, <2>5, <2>6
<1>5. /\ \A t : t \in due => t \in frameTasks
      /\ \A t, how : t \in that(how) <=> t \in due /\ next(t).how = how
  <2>1. \A t \in due : mine(t)
    BY <1>4
  <2> QED
    BY <2>1
<1>6. \A c, tasks : c \in channelsOf(tasks) <=> \E t \in tasks : t.channel = c
  OBVIOUS
<1>7. ASSUME NEW t \in frameTasks, t \notin due
      PROVE  /\ moved(t).channel = t.channel /\ moved(t).begun = TRUE
             /\ moved(t).left = IF t.begun THEN t.left - time ELSE t.left
  <2>1. moved(t) = [t EXCEPT !.begun = TRUE, !.left = IF t.begun THEN t.left - time ELSE t.left]
    OBVIOUS
  <2> HIDE DEF moved
  <2>2. t = [channel |-> t.channel, serial |-> t.serial, step |-> t.step, left |-> t.left, begun |-> t.begun]
    BY <1>4
  <2> QED
    BY <2>1, <2>2
<1>8. ASSUME NEW t \in frameTasks
      PROVE  /\ next(t) = Advance(playing[t.channel].motion, t.step, playing[t.channel].round)
             /\ record(t).motion = playing[t.channel].motion /\ record(t).step = next(t).step
             /\ record(t).round = next(t).round
             /\ led(t).channel = t.channel /\ led(t).begun = FALSE
             /\ led(t).left = playing[t.channel].motion.steps[next(t).step]
  BY DEF Record, Task
<1> HIDE DEF mine, next, that, record, taskOf, channelsOf, moved, led
<1>9. ASSUME NEW t \in frameTasks
      PROVE  /\ t \in that("runs") => playing'[t.channel] = record(t)
             /\ t \in that("over") => playing'[t.channel] = Idle
             /\ t \notin due => playing'[t.channel] = playing[t.channel]
  <2>1. \A how : t.channel \in channelsOf(that(how)) <=> t \in that(how)
    BY <1>4, <1>5, <1>6
  <2>2. ~(t \in that("runs") /\ t \in that("over"))
    BY <1>5
  <2>3. t.channel \in MotionChannels /\ taskOf(t.channel) = t
    BY <1>4
  <2>4. t \notin due => t.channel \notin dropped /\ t \notin that("runs") /\ t \notin that("over")
    BY <1>5, <2>1
  <2> HIDE DEF due
  <2> QED
    BY <1>2, <2>1, <2>2, <2>3, <2>4
<1> HIDE DEF due
<1>10. ASSUME NEW t \in frameTasks, playing[t.channel].motion.rounds # 0
       PROVE  playing[t.channel].round < playing[t.channel].motion.rounds
  <2>1. playing[t.channel] # Idle
    BY <1>4 DEF mine
  <2> QED
    BY <1>4, <1>10, <2>1 DEF Paced
<1>11. ASSUME NEW t \in frameTasks, playing[t.channel].motion.rounds # 0
       PROVE  \/ playing'[t.channel] = Idle
              \/ \E u \in frameTasks' :
                   /\ u.channel = t.channel
                   /\ TimeLeft(u, playing'[t.channel]) < TimeLeft(t, playing[t.channel])
  <2> DEFINE c == t.channel
             r == playing[c]
             m == r.motion
             round == Elapsed(m, Len(m.steps))
             rest == round - Elapsed(m, t.step)
             more == (m.rounds - r.round - 1) * round
  <2>1. /\ m \in Motions /\ m.rounds \in Nat /\ r.round \in Nat /\ r.round < m.rounds
        /\ t.step \in StepsOf(m) /\ t.step \in Nat /\ r.step = t.step /\ c \in MotionChannels
        /\ t.left \in Nat \ {0} /\ t.begun \in BOOLEAN
    BY <1>4, <1>10, <1>11, MotionAssumption DEF StepsOf
  <2>2. round \in Int /\ rest \in Int /\ more \in Int
    <3>1. Len(m.steps) \in 0..Len(m.steps) /\ t.step \in 0..Len(m.steps)
      BY <2>1, MotionAssumption DEF StepsOf
    <3>2. round \in Nat /\ Elapsed(m, t.step) \in Nat
      BY <2>1, <3>1, ElapsedFacts
    <3> HIDE DEF m, r, round
    <3> QED
      BY <2>1, <3>2, RoundLess
  <2>3. TimeLeft(t, r) = 2 * (t.left + rest + more) + (IF t.begun THEN 0 ELSE 1)
    BY <2>1 DEF TimeLeft
  <2>4. CASE t \notin due
    <3> DEFINE u == moved(t)
    <3>1. u \in frameTasks' /\ playing'[c] = r
      BY <1>1, <1>9, <2>4
    <3>2. u.channel = c /\ u.begun = TRUE /\ u.left = IF t.begun THEN t.left - time ELSE t.left
      BY <1>7, <2>4
    <3>3. TimeLeft(u, r) = 2 * (u.left + rest + more) + (IF u.begun THEN 0 ELSE 1)
      BY <2>1, <3>2 DEF TimeLeft
    <3> HIDE DEF u, c, r, m, round, rest, more
    <3>4. TimeLeft(u, r) < TimeLeft(t, r)
      BY <1>3, <2>1, <2>2, <2>3, <3>2, <3>3
    <3> QED
      BY <3>1, <3>2, <3>4 DEF c, r
  <2>5. CASE t \in due
    <3>1. next(t).how \in {"runs", "over"}
      <4>1. r.round \in 0..m.rounds
        BY <2>1
      <4>2. Advance(m, t.step, r.round).how \in {"runs", "over", "recurses"}
        BY <1>3, <2>1, <4>1, AdvanceFacts
      <4>3. Advance(m, t.step, r.round).how # "recurses"
        BY <1>3, <1>11, <2>1, RoundsLeft
      <4> QED
        BY <1>8, <4>2, <4>3
    <3>2. CASE next(t).how = "over"
      BY <1>5, <1>9, <2>5, <3>2
    <3>3. CASE next(t).how = "runs"
      <4> DEFINE u == led(t)
                 n == next(t)
      <4>1. u \in frameTasks' /\ playing'[c] = record(t)
        BY <1>1, <1>5, <1>9, <2>5, <3>3
      <4>2. /\ n = Advance(m, t.step, r.round) /\ n.how = "runs" /\ record(t).motion = m
            /\ record(t).step = n.step /\ record(t).round = n.round
            /\ u.channel = c /\ u.begun = FALSE /\ u.left = m.steps[n.step]
        BY <1>8, <3>3
      <4> HIDE DEF n, u
      <4> DEFINE also == (m.rounds - n.round - 1) * round
                 left == round - Elapsed(m, n.step)
      <4>3. /\ n.round \in Nat /\ n.step \in StepsOf(m)
            /\ m.steps[n.step] + left + also <= rest + more
        BY <1>3, <1>11, <2>1, <4>2, AdvancePasses
      <4>4. left \in Int /\ also \in Int /\ m.steps[n.step] \in Int
        <5>1. n.step \in 0..Len(m.steps) /\ m.steps[n.step] \in Nat
          <6> HIDE DEF m, r, round, left, also
          <6> QED
            BY <1>0, <2>1, <4>3
        <5>2. Elapsed(m, n.step) \in Nat
          BY <2>1, <5>1, ElapsedFacts
        <5> HIDE DEF m, r, round
        <5> QED
          <6>1. m.rounds - n.round - 1 \in Int
            BY <2>1, <4>3
          <6>2. also \in Int
            BY <2>2, <6>1, RoundLess
          <6> QED
            BY <2>2, <5>1, <5>2, <6>2
      <4>5. TimeLeft(u, record(t)) = 2 * (m.steps[n.step] + left + also) + 1
        BY <4>2 DEF TimeLeft
      <4> HIDE DEF c, r, m, round, rest, more, left, also
      <4>6. TimeLeft(u, record(t)) < TimeLeft(t, r)
        <5>1. m.steps[n.step] + left + also < t.left + rest + more
          BY <2>1, <2>2, <4>3, <4>4
        <5>2. \A a, b \in Int : a < b => 2 * a + 1 < 2 * b + 0 /\ 2 * a + 1 < 2 * b + 1
          OBVIOUS
        <5>3. m.steps[n.step] + left + also \in Int /\ t.left + rest + more \in Int
          BY <2>1, <2>2, <4>4
        <5> QED
          BY <2>3, <4>5, <5>1, <5>2, <5>3
      <4> QED
        BY <4>1, <4>2, <4>6 DEF c, r
    <3> QED
      BY <3>1, <3>2, <3>3
  <2> QED
    BY <2>4, <2>5
<1>12. Paced'
  <2>1. ASSUME NEW c \in MotionChannels, playing'[c] # Idle, playing'[c].motion.rounds # 0
        PROVE  playing'[c].round < playing'[c].motion.rounds
    <3>1. CASE c \in channelsOf(that("runs"))
      <4>1. PICK t \in frameTasks : t \in that("runs") /\ t.channel = c
        BY <1>5, <1>6, <3>1
      <4>2. playing'[c] = record(t) /\ next(t).how = "runs"
        BY <1>5, <1>9, <4>1
      <4> DEFINE m == playing[c].motion
                 k == playing[c].round
      <4>3. /\ record(t).motion = m /\ record(t).round = next(t).round
            /\ next(t) = Advance(m, t.step, k) /\ m \in Motions /\ k \in Nat
            /\ t.step \in Nat
        BY <1>0, <1>4, <1>8, <4>1
      <4>4. m.rounds # 0 /\ k < m.rounds
        BY <1>10, <2>1, <4>1, <4>2, <4>3
      <4> HIDE DEF m, k
      <4>5. next(t).round < m.rounds
        BY <1>3, <4>2, <4>3, <4>4, RoundsLeft
      <4> QED
        BY <4>2, <4>3, <4>5
    <3>2. CASE c \notin channelsOf(that("runs"))
      <4>1. playing'[c] = playing[c]
        BY <1>2, <2>1, <3>2
      <4> QED
        BY <2>1, <4>1 DEF Paced
    <3> QED
      BY <3>1, <3>2
  <2>2. \A c \in MotionChannels : declared'[c].serial <= motionRenders'
    BY <1>1 DEF Paced
  <2> QED
    BY <2>1, <2>2 DEF Paced
<1> QED
  BY <1>11, <1>12

\* The rounds of motions are kept count of in every run.
LEMMA PacedAlways == MotionSpec => []Paced
PROOF
<1>1. ASSUME MotionInit PROVE Paced
  BY <1>1 DEF MotionInit, Paced, Idle
<1>2. ASSUME MotionInv, Paced, [MotionNext]_motionVars PROVE Paced'
  <2>0. motionRenders \in Nat /\ \A c \in MotionChannels : declared[c].serial \in Nat
    BY <1>2, MotionAssumption DEF MotionInv, MotionTyped, Serials
  <2>1. CASE UNCHANGED motionVars
    BY <1>2, <2>1 DEF Paced, motionVars
  <2>2. ASSUME NEW newTree \in MotionTrees, NEW defer \in BOOLEAN, RenderMotion(newTree, defer)
        PROVE  Paced'
    <3> DEFINE changed  == {c[1] : c \in {c \in MotionChannels : newTree[c] # declared[c].motion}}
               gone     == {c \in MotionChannels : c[1] \in changed}
               moving   == {c \in gone : newTree[c] # Still}
               serial   == motionRenders + 1
               cleared  == [c \in MotionChannels |-> IF c \in gone THEN Unstyled ELSE styled[c]]
               prepared == [c \in MotionChannels |-> IF c \in moving
                              THEN [serial |-> serial, final |-> reduced] ELSE cleared[c]]
    <3>1. /\ motionRenders' = serial
          /\ declared' = [c \in MotionChannels |-> IF c \in gone
                            THEN [serial |-> serial, motion |-> newTree[c]] ELSE declared[c]]
          /\ Restart(gone, {}, prepared) \/ Restart(gone, moving, cleared)
      BY <2>2 DEF RenderMotion
    <3>2. moving \subseteq gone /\ gone \subseteq MotionChannels
      OBVIOUS
    <3>3. \A c \in moving : newTree[c] \in Motions
      BY DEF MotionTrees
    <3> HIDE DEF gone, moving, cleared, prepared
    <3>4. \A c \in MotionChannels : declared'[c].serial <= motionRenders'
      BY <1>2, <2>0, <3>1 DEF Paced
    <3>5. \A c \in moving : c \in MotionChannels /\ declared'[c].motion \in Motions
      BY <3>1, <3>2, <3>3
    <3>6. \A c \in MotionChannels :
            playing'[c] # Idle /\ playing'[c].motion.rounds # 0 =>
              playing'[c].round < playing'[c].motion.rounds
      <4>1. CASE Restart(gone, {}, prepared)
        BY <1>2, <4>1, RestartPaced
      <4>2. CASE Restart(gone, moving, cleared)
        BY <1>2, <3>5, <4>2, RestartPaced
      <4> QED
        BY <3>1, <4>1, <4>2
    <3> QED
      BY <3>4, <3>6 DEF Paced
  <2>3. ASSUME ActivateDeferred PROVE Paced'
    <3> DEFINE starting == {c \in MotionChannels : deferred[c] # Idle /\ ~deferred[c].reduced}
    <3>1. UNCHANGED <<declared, motionRenders>> /\ Restart({}, starting, styled)
      BY <2>3 DEF ActivateDeferred
    <3>2. \A c \in starting : c \in MotionChannels /\ declared'[c].motion \in Motions
      BY <1>2, <3>1 DEF MotionInv, MotionTyped, ChannelSound, DeferredRests
    <3> HIDE DEF starting
    <3>3. \A c \in MotionChannels :
            playing'[c] # Idle /\ playing'[c].motion.rounds # 0 =>
              playing'[c].round < playing'[c].motion.rounds
      BY <1>2, <3>1, <3>2, RestartPaced
    <3> QED
      BY <1>2, <3>1, <3>3 DEF Paced
  <2>4. ASSUME PreferenceChanges PROVE Paced'
    BY <1>2, <2>4 DEF PreferenceChanges, Paced
  <2>5. ASSUME NEW time \in 1..FrameTime, Frame(time) PROVE Paced'
    BY <1>2, <2>5, FrameLeads
  <2> QED
    BY <1>2, <2>1, <2>2, <2>3, <2>4, <2>5 DEF MotionNext
<1> QED
  BY <1>1, <1>2, MotionInductive, PTL DEF MotionSpec

\* Only a render that changes a declaration takes the task from a motion.
LEMMA RenderKeepsTasks ==
  ASSUME MotionInv, Paced, NEW newTree \in MotionTrees, NEW defer \in BOOLEAN,
         RenderMotion(newTree, defer), UNCHANGED declared
  PROVE  frameTasks' = frameTasks
PROOF
<1> DEFINE changed  == {c[1] : c \in {c \in MotionChannels : newTree[c] # declared[c].motion}}
           gone     == {c \in MotionChannels : c[1] \in changed}
           moving   == {c \in gone : newTree[c] # Still}
           serial   == motionRenders + 1
           cleared  == [c \in MotionChannels |-> IF c \in gone THEN Unstyled ELSE styled[c]]
           prepared == [c \in MotionChannels |-> IF c \in moving
                          THEN [serial |-> serial, final |-> reduced] ELSE cleared[c]]
<1>1. /\ declared' = [c \in MotionChannels |-> IF c \in gone
                        THEN [serial |-> serial, motion |-> newTree[c]] ELSE declared[c]]
      /\ Restart(gone, {}, prepared) \/ Restart(gone, moving, cleared)
  BY DEF RenderMotion
<1>2. moving \subseteq gone /\ gone \subseteq MotionChannels
  OBVIOUS
<1> HIDE DEF gone, moving, cleared, prepared
<1>3. gone = {}
  <2>1. motionRenders \in Nat /\ \A c \in MotionChannels : declared[c].serial \in Nat
    BY MotionAssumption DEF MotionInv, MotionTyped, Serials
  <2>2. ASSUME NEW c \in gone PROVE FALSE
    <3>1. declared[c].serial = motionRenders + 1
      BY <1>1, <1>2
    <3> QED
      BY <1>2, <2>1, <3>1 DEF Paced
  <2> QED
    BY <2>2
<1>4. moving = {} /\ Cancelled(gone) = {}
  BY <1>2, <1>3 DEF Cancelled
<1>5. CASE Restart(gone, {}, prepared)
  BY <1>4, <1>5 DEF Restart
<1>6. CASE Restart(gone, moving, cleared)
  BY <1>4, <1>6 DEF Restart
<1> QED
  BY <1>1, <1>5, <1>6

\* Every frame brings every motion that is not continuous nearer to its end, for any
\* motions, elements and lengths of frames.
THEOREM FramesLead == MotionSpec => FramesLeadToTheEnd
PROOF
<1> DEFINE Leads ==
             UNCHANGED <<declared, deferring>> /\ frameTasks' # frameTasks =>
               \A t \in frameTasks :
                 LET c == t.channel
                     r == playing[c]
                 IN  r.motion.rounds # 0 =>
                       \/ playing'[c] = Idle
                       \/ \E u \in frameTasks' :
                            u.channel = c /\ TimeLeft(u, playing'[c]) < TimeLeft(t, r)
<1>1. ASSUME MotionInv, Paced, [MotionNext]_motionVars PROVE [Leads]_motionVars
  <2>1. ASSUME UNCHANGED <<declared, deferring>>, frameTasks' # frameTasks
        PROVE  \A t \in frameTasks :
                 playing[t.channel].motion.rounds # 0 =>
                   \/ playing'[t.channel] = Idle
                   \/ \E u \in frameTasks' :
                        /\ u.channel = t.channel
                        /\ TimeLeft(u, playing'[t.channel]) < TimeLeft(t, playing[t.channel])
    <3>1. ~UNCHANGED motionVars
      BY <2>1 DEF motionVars
    <3>2. \A newTree \in MotionTrees, defer \in BOOLEAN : ~RenderMotion(newTree, defer)
      BY <1>1, <2>1, RenderKeepsTasks
    <3>3. ~ActivateDeferred /\ ~PreferenceChanges
      BY <2>1 DEF ActivateDeferred, PreferenceChanges
    <3>4. PICK time \in 1..FrameTime : Frame(time)
      BY <1>1, <3>1, <3>2, <3>3 DEF MotionNext
    <3> QED
      BY <1>1, <3>4, FrameLeads
  <2> QED
    BY <2>1
<1>2. FramesLeadToTheEnd <=> [][Leads]_motionVars
  BY DEF FramesLeadToTheEnd
<1> HIDE DEF Leads
<1> QED
  BY <1>1, <1>2, MotionInductive, PacedAlways, PTL DEF MotionSpec
-----------------------------------------------------------------------------
(* The requests of an application to the host. *)

Elements(q) == {q[i] : i \in 1..Len(q)}
NoRepeats(q) == \A i, j \in 1..Len(q) : q[i] = q[j] => i = j

\* The queue holds each request once, and none that a loop took.
QueueSound ==
  /\ NoRepeats(requestQueue)
  /\ Queued \cap DOMAIN ledger = {}

\* What the books name was made.
OnlyMade == slots \subseteq 1..made /\ DOMAIN ledger \subseteq 1..made

\* An answer comes to a request that a loop took, and the application is told of
\* it when that loop goes on.
AnsweredInTurn ==
  \A id \in Ids :
    /\ id \in Queued \/ id > made => answer[id] = "none"
    /\ id \in Queued \cup Handling \/ id > made => outcome[id] = "none"

RequestsInv ==
  /\ RequestsTypeOK
  /\ RequestsAccounted
  /\ QueueSound /\ OnlyMade /\ AnsweredInTurn
-----------------------------------------------------------------------------
(* The queue. *)

\* The requests of a turn go to the end of the queue, in the order they were made.
LEMMA QueueExtended ==
  ASSUME NEW q \in Seq(Ids), NEW n \in Nat, made \in Nat, made + n <= MaxRequests,
         NoRepeats(q), Elements(q) \subseteq 1..made
  PROVE  /\ Extended(q, n) \in Seq(Ids)
         /\ Elements(Extended(q, n)) = Elements(q) \cup NewIds(n)
         /\ NoRepeats(Extended(q, n))
<1> DEFINE s == [i \in 1..n |-> made + i]
           e == Extended(q, n)
<1>1. MaxRequests \in Nat
  BY HostAssumption
<1>2. s \in [1..n -> Ids]
  BY <1>1 DEF Ids
<1>3. s \in Seq(Ids)
  BY <1>2, SeqDef
<1>4. Len(s) = n
  BY <1>2, <1>3, LenProperties
<1>5. Len(q) \in Nat /\ \A i \in 1..Len(q) : q[i] \in 1..made
  BY LenProperties DEF Elements
<1>6. /\ e \in Seq(Ids)
      /\ Len(e) = Len(q) + n
      /\ \A i \in 1..Len(q) + n : e[i] = IF i <= Len(q) THEN q[i] ELSE s[i - Len(q)]
  BY <1>3, <1>4, ConcatProperties DEF Extended
<1>7. \A k \in 1..n : s[k] = made + k
  OBVIOUS
<1> HIDE DEF s, e
<1>8. \A i \in 1..Len(q) + n : ~(i <= Len(q)) => i - Len(q) \in 1..n
  BY <1>5
<1>9. \A i \in 1..Len(q) + n : e[i] = IF i <= Len(q) THEN q[i] ELSE made + (i - Len(q))
  BY <1>6, <1>7, <1>8
<1>10. Elements(e) = Elements(q) \cup NewIds(n)
  <2>1. ASSUME NEW id \in Elements(e)
        PROVE  id \in Elements(q) \cup NewIds(n)
    <3>1. PICK i \in 1..Len(q) + n : id = e[i]
      BY <1>6, <2>1 DEF Elements
    <3>2. CASE i <= Len(q)
      <4>1. i \in 1..Len(q) /\ id = q[i]
        BY <1>5, <1>9, <3>1, <3>2
      <4> QED
        BY <4>1 DEF Elements
    <3>3. CASE ~(i <= Len(q))
      <4>1. id = made + (i - Len(q)) /\ i - Len(q) \in 1..n
        BY <1>5, <1>9, <3>1, <3>3
      <4> QED
        BY <4>1 DEF NewIds
    <3> QED
      BY <3>2, <3>3
  <2>2. ASSUME NEW id \in Elements(q)
        PROVE  id \in Elements(e)
    <3>1. PICK i \in 1..Len(q) : id = q[i]
      BY <2>2 DEF Elements
    <3>2. i \in 1..Len(e) /\ id = e[i]
      BY <1>5, <1>6, <1>9, <3>1
    <3> QED
      BY <3>2 DEF Elements
  <2>3. ASSUME NEW id \in NewIds(n)
        PROVE  id \in Elements(e)
    <3>1. id \in Nat /\ id >= made + 1 /\ id <= made + n
      BY <2>3 DEF NewIds
    <3>2. (id - made) + Len(q) \in 1..Len(q) + n
      BY <1>5, <3>1
    <3>3. e[(id - made) + Len(q)] = id
      BY <1>5, <1>9, <3>1, <3>2
    <3> QED
      BY <1>6, <3>2, <3>3 DEF Elements
  <2> QED
    BY <2>1, <2>2, <2>3
<1>11. NoRepeats(e)
  <2> SUFFICES ASSUME NEW i \in 1..Len(q) + n, NEW j \in 1..Len(q) + n, e[i] = e[j]
               PROVE  i = j
    BY <1>6 DEF NoRepeats
  <2>1. \A k \in 1..Len(q) + n : k <= Len(q) => k \in 1..Len(q) /\ e[k] = q[k] /\ e[k] <= made
    BY <1>5, <1>9
  <2>2. \A k \in 1..Len(q) + n : ~(k <= Len(q)) => e[k] = made + (k - Len(q)) /\ e[k] > made
    BY <1>5, <1>9
  <2>3. CASE i <= Len(q) /\ j <= Len(q)
    BY <2>1, <2>3 DEF NoRepeats
  <2>4. CASE ~(i <= Len(q)) /\ ~(j <= Len(q))
    BY <1>5, <2>2, <2>4
  <2>5. ~(i <= Len(q) /\ ~(j <= Len(q))) /\ ~(~(i <= Len(q)) /\ j <= Len(q))
    <3>1. \A k \in 1..Len(q) : q[k] \in Nat
      BY <1>5
    <3> QED
      BY <2>1, <2>2, <3>1
  <2> QED
    BY <2>3, <2>4, <2>5
<1> QED
  BY <1>6, <1>10, <1>11 DEF e

\* take_request takes out the oldest request and leaves the others as they are.
LEMMA QueueTaken ==
  ASSUME NEW q \in Seq(Ids), q # <<>>, NoRepeats(q)
  PROVE  /\ Head(q) \in Ids /\ Head(q) \in Elements(q)
         /\ Tail(q) \in Seq(Ids) /\ NoRepeats(Tail(q))
         /\ Elements(Tail(q)) = Elements(q) \ {Head(q)}
<1> DEFINE t == Tail(q)
<1>1. /\ Len(q) \in Nat /\ Len(q) > 0
      /\ Head(q) = q[1]
  BY EmptySeq, LenProperties
<1>2. /\ Head(q) \in Ids /\ t \in Seq(Ids) /\ Len(t) = Len(q) - 1
      /\ \A i \in 1..Len(t) : t[i] = q[i + 1]
  BY HeadTailProperties
<1> HIDE DEF t
<1>3. Head(q) \in Elements(q)
  BY <1>1 DEF Elements
<1>4. NoRepeats(t)
  <2> SUFFICES ASSUME NEW i \in 1..Len(t), NEW j \in 1..Len(t), t[i] = t[j]
               PROVE  i = j
    BY DEF NoRepeats
  <2>1. i + 1 \in 1..Len(q) /\ j + 1 \in 1..Len(q) /\ q[i + 1] = q[j + 1]
    BY <1>1, <1>2
  <2> QED
    BY <2>1 DEF NoRepeats
<1>5. Elements(t) = Elements(q) \ {Head(q)}
  <2>1. ASSUME NEW id \in Elements(t)
        PROVE  id \in Elements(q) /\ id # Head(q)
    <3>1. PICK i \in 1..Len(t) : id = t[i]
      BY <2>1 DEF Elements
    <3>2. i + 1 \in 1..Len(q) /\ id = q[i + 1] /\ 1 \in 1..Len(q) /\ i + 1 # 1
      BY <1>1, <1>2, <3>1
    <3>3. q[i + 1] # q[1]
      BY <3>2 DEF NoRepeats
    <3> QED
      BY <1>1, <3>2, <3>3 DEF Elements
  <2>2. ASSUME NEW id \in Elements(q), id # Head(q)
        PROVE  id \in Elements(t)
    <3>1. PICK i \in 1..Len(q) : id = q[i]
      BY <2>2 DEF Elements
    <3>2. i # 1
      BY <1>1, <2>2, <3>1
    <3>3. i - 1 \in 1..Len(t) /\ t[i - 1] = q[(i - 1) + 1] /\ (i - 1) + 1 = i
      BY <1>1, <1>2, <3>1, <3>2
    <3> QED
      BY <3>1, <3>3 DEF Elements
  <2> QED
    BY <2>1, <2>2
<1> QED
  BY <1>2, <1>3, <1>4, <1>5 DEF t
-----------------------------------------------------------------------------
(* What a step does to queue, slots, loops and ledger. *)

\* The place of loop l is taken by v, a request nobody handles or none at all.
LEMMA LoopMoves ==
  ASSUME RequestsInv, NEW l \in Loops, NEW v \in Ids \cup {NoRequest}, v \notin Handling,
         loop' = [loop EXCEPT ![l] = v]
  PROVE  /\ loop' \in [Loops -> Ids \cup {NoRequest}]
         /\ \A m, k \in Loops : m # k /\ loop'[m] # NoRequest => loop'[m] # loop'[k]
         /\ Handling' = (Handling \ {loop[l]}) \cup ({v} \ {NoRequest})
<1>1. loop \in [Loops -> Ids \cup {NoRequest}]
  BY DEF RequestsInv, RequestsTypeOK
<1>2. \A m, k \in Loops : m # k /\ loop[m] # NoRequest => loop[m] # loop[k]
  BY DEF RequestsInv, RequestsAccounted, BooksMirrorLoops
<1>3. \A m \in Loops : loop'[m] = IF m = l THEN v ELSE loop[m]
  BY <1>1
<1>4. \A m \in Loops : v # NoRequest => v # loop[m]
  BY DEF Handling
<1>5. \A m, k \in Loops : m # k /\ loop'[m] # NoRequest => loop'[m] # loop'[k]
  BY <1>2, <1>3, <1>4
<1>6. Handling' = (Handling \ {loop[l]}) \cup ({v} \ {NoRequest})
  BY <1>2, <1>3 DEF Handling
<1> QED
  BY <1>1, <1>5, <1>6

\* The slots that a turn leaves taken, and those it takes, are within the limit.
LEMMA SlotsLimited ==
  ASSUME RequestsInv, NEW held \in SUBSET slots, NEW n \in Nat, Requested(n, held)
  PROVE  /\ slots' \subseteq Ids /\ Cardinality(slots') <= InFlight
         /\ made' \in 0..MaxRequests /\ made' = made + n
         /\ slots' \subseteq 1..made'
         /\ kind' \in [Ids -> AllKinds \cup {"none"}]
         /\ \A id \in 1..made : kind'[id] = kind[id]
<1>1. MaxRequests \in Nat /\ InFlight \in Nat
  BY HostAssumption
<1>2. /\ made \in 0..MaxRequests /\ slots \subseteq 1..made
      /\ kind \in [Ids -> AllKinds \cup {"none"}]
  BY DEF RequestsInv, RequestsTypeOK, OnlyMade
<1>3. /\ made' = made + n /\ made + n <= MaxRequests
      /\ slots' = held \cup NewIds(n)
      /\ Cardinality(held) + n <= InFlight
  BY DEF Requested
<1>4. IsFiniteSet(held) /\ Cardinality(held) \in Nat
  <2>1. IsFiniteSet(1..made)
    BY <1>2, FS_Interval
  <2>2. IsFiniteSet(held)
    BY <1>2, <2>1, FS_Subset
  <2> QED
    BY <2>2, FS_CardinalityType
<1>5. IsFiniteSet(NewIds(n)) /\ Cardinality(NewIds(n)) = n
  <2>1. /\ IsFiniteSet((made + 1)..(made + n))
        /\ Cardinality((made + 1)..(made + n))
             = IF made + 1 > made + n THEN 0 ELSE (made + n) - (made + 1) + 1
    BY <1>2, FS_Interval
  <2> QED
    BY <1>2, <2>1 DEF NewIds
<1>6. Cardinality(slots') <= InFlight
  <2>1. held \cap NewIds(n) = {}
    BY <1>2 DEF NewIds
  <2>2. Cardinality(slots') = Cardinality(held) + Cardinality(NewIds(n)) - Cardinality({})
    BY <1>3, <1>4, <1>5, <2>1, FS_Union
  <2> QED
    BY <1>3, <1>4, <1>5, <2>2, FS_EmptySet
<1>7. slots' \subseteq 1..made' /\ slots' \subseteq Ids
  BY <1>1, <1>2, <1>3 DEF NewIds, Ids
<1>8. /\ kind' \in [Ids -> AllKinds \cup {"none"}]
      /\ \A id \in 1..made : kind'[id] = kind[id]
  <2>1. PICK k \in [NewIds(n) -> Kinds] :
          kind' = [id \in Ids |-> IF id \in NewIds(n) THEN k[id] ELSE kind[id]]
    BY DEF Requested
  <2>2. \A id \in Ids : IF id \in NewIds(n) THEN k[id] \in AllKinds
                        ELSE kind[id] \in AllKinds \cup {"none"}
    BY <1>2, HostAssumption
  <2>3. \A id \in 1..made : id \in Ids /\ id \notin NewIds(n)
    BY <1>1, <1>2 DEF NewIds, Ids
  <2> QED
    BY <2>1, <2>2, <2>3
<1> QED
  BY <1>1, <1>2, <1>3, <1>6, <1>7, <1>8

\* The books after a turn of loop l that made n requests and took request v, or none.
GoesOnWith(l, n, v) ==
  /\ v \in Queued \cup NewIds(n) \cup {NoRequest}
  /\ loop' = [loop EXCEPT ![l] = v]
  /\ requestQueue' \in Seq(Ids) /\ NoRepeats(requestQueue')
  /\ Queued' = (Queued \cup NewIds(n)) \ {v}
  /\ DOMAIN ledger' = (DOMAIN ledger \ {loop[l]}) \cup ({v} \ {NoRequest})
  /\ ledger' \in [DOMAIN ledger' -> Nat]

\* A loop goes on with the oldest request there is, or ends.
LEMMA LoopGoesOn ==
  ASSUME RequestsInv, NEW l \in Loops, NEW n \in Nat, made + n <= MaxRequests,
         \/ NextTaken(l, Extended(requestQueue, n), Without(ledger, loop[l]))
         \/ /\ requestQueue' = Extended(requestQueue, n)
            /\ loop' = [loop EXCEPT ![l] = NoRequest]
            /\ ledger' = Without(ledger, loop[l])
  PROVE  \E v \in Ids \cup {NoRequest} : GoesOnWith(l, n, v)
<1> DEFINE q == Extended(requestQueue, n)
           rest == Without(ledger, loop[l])
<1>1. /\ requestQueue \in Seq(Ids) /\ NoRepeats(requestQueue) /\ made \in Nat
      /\ Elements(requestQueue) = Queued /\ Queued \subseteq 1..made
      /\ ledger \in [DOMAIN ledger -> Nat]
      /\ now \in Nat
  <2>1. /\ requestQueue \in Seq(Ids) /\ made \in 0..MaxRequests /\ now \in Nat
        /\ ledger \in [DOMAIN ledger -> Nat]
    BY DEF RequestsInv, RequestsTypeOK
  <2>2. NoRepeats(requestQueue)
    BY DEF RequestsInv, QueueSound
  <2>3. Queued \subseteq 1..made
    BY DEF RequestsInv, RequestsAccounted, BooksMirrorLoops, OnlyMade
  <2>4. Elements(requestQueue) = Queued
    BY DEF Elements, Queued
  <2> QED
    BY <2>1, <2>2, <2>3, <2>4, HostAssumption
<1>2. q \in Seq(Ids) /\ Elements(q) = Queued \cup NewIds(n) /\ NoRepeats(q)
  BY <1>1, QueueExtended
<1>3. DOMAIN rest = DOMAIN ledger \ {loop[l]} /\ rest \in [DOMAIN rest -> Nat]
  BY <1>1 DEF Without
<1>4. NoRequest \notin Ids /\ Deadline \in Nat
  BY HostAssumption
<1>5. Queued' = Elements(requestQueue')
  BY DEF Queued, Elements
<1>6. \A id \in Elements(q) : id \in Ids
  BY <1>2, ElementOfSeq DEF Elements
<1> HIDE DEF q, rest
<1>7. CASE /\ requestQueue' = q /\ ledger' = rest
           /\ loop' = [loop EXCEPT ![l] = NoRequest]
  <2>1. Queued' = (Queued \cup NewIds(n)) \ {NoRequest}
    BY <1>2, <1>4, <1>5, <1>6, <1>7
  <2>2. GoesOnWith(l, n, NoRequest)
    BY <1>2, <1>3, <1>7, <2>1 DEF GoesOnWith
  <2> QED
    BY <2>2
<1>8. CASE /\ q # <<>>
           /\ loop' = [loop EXCEPT ![l] = Head(q)]
           /\ requestQueue' = Tail(q)
           /\ ledger' = [id \in DOMAIN rest \cup {Head(q)} |->
                           IF id = Head(q) THEN now + Deadline ELSE rest[id]]
  <2>1. /\ Head(q) \in Ids /\ Head(q) \in Elements(q)
        /\ Tail(q) \in Seq(Ids) /\ NoRepeats(Tail(q))
        /\ Elements(Tail(q)) = Elements(q) \ {Head(q)}
    BY <1>2, <1>8, QueueTaken
  <2>2. DOMAIN ledger' = DOMAIN rest \cup {Head(q)}
    BY <1>8
  <2>3. ledger' \in [DOMAIN ledger' -> Nat]
    BY <1>1, <1>3, <1>4, <1>8
  <2>4. GoesOnWith(l, n, Head(q))
    BY <1>2, <1>3, <1>4, <1>5, <1>8, <2>1, <2>2, <2>3 DEF GoesOnWith
  <2> QED
    BY <2>1, <2>4
<1> QED
  BY <1>7, <1>8 DEF NextTaken, q, rest
-----------------------------------------------------------------------------
(* The steps of the loops. *)

\* The conjuncts of the books, without those of the application.
LEMMA BooksOf ==
  ASSUME RequestsInv
  PROVE  /\ made \in Nat /\ NoRequest \notin Ids /\ 1..made \subseteq Ids
         /\ Handling \subseteq Ids /\ Handling \subseteq DOMAIN ledger
         /\ \A id \in DOMAIN ledger \ Handling : failed /\ answer[id] = "invalid"
         /\ Queued \subseteq slots /\ Handling \subseteq slots
         /\ ~failed => slots = Queued \cup Handling
         /\ slots \subseteq 1..made /\ DOMAIN ledger \subseteq 1..made
         /\ Queued \cap DOMAIN ledger = {}
         /\ failed \in BOOLEAN
<1>1. made \in 0..MaxRequests /\ MaxRequests \in Nat /\ NoRequest \notin Ids
  BY HostAssumption DEF RequestsInv, RequestsTypeOK
<1>2. Handling \subseteq Ids
  BY DEF RequestsInv, RequestsTypeOK, Handling
<1>3. 1..made \subseteq Ids
  BY <1>1 DEF Ids
<1> QED
  BY <1>1, <1>2, <1>3 DEF RequestsInv, RequestsTypeOK, RequestsAccounted, BooksMirrorLoops,
     QueueSound, OnlyMade

\* What the application was told of the request that loop l goes on from.
ToldBy(l) ==
  \/ loop[l] = NoRequest /\ outcome' = outcome
  \/ loop[l] # NoRequest /\ Ready(l) /\ Tell(l)

\* A turn that follows an event or an answer keeps all books, whether its loop goes
\* on or ends with the application's error.
LEMMA TurnKeepsBooks ==
  ASSUME RequestsInv, NEW l \in Loops, NEW n \in Nat, NEW v \in Ids \cup {NoRequest},
         Requested(n, slots \ {loop[l]}), GoesOnWith(l, n, v), ToldBy(l),
         failed' \in BOOLEAN, failed => failed', UNCHANGED <<now, answer>>
  PROVE  RequestsInv'
<1> DEFINE r == loop[l]
<1>1. /\ made \in Nat /\ NoRequest \notin Ids /\ 1..made \subseteq Ids
      /\ Handling \subseteq Ids /\ Handling \subseteq DOMAIN ledger
      /\ \A id \in DOMAIN ledger \ Handling : failed /\ answer[id] = "invalid"
      /\ Queued \subseteq slots /\ Handling \subseteq slots
      /\ ~failed => slots = Queued \cup Handling
      /\ slots \subseteq 1..made /\ DOMAIN ledger \subseteq 1..made
      /\ Queued \cap DOMAIN ledger = {}
  BY BooksOf
<1>2. /\ slots' \subseteq Ids /\ Cardinality(slots') <= InFlight
      /\ made' \in 0..MaxRequests /\ made' = made + n
      /\ slots' \subseteq 1..made'
      /\ kind' \in [Ids -> AllKinds \cup {"none"}]
      /\ \A id \in 1..made : kind'[id] = kind[id]
  BY SlotsLimited
<1>3. slots' = (slots \ {r}) \cup NewIds(n)
  BY DEF Requested
<1>4. NewIds(n) \cap 1..made = {} /\ NewIds(n) \subseteq 1..made' /\ 1..made \subseteq 1..made'
  BY <1>1, <1>2 DEF NewIds
<1>5. /\ v \in Queued \cup NewIds(n) \cup {NoRequest}
      /\ loop' = [loop EXCEPT ![l] = v]
      /\ requestQueue' \in Seq(Ids) /\ NoRepeats(requestQueue')
      /\ Queued' = (Queued \cup NewIds(n)) \ {v}
      /\ DOMAIN ledger' = (DOMAIN ledger \ {r}) \cup ({v} \ {NoRequest})
      /\ ledger' \in [DOMAIN ledger' -> Nat]
  BY DEF GoesOnWith
<1>6. v \notin Handling
  BY <1>1, <1>4, <1>5
<1>7. r = NoRequest \/ r \in Handling
  BY DEF Handling
<1>8. /\ loop' \in [Loops -> Ids \cup {NoRequest}]
      /\ \A m, k \in Loops : m # k /\ loop'[m] # NoRequest => loop'[m] # loop'[k]
      /\ Handling' = (Handling \ {r}) \cup ({v} \ {NoRequest})
  BY <1>5, <1>6, LoopMoves
<1> HIDE DEF r
<1>9. BooksMirrorLoops'
  <2>1. Handling' \subseteq DOMAIN ledger'
    BY <1>1, <1>5, <1>8
  <2>2. \A id \in DOMAIN ledger' \ Handling' : failed' /\ answer'[id] = "invalid"
    BY <1>1, <1>5, <1>8
  <2>3. r \notin Queued \cup NewIds(n)
    <3>1. r = NoRequest \/ (r \in 1..made /\ r \in DOMAIN ledger)
      BY <1>1, <1>7
    <3>2. NewIds(n) \subseteq Ids
      <4>1. made' \in 0..MaxRequests /\ MaxRequests \in Nat
        BY <1>2, HostAssumption
      <4>2. 1..made' \subseteq Ids
        BY <4>1 DEF Ids
      <4> QED
        BY <1>4, <4>2
    <3>3. Queued \subseteq Ids
      BY <1>1
    <3> QED
      BY <1>1, <1>4, <3>1, <3>2, <3>3
  <2>4. r \notin Queued' \cup Handling'
    <3>1. r \notin Queued'
      BY <1>5, <2>3
    <3>2. r \notin Handling'
      BY <1>5, <1>8, <2>3
    <3> QED
      BY <3>1, <3>2
  <2>5. /\ Queued' \cup Handling' \subseteq Queued \cup Handling \cup NewIds(n)
        /\ (Queued \cup Handling \cup NewIds(n)) \ {r} \subseteq Queued' \cup Handling'
    <3>1. Queued' \subseteq Queued \cup NewIds(n)
      BY <1>5
    <3>2. Handling' \subseteq Queued \cup Handling \cup NewIds(n)
      BY <1>5, <1>8
    <3>3. Handling \ {r} \subseteq Handling'
      BY <1>8
    <3>4. ASSUME NEW id \in Queued \cup NewIds(n)
          PROVE  id \in Queued' \cup Handling'
      <4>1. id # NoRequest
        BY <1>1, <1>2, HostAssumption DEF NewIds, Ids
      <4> QED
        BY <1>5, <1>8, <3>4, <4>1
    <3> QED
      BY <3>1, <3>2, <3>3, <3>4
  <2>6. Queued' \cup Handling' \subseteq slots'
    BY <1>1, <1>3, <2>4, <2>5
  <2>7. ~failed' => slots' = Queued' \cup Handling'
    <3>1. r \notin NewIds(n)
      BY <2>3
    <3> QED
      BY <1>1, <1>3, <2>4, <2>5, <3>1
  <2> QED
    BY <1>8, <2>1, <2>2, <2>6, <2>7 DEF BooksMirrorLoops
<1>10. QueueSound'
  <2>1. Queued' \cap DOMAIN ledger' = {}
    BY <1>1, <1>4, <1>5
  <2> QED
    BY <1>5, <2>1 DEF QueueSound, NoRepeats
<1>11. OnlyMade'
  BY <1>1, <1>2, <1>4, <1>5 DEF OnlyMade
<1>12. /\ answer \in [Ids -> Answers] /\ outcome \in [Ids -> Answers \cup {"unreported"}]
       /\ now \in Nat
  BY DEF RequestsInv, RequestsTypeOK
<1>13. /\ outcome' \in [Ids -> Answers \cup {"unreported"}]
       /\ \A id \in Ids : id # r => outcome'[id] = outcome[id]
       /\ r # NoRequest => outcome'[r] = IF kind[r] = "timer" THEN "unreported" ELSE answer[r]
  <2>1. CASE r = NoRequest
    BY <1>1, <1>12, <2>1 DEF ToldBy, r
  <2>2. CASE r # NoRequest
    <3>1. r \in Ids
      BY <1>1, <1>7, <2>2
    <3>2. outcome' = [outcome EXCEPT ![r] = IF kind[r] = "timer" THEN "unreported" ELSE answer[r]]
      BY <2>2 DEF ToldBy, Tell, r
    <3> QED
      BY <1>12, <3>1, <3>2
  <2> QED
    BY <2>1, <2>2
<1>14. RequestsTypeOK'
  BY <1>1, <1>2, <1>5, <1>8, <1>11, <1>12, <1>13 DEF RequestsTypeOK, OnlyMade
<1>15. AnsweredInTurn'
  <2> SUFFICES ASSUME NEW id \in Ids
               PROVE  /\ id \in Queued' \/ id > made' => answer[id] = "none"
                      /\ id \in Queued' \cup Handling' \/ id > made' => outcome'[id] = "none"
    BY DEF AnsweredInTurn
  <2>1. /\ id \in Queued \/ id > made => answer[id] = "none"
        /\ id \in Queued \cup Handling \/ id > made => outcome[id] = "none"
    BY DEF RequestsInv, AnsweredInTurn
  <2>2. id \in NewIds(n) \/ id > made' => id > made
    <3>1. id \in Nat /\ made \in Nat
      BY <1>1, HostAssumption DEF Ids
    <3> QED
      BY <1>2, <3>1 DEF NewIds
  <2>3. /\ id \in Queued' => id \in Queued \/ id > made
        /\ id \in Handling' => id \in Queued \cup Handling \/ id > made
    BY <1>5, <1>8, <2>2
  <2>4. id \in Queued' \cup Handling' => id # r
    BY <1>1, <1>4, <1>5, <1>7, <1>8
  <2>5. id > made' => id # r
    <3>1. r \in Ids => r \in 1..made
      BY <1>1, <1>7
    <3>2. id > made' => id \notin 1..made
      BY <1>1, <1>2
    <3> QED
      BY <3>1, <3>2
  <2> QED
    BY <1>13, <2>1, <2>2, <2>3, <2>4, <2>5
<1>16. AnswersAccounted'
  <2> SUFFICES ASSUME NEW id \in 1..made', answer[id] # "none", id \notin Handling'
               PROVE  \/ outcome'[id] = answer[id]
                      \/ outcome'[id] = "unreported" /\ kind'[id] = "timer"
                      \/ outcome'[id] = "none" /\ failed'
    BY DEF AnswersAccounted
  <2>1. id \in Ids
    BY <1>2, HostAssumption DEF Ids
  <2>2. id \in 1..made
    BY <1>1, <1>2, <2>1 DEF RequestsInv, AnsweredInTurn
  <2>3. CASE id = r
    BY <1>1, <1>2, <1>13, <2>1, <2>2, <2>3
  <2>4. CASE id # r
    BY <1>2, <1>8, <1>13, <2>1, <2>2, <2>4 DEF RequestsInv, RequestsAccounted, AnswersAccounted
  <2> QED
    BY <2>3, <2>4
<1> QED
  BY <1>9, <1>10, <1>11, <1>14, <1>15, <1>16 DEF RequestsInv, RequestsAccounted

\* A raise in a turn leaves what it requested in the queue.
LEMMA RaiseKeepsBooks ==
  ASSUME RequestsInv, DispatchRaises
  PROVE  RequestsInv'
<1>1. /\ made \in Nat /\ NoRequest \notin Ids /\ 1..made \subseteq Ids
      /\ Handling \subseteq Ids /\ Handling \subseteq DOMAIN ledger
      /\ \A id \in DOMAIN ledger \ Handling : failed /\ answer[id] = "invalid"
      /\ Queued \subseteq slots /\ Handling \subseteq slots
      /\ slots \subseteq 1..made /\ DOMAIN ledger \subseteq 1..made
      /\ Queued \cap DOMAIN ledger = {}
  BY BooksOf
<1>2. PICK n \in 0..MaxBurst : /\ Requested(n, slots)
                               /\ requestQueue' = Extended(requestQueue, n)
  BY DEF DispatchRaises
<1>3. n \in Nat
  BY HostAssumption
<1>4. /\ slots' \subseteq Ids /\ Cardinality(slots') <= InFlight
      /\ made' \in 0..MaxRequests /\ made' = made + n
      /\ slots' \subseteq 1..made'
      /\ kind' \in [Ids -> AllKinds \cup {"none"}]
      /\ \A id \in 1..made : kind'[id] = kind[id]
  BY <1>2, <1>3, SlotsLimited
<1>5. /\ slots' = slots \cup NewIds(n)
      /\ failed' = TRUE /\ UNCHANGED <<now, ledger, loop, answer, outcome>>
  BY <1>2 DEF Requested, DispatchRaises
<1>6. Handling' = Handling
  BY <1>5 DEF Handling
<1>7. /\ requestQueue' \in Seq(Ids) /\ NoRepeats(requestQueue')
      /\ Queued' = Queued \cup NewIds(n)
  <2>1. /\ requestQueue \in Seq(Ids) /\ NoRepeats(requestQueue) /\ made + n <= MaxRequests
        /\ Elements(requestQueue) = Queued /\ Elements(requestQueue)' = Queued'
    BY <1>2 DEF RequestsInv, RequestsTypeOK, QueueSound, Requested, Elements, Queued
  <2>2. Elements(requestQueue) \subseteq 1..made
    BY <1>1, <2>1
  <2> QED
    BY <1>1, <1>2, <1>3, <2>1, <2>2, QueueExtended DEF Elements
<1>8. NewIds(n) \cap 1..made = {} /\ 1..made \subseteq 1..made'
  BY <1>1, <1>3, <1>4 DEF NewIds
<1>9. RequestsTypeOK'
  BY <1>4, <1>5, <1>7 DEF RequestsInv, RequestsTypeOK
<1>10. BooksMirrorLoops'
  BY <1>1, <1>5, <1>6, <1>7 DEF RequestsInv, RequestsAccounted, BooksMirrorLoops
<1>11. QueueSound' /\ OnlyMade'
  <2>1. Queued' \cap DOMAIN ledger' = {}
    BY <1>1, <1>5, <1>7, <1>8
  <2> QED
    BY <1>1, <1>4, <1>5, <1>7, <1>8, <2>1 DEF QueueSound, OnlyMade, NoRepeats
<1>12. AnsweredInTurn'
  <2> SUFFICES ASSUME NEW id \in Ids
               PROVE  /\ id \in Queued' \/ id > made' => answer[id] = "none"
                      /\ id \in Queued' \cup Handling \/ id > made' => outcome[id] = "none"
    BY <1>5, <1>6 DEF AnsweredInTurn
  <2>1. id \in Nat
    BY HostAssumption DEF Ids
  <2>2. id \in NewIds(n) \/ id > made' => id > made
    BY <1>1, <1>3, <1>4, <2>1 DEF NewIds
  <2> QED
    BY <1>7, <2>2 DEF RequestsInv, AnsweredInTurn
<1>13. AnswersAccounted'
  <2> SUFFICES ASSUME NEW id \in 1..made', answer[id] # "none", id \notin Handling
               PROVE  \/ outcome[id] = answer[id]
                      \/ outcome[id] = "unreported" /\ kind'[id] = "timer"
                      \/ outcome[id] = "none" /\ failed'
    BY <1>5, <1>6 DEF AnswersAccounted
  <2>1. id \in Ids
    BY <1>4, HostAssumption DEF Ids
  <2>2. id \in 1..made
    BY <1>1, <1>4, <2>1 DEF RequestsInv, AnsweredInTurn
  <2> QED
    BY <1>4, <1>5, <2>2 DEF RequestsInv, RequestsAccounted, AnswersAccounted
<1> QED
  BY <1>9, <1>10, <1>11, <1>12, <1>13 DEF RequestsInv, RequestsAccounted

\* A handler answers a request that a loop awaits.
LEMMA AnswerKeepsBooks ==
  ASSUME RequestsInv, NEW id \in Ids, NEW a \in Answers, Answered(id, a)
  PROVE  RequestsInv'
<1>1. /\ made \in Nat /\ Handling \subseteq DOMAIN ledger
      /\ \A i \in DOMAIN ledger \ Handling : failed /\ answer[i] = "invalid"
      /\ Queued \cap DOMAIN ledger = {} /\ DOMAIN ledger \subseteq 1..made
  BY BooksOf
<1>2. /\ id \in Handling
      /\ answer' = [answer EXCEPT ![id] = a]
      /\ UNCHANGED <<now, made, kind, requestQueue, slots, ledger, loop, outcome, failed>>
  BY DEF Answered, Awaited
<1>3. Handling' = Handling /\ Queued' = Queued
  BY <1>2 DEF Handling, Queued
<1>4. RequestsTypeOK'
  BY <1>2 DEF RequestsInv, RequestsTypeOK
<1>5. \A i \in Ids : i # id => answer'[i] = answer[i]
  BY <1>2 DEF RequestsInv, RequestsTypeOK
<1>6. DOMAIN ledger \subseteq Ids
  BY DEF RequestsInv, RequestsTypeOK
<1>7. BooksMirrorLoops'
  BY <1>1, <1>2, <1>3, <1>5, <1>6 DEF RequestsInv, RequestsAccounted, BooksMirrorLoops
<1>8. QueueSound' /\ OnlyMade'
  BY <1>2, <1>3 DEF RequestsInv, QueueSound, OnlyMade
<1>9. id \notin Queued /\ ~(id > made)
  BY <1>1, <1>2
<1>10. AnsweredInTurn'
  BY <1>2, <1>3, <1>5, <1>9 DEF RequestsInv, AnsweredInTurn
<1>11. AnswersAccounted'
  <2>1. 1..made \subseteq Ids
    BY BooksOf
  <2> QED
    BY <1>2, <1>3, <1>5, <2>1 DEF RequestsInv, RequestsAccounted, AnswersAccounted
<1> QED
  BY <1>4, <1>7, <1>8, <1>10, <1>11 DEF RequestsInv, RequestsAccounted

\* A loop that ends with an error gives its request up, and the page says so.
LEMMA FailureKeepsBooks ==
  ASSUME RequestsInv, NEW l \in Loops, LoopRejects(l) \/ LoopOverdue(l)
  PROVE  RequestsInv'
<1> DEFINE r == loop[l]
<1>1. /\ made \in Nat /\ NoRequest \notin Ids
      /\ Handling \subseteq Ids /\ Handling \subseteq DOMAIN ledger
      /\ \A id \in DOMAIN ledger \ Handling : failed /\ answer[id] = "invalid"
      /\ Queued \subseteq slots /\ Handling \subseteq slots
      /\ DOMAIN ledger \subseteq 1..made
      /\ Queued \cap DOMAIN ledger = {}
  BY BooksOf
<1>2. /\ loop' = [loop EXCEPT ![l] = NoRequest] /\ failed' = TRUE
      /\ UNCHANGED <<now, made, kind, requestQueue, slots, answer, outcome>>
      /\ \/ ledger' = ledger /\ answer[r] = "invalid"
         \/ ledger' = Without(ledger, r)
  BY DEF LoopRejects, LoopOverdue, StopLoop
<1>3. /\ loop' \in [Loops -> Ids \cup {NoRequest}]
      /\ \A m, k \in Loops : m # k /\ loop'[m] # NoRequest => loop'[m] # loop'[k]
      /\ Handling' = (Handling \ {r}) \cup ({NoRequest} \ {NoRequest})
  <2>1. NoRequest \notin Handling
    BY DEF Handling
  <2> QED
    BY <1>2, <2>1, LoopMoves
<1>4. r \in Handling
  BY DEF LoopRejects, LoopOverdue, Ready, Handling
<1>5. /\ DOMAIN ledger' \subseteq DOMAIN ledger
      /\ DOMAIN ledger \ {r} \subseteq DOMAIN ledger'
      /\ r \in DOMAIN ledger' => answer[r] = "invalid"
      /\ ledger' \in [DOMAIN ledger' -> Nat]
  BY <1>2 DEF Without, RequestsInv, RequestsTypeOK
<1>6. Queued' = Queued
  BY <1>2 DEF Queued
<1> HIDE DEF r
<1>7. RequestsTypeOK'
  BY <1>2, <1>3, <1>5 DEF RequestsInv, RequestsTypeOK
<1>8. BooksMirrorLoops'
  <2>1. Handling' \subseteq DOMAIN ledger'
    BY <1>1, <1>3, <1>5
  <2>2. \A id \in DOMAIN ledger' \ Handling' : failed' /\ answer'[id] = "invalid"
    BY <1>1, <1>2, <1>3, <1>5
  <2>3. Queued' \cup Handling' \subseteq slots'
    BY <1>1, <1>2, <1>3, <1>6
  <2> QED
    BY <1>2, <1>3, <2>1, <2>2, <2>3 DEF BooksMirrorLoops
<1>9. QueueSound' /\ OnlyMade'
  BY <1>2, <1>5, <1>6 DEF RequestsInv, QueueSound, OnlyMade
<1>10. AnsweredInTurn'
  BY <1>2, <1>3, <1>6 DEF RequestsInv, AnsweredInTurn
<1>11. AnswersAccounted'
  <2>1. r \in Ids /\ outcome[r] = "none"
    BY <1>1, <1>4 DEF RequestsInv, AnsweredInTurn
  <2> QED
    BY <1>2, <1>3, <2>1 DEF RequestsInv, RequestsAccounted, AnswersAccounted
<1> QED
  BY <1>7, <1>8, <1>9, <1>10, <1>11 DEF RequestsInv, RequestsAccounted

LEMMA RequestsInductive == RequestsInv /\ [RequestsNext]_requestVars => RequestsInv'
<1> SUFFICES ASSUME RequestsInv, [RequestsNext]_requestVars
             PROVE  RequestsInv'
  OBVIOUS
<1>1. ASSUME NEW l \in Loops, DispatchEvent(l)
      PROVE  RequestsInv'
  <2>1. PICK n \in 0..MaxBurst : /\ Requested(n, slots)
                                 /\ NextTaken(l, Extended(requestQueue, n), ledger)
    BY <1>1 DEF DispatchEvent
  <2>2. n \in Nat /\ made + n <= MaxRequests
    BY <2>1, HostAssumption DEF Requested
  <2>3. loop[l] = NoRequest /\ UNCHANGED <<now, answer, outcome, failed>>
    BY <1>1 DEF DispatchEvent
  <2>4. slots \ {loop[l]} = slots
    BY <2>3, BooksOf
  <2>5. Without(ledger, loop[l]) = ledger
    <3>1. DOMAIN ledger \ {loop[l]} = DOMAIN ledger
      BY <2>3, BooksOf
    <3>2. ledger = [i \in DOMAIN ledger |-> ledger[i]]
      BY DEF RequestsInv, RequestsTypeOK
    <3> QED
      BY <3>1, <3>2 DEF Without
  <2>6. PICK v \in Ids \cup {NoRequest} : GoesOnWith(l, n, v)
    BY <2>1, <2>2, <2>5, LoopGoesOn
  <2>7. failed \in BOOLEAN
    BY BooksOf
  <2> QED
    BY <2>1, <2>2, <2>3, <2>4, <2>6, <2>7, TurnKeepsBooks DEF ToldBy
<1>2. ASSUME NEW l \in Loops, LoopResolves(l) \/ LoopResolveRaises(l)
      PROVE  RequestsInv'
  <2>1. PICK n \in 0..MaxBurst :
          /\ Requested(n, slots \ {loop[l]})
          /\ \/ NextTaken(l, Extended(requestQueue, n), Without(ledger, loop[l]))
             \/ /\ requestQueue' = Extended(requestQueue, n)
                /\ loop' = [loop EXCEPT ![l] = NoRequest]
                /\ ledger' = Without(ledger, loop[l])
    <3>1. 0 \in 0..MaxBurst
      BY HostAssumption
    <3> QED
      BY <1>2, <3>1 DEF LoopResolves, LoopResolveRaises, Freed
  <2>2. n \in Nat /\ made + n <= MaxRequests
    BY <2>1, HostAssumption DEF Requested
  <2>3. PICK v \in Ids \cup {NoRequest} : GoesOnWith(l, n, v)
    BY <2>1, <2>2, LoopGoesOn
  <2>4. ToldBy(l)
    BY <1>2 DEF LoopResolves, LoopResolveRaises, InTime, Ready, ToldBy
  <2>5. UNCHANGED <<now, answer>> /\ failed' \in BOOLEAN /\ (failed => failed')
    <3>1. failed \in BOOLEAN
      BY BooksOf
    <3>2. CASE LoopResolves(l)
      BY <3>1, <3>2 DEF LoopResolves
    <3>3. CASE LoopResolveRaises(l)
      BY <3>1, <3>3 DEF LoopResolveRaises
    <3> QED
      BY <1>2, <3>2, <3>3
  <2> QED
    BY <2>1, <2>2, <2>3, <2>4, <2>5, TurnKeepsBooks
<1>3. ASSUME NEW id \in Ids, \/ HandlerOk(id) \/ HandlerError(id) \/ HandlerInvalid(id)
                             \/ HandlerDeadline(id)
      PROVE  RequestsInv'
  <2>1. PICK a \in Answers : Answered(id, a)
    BY <1>3 DEF HandlerOk, HandlerError, HandlerInvalid, HandlerDeadline, Answers
  <2> QED
    BY <2>1, AnswerKeepsBooks
<1>4. CASE Tick \/ UNCHANGED requestVars
  <2>1. /\ now' \in Nat
        /\ UNCHANGED <<made, kind, requestQueue, slots, ledger, loop, answer, outcome, failed>>
    BY <1>4 DEF Tick, requestVars, RequestsInv, RequestsTypeOK
  <2>2. Handling' = Handling /\ Queued' = Queued
    BY <2>1 DEF Handling, Queued
  <2>3. RequestsTypeOK'
    BY <2>1 DEF RequestsInv, RequestsTypeOK
  <2>4. RequestsAccounted' /\ AnsweredInTurn'
    BY <2>1, <2>2 DEF RequestsInv, RequestsAccounted, BooksMirrorLoops, AnswersAccounted,
       AnsweredInTurn
  <2> QED
    BY <2>1, <2>2, <2>3, <2>4 DEF RequestsInv, QueueSound, OnlyMade
<1> QED
  BY <1>1, <1>2, <1>3, <1>4, RaiseKeepsBooks, FailureKeepsBooks DEF RequestsNext, Resume

LEMMA RequestsStart == RequestsInit => RequestsInv
<1> SUFFICES ASSUME RequestsInit PROVE RequestsInv
  OBVIOUS
<1>1. /\ made = 0 /\ requestQueue = <<>> /\ slots = {} /\ DOMAIN ledger = {}
      /\ Handling = {} /\ Queued = {} /\ failed = FALSE
  BY DEF RequestsInit, Handling, Queued
<1>2. RequestsTypeOK
  <2>1. /\ MaxRequests \in Nat /\ InFlight \in Nat
        /\ Cardinality(slots) = 0 /\ requestQueue \in Seq(Ids)
    BY <1>1, FS_EmptySet, EmptySeq, HostAssumption
  <2>2. ledger \in [DOMAIN ledger -> Nat]
    BY DEF RequestsInit
  <2>3. /\ now \in Nat /\ kind \in [Ids -> AllKinds \cup {"none"}]
        /\ loop \in [Loops -> Ids \cup {NoRequest}]
        /\ answer \in [Ids -> Answers] /\ outcome \in [Ids -> Answers \cup {"unreported"}]
    BY DEF RequestsInit, Answers
  <2>4. made \in 0..MaxRequests /\ slots \subseteq Ids /\ Cardinality(slots) <= InFlight
        /\ DOMAIN ledger \subseteq Ids
    BY <1>1, <2>1
  <2>5. failed \in BOOLEAN
    BY <1>1
  <2> QED
    BY <2>1, <2>2, <2>3, <2>4, <2>5 DEF RequestsTypeOK
<1>3. RequestsAccounted
  BY <1>1 DEF RequestsInit, RequestsAccounted, BooksMirrorLoops, AnswersAccounted
<1>4. QueueSound /\ OnlyMade /\ AnsweredInTurn
  BY <1>1 DEF RequestsInit, QueueSound, NoRepeats, OnlyMade, AnsweredInTurn
<1> QED
  BY <1>2, <1>3, <1>4 DEF RequestsInv
-----------------------------------------------------------------------------
(* The ledger. *)

Counts == [LedgerEnds -> Nat]

\* The bounds of the type follow: no end is reported more often than its id was begun.
LedgerInv ==
  /\ clock \in Nat /\ closed \in BOOLEAN
  /\ DOMAIN pending \subseteq LedgerIds /\ pending \in [DOMAIN pending -> Entry]
  /\ IsFiniteSet(DOMAIN pending) /\ Cardinality(DOMAIN pending) <= Capacity
  /\ begun \in [LedgerIds -> 0..MaxBegins]
  /\ reported \in [LedgerIds -> Counts]
  /\ OneEndPerRequest

\* the ends reported in c
Sum(c) == c["settled"] + c["deadline"] + c["cancelled"] + c["expired"] + c["disposed"]

\* An end reported once more is counted once.
LEMMA CountedOnce ==
  ASSUME NEW c \in Counts, NEW end \in LedgerEnds
  PROVE  /\ [c EXCEPT ![end] = @ + 1] \in Counts
         /\ Sum([c EXCEPT ![end] = @ + 1]) = Sum(c) + 1 /\ Sum(c) \in Nat
<1> DEFINE d == [c EXCEPT ![end] = @ + 1]
<1>1. d \in Counts /\ \A e \in LedgerEnds : d[e] = IF e = end THEN c[e] + 1 ELSE c[e]
  BY DEF Counts
<1>2. \A e \in LedgerEnds : c[e] \in Nat
  BY DEF Counts
<1>3. LedgerEnds = {"settled", "deadline", "cancelled", "expired", "disposed"}
  BY DEF LedgerEnds
<1> HIDE DEF d
<1>4. Sum(d) = Sum(c) + 1 /\ Sum(c) \in Nat
  BY <1>1, <1>2, <1>3 DEF Sum
<1> QED
  BY <1>1, <1>4 DEF d

\* Whatever ends a set of pending requests, takes them out and reports each once.
LEMMA EndsAreReported ==
  ASSUME LedgerInv, NEW ids \in SUBSET DOMAIN pending, NEW end \in LedgerEnds,
         pending' = EntriesWithout(ids), Report(ids, end),
         clock' = clock, begun' = begun, closed' \in BOOLEAN
  PROVE  LedgerInv'
<1>1. /\ DOMAIN pending \subseteq LedgerIds /\ pending \in [DOMAIN pending -> Entry]
      /\ begun \in [LedgerIds -> 0..MaxBegins] /\ reported \in [LedgerIds -> Counts]
      /\ clock \in Nat
      /\ IsFiniteSet(DOMAIN pending) /\ Cardinality(DOMAIN pending) <= Capacity
  BY DEF LedgerInv
<1>2. /\ DOMAIN pending' = DOMAIN pending \ ids
      /\ pending' \in [DOMAIN pending' -> Entry]
  BY <1>1 DEF EntriesWithout
<1>3. IsFiniteSet(DOMAIN pending') /\ Cardinality(DOMAIN pending') <= Capacity
  <2>1. Capacity \in Nat
    BY LedgerAssumption
  <2>2. /\ IsFiniteSet(DOMAIN pending')
        /\ Cardinality(DOMAIN pending') <= Cardinality(DOMAIN pending)
    BY <1>1, <1>2, FS_Subset
  <2>3. Cardinality(DOMAIN pending') \in Nat /\ Cardinality(DOMAIN pending) \in Nat
    BY <1>1, <2>2, FS_CardinalityType
  <2> QED
    BY <1>1, <2>1, <2>2, <2>3
<1>4. \A id \in LedgerIds :
        reported'[id] = IF id \in ids THEN [reported[id] EXCEPT ![end] = @ + 1] ELSE reported[id]
  BY DEF Report
<1>5. \A id \in LedgerIds : /\ reported'[id] \in Counts
                            /\ Sum(reported[id]) \in Nat
                            /\ id \in ids => Sum(reported'[id]) = Sum(reported[id]) + 1
                            /\ id \notin ids => reported'[id] = reported[id]
  <2> TAKE id \in LedgerIds
  <2>1. reported[id] \in Counts
    BY <1>1
  <2>2. /\ [reported[id] EXCEPT ![end] = @ + 1] \in Counts
        /\ Sum([reported[id] EXCEPT ![end] = @ + 1]) = Sum(reported[id]) + 1
        /\ Sum(reported[id]) \in Nat
    BY <2>1, CountedOnce
  <2> QED
    BY <1>4, <2>1, <2>2
<1>6. reported' \in [LedgerIds -> Counts]
  BY <1>5 DEF Report
<1>7. OneEndPerRequest'
  <2> SUFFICES ASSUME NEW id \in LedgerIds
               PROVE  begun[id] = Sum(reported'[id]) + (IF id \in DOMAIN pending' THEN 1 ELSE 0)
    BY DEF OneEndPerRequest, EndsReported, Sum
  <2>1. begun[id] = Sum(reported[id]) + (IF id \in DOMAIN pending THEN 1 ELSE 0)
    BY DEF LedgerInv, OneEndPerRequest, EndsReported, Sum
  <2> QED
    BY <1>2, <1>5, <2>1
<1> QED
  BY <1>1, <1>2, <1>3, <1>6, <1>7 DEF LedgerInv

LEMMA LedgerInductive == LedgerInv /\ [LedgerNext]_ledgerVars => LedgerInv'
<1> SUFFICES ASSUME LedgerInv, [LedgerNext]_ledgerVars
             PROVE  LedgerInv'
  OBVIOUS
<1>1. /\ DOMAIN pending \subseteq LedgerIds /\ pending \in [DOMAIN pending -> Entry]
      /\ begun \in [LedgerIds -> 0..MaxBegins] /\ reported \in [LedgerIds -> Counts]
      /\ clock \in Nat /\ closed \in BOOLEAN
      /\ IsFiniteSet(DOMAIN pending) /\ Cardinality(DOMAIN pending) <= Capacity
  BY DEF LedgerInv
<1>2. ASSUME NEW id \in LedgerIds, NEW trace \in Traces, NEW deadline \in Deadlines,
             Begin(id, trace, deadline)
      PROVE  LedgerInv'
  <2>1. /\ begun[id] < MaxBegins /\ id \notin DOMAIN pending
        /\ Cardinality(DOMAIN pending) < Capacity
        /\ begun' = [begun EXCEPT ![id] = @ + 1]
        /\ UNCHANGED <<clock, closed, reported>>
        /\ pending' = [i \in DOMAIN pending \cup {id} |->
                         IF i = id THEN [trace |-> trace, deadlineAt |-> clock + deadline]
                                   ELSE pending[i]]
    BY <1>2 DEF Begin, Admissible
  <2>2. MaxBegins \in Nat /\ Capacity \in Nat /\ deadline \in Nat
    BY LedgerAssumption
  <2>3. begun' \in [LedgerIds -> 0..MaxBegins] /\ begun'[id] = begun[id] + 1
        /\ \A i \in LedgerIds : i # id => begun'[i] = begun[i]
    BY <1>1, <2>1, <2>2
  <2>4. DOMAIN pending' = DOMAIN pending \cup {id} /\ pending' \in [DOMAIN pending' -> Entry]
    <3>1. [trace |-> trace, deadlineAt |-> clock + deadline] \in Entry
      BY <1>1, <2>2 DEF Entry
    <3> QED
      BY <1>1, <2>1, <3>1
  <2>5. IsFiniteSet(DOMAIN pending') /\ Cardinality(DOMAIN pending') <= Capacity
    <3>1. /\ IsFiniteSet(DOMAIN pending')
          /\ Cardinality(DOMAIN pending') = Cardinality(DOMAIN pending) + 1
      BY <1>1, <2>1, <2>4, FS_AddElement
    <3>2. Cardinality(DOMAIN pending) \in Nat
      BY <1>1, FS_CardinalityType
    <3> QED
      BY <2>1, <2>2, <3>1, <3>2
  <2>6. OneEndPerRequest'
    <3> SUFFICES ASSUME NEW i \in LedgerIds
                 PROVE  begun'[i] = Sum(reported[i]) + (IF i \in DOMAIN pending' THEN 1 ELSE 0)
      BY <2>1 DEF OneEndPerRequest, EndsReported, Sum
    <3>1. begun[i] = Sum(reported[i]) + (IF i \in DOMAIN pending THEN 1 ELSE 0)
      BY DEF LedgerInv, OneEndPerRequest, EndsReported, Sum
    <3>2. Sum(reported[i]) \in Nat
      BY <1>1, CountedOnce DEF LedgerEnds
    <3> QED
      BY <2>1, <2>3, <2>4, <3>1, <3>2
  <2> QED
    BY <1>1, <2>1, <2>3, <2>4, <2>5, <2>6 DEF LedgerInv
<1>3. ASSUME NEW id \in LedgerIds, NEW trace \in Traces,
             Settle(id, trace) \/ SettleOverdue(id, trace) \/ Cancel(id, trace)
      PROVE  LedgerInv'
  <2>1. PICK end \in LedgerEnds : Report({id}, end)
    BY <1>3 DEF Settle, SettleOverdue, Cancel, LedgerEnds
  <2>2. /\ {id} \in SUBSET DOMAIN pending /\ pending' = EntriesWithout({id})
        /\ UNCHANGED <<clock, closed, begun>>
    BY <1>3 DEF Settle, SettleOverdue, Cancel, Answerable
  <2> QED
    BY <1>1, <2>1, <2>2, EndsAreReported
<1>4. CASE ExpireEntries
  <2>1. PICK late \in SUBSET DOMAIN pending :
          pending' = EntriesWithout(late) /\ Report(late, "expired")
    BY <1>4 DEF ExpireEntries
  <2>2. UNCHANGED <<clock, closed, begun>> /\ "expired" \in LedgerEnds
    BY <1>4 DEF ExpireEntries, LedgerEnds
  <2> QED
    BY <1>1, <2>1, <2>2, EndsAreReported
<1>5. CASE DisposeLedger
  <2>1. EntriesWithout(LedgerIds) = EntriesWithout(DOMAIN pending)
    <3>1. DOMAIN pending \ LedgerIds = DOMAIN pending \ DOMAIN pending
      BY <1>1
    <3> QED
      BY <3>1 DEF EntriesWithout
  <2>2. /\ pending' = EntriesWithout(DOMAIN pending) /\ Report(DOMAIN pending, "disposed")
        /\ clock' = clock /\ begun' = begun /\ closed' \in BOOLEAN
        /\ "disposed" \in LedgerEnds
    BY <1>5, <2>1 DEF DisposeLedger, LedgerEnds
  <2> QED
    BY <2>2, EndsAreReported
<1>6. CASE LedgerTick \/ UNCHANGED ledgerVars
  <2>1. clock' \in Nat /\ UNCHANGED <<pending, closed, begun, reported>>
    BY <1>1, <1>6 DEF LedgerTick, ledgerVars
  <2>2. OneEndPerRequest'
    BY <2>1 DEF LedgerInv, OneEndPerRequest, EndsReported
  <2> QED
    BY <1>1, <2>1, <2>2 DEF LedgerInv
<1> QED
  BY <1>2, <1>3, <1>4, <1>5, <1>6 DEF LedgerNext

LEMMA LedgerStart == LedgerInit => LedgerInv
<1> SUFFICES ASSUME LedgerInit PROVE LedgerInv
  OBVIOUS
<1>1. DOMAIN pending = {} /\ pending \in [DOMAIN pending -> Entry]
  BY DEF LedgerInit
<1>2. IsFiniteSet(DOMAIN pending) /\ Cardinality(DOMAIN pending) <= Capacity
  BY <1>1, FS_EmptySet, LedgerAssumption
<1>3. Unreported \in Counts /\ Sum(Unreported) = 0
  BY DEF Unreported, Counts, Sum, LedgerEnds
<1>4. begun \in [LedgerIds -> 0..MaxBegins] /\ reported \in [LedgerIds -> Counts]
  BY <1>3, LedgerAssumption DEF LedgerInit
<1>5. OneEndPerRequest
  <2> SUFFICES ASSUME NEW id \in LedgerIds
               PROVE  begun[id] = Sum(reported[id]) + (IF id \in DOMAIN pending THEN 1 ELSE 0)
    BY DEF OneEndPerRequest, EndsReported, Sum
  <2> QED
    BY <1>1, <1>3 DEF LedgerInit
<1> QED
  BY <1>1, <1>2, <1>4, <1>5 DEF LedgerInit, LedgerInv

LEMMA LedgerTypes == LedgerInv => LedgerTypeOK
<1> SUFFICES ASSUME LedgerInv PROVE LedgerTypeOK
  OBVIOUS
<1>1. ASSUME NEW id \in LedgerIds, NEW end \in LedgerEnds
      PROVE  reported[id][end] \in 0..MaxBegins
  <2>1. /\ begun[id] \in 0..MaxBegins /\ MaxBegins \in Nat
        /\ begun[id] = EndsReported(id) + (IF id \in DOMAIN pending THEN 1 ELSE 0)
    BY LedgerAssumption DEF LedgerInv, OneEndPerRequest
  <2>2. \A e \in LedgerEnds : reported[id][e] \in Nat
    BY DEF LedgerInv, Counts
  <2>3. LedgerEnds = {"settled", "deadline", "cancelled", "expired", "disposed"}
    BY DEF LedgerEnds
  <2> QED
    BY <2>1, <2>2, <2>3 DEF EndsReported
<1>2. reported \in [LedgerIds -> [LedgerEnds -> 0..MaxBegins]]
  BY <1>1 DEF LedgerInv, Counts
<1> QED
  BY <1>2 DEF LedgerInv, LedgerTypeOK
-----------------------------------------------------------------------------
(* The theorems. *)

\* The books of main.js and of the VM are well-formed, and no more requests are in
\* flight than the VM's limit (vm_wasm.cpp:721).
THEOREM RequestTypes == RequestsSpec => []RequestsTypeOK
<1>1. RequestsInv => RequestsTypeOK
  BY DEF RequestsInv
<1> QED
  BY <1>1, RequestsStart, RequestsInductive, PTL DEF RequestsSpec

\* The ledger admits no more requests than its limit, and reports no end more often
\* than a request was begun (request-ledger.mjs:15-74).
THEOREM LedgerTypeCorrect == LedgerSpec => []LedgerTypeOK
<1> QED
  BY LedgerTypes, LedgerStart, LedgerInductive, PTL DEF LedgerSpec

\* Slots, queue, loops and deadlines agree, no answer is dropped silently, and each
\* admitted request ends once (main.js:192-236, vm_wasm.cpp:669-1136,
\* request-ledger.mjs:15-74).
THEOREM RequestsBooked == RequestsSpec /\ LedgerSpec => []RequestsHold
<1>1. RequestsInv => RequestsAccounted
  BY DEF RequestsInv
<1>2. LedgerInv => OneEndPerRequest
  BY DEF LedgerInv
<1>3. RequestsSpec => []RequestsAccounted
  BY <1>1, RequestsStart, RequestsInductive, PTL DEF RequestsSpec
<1>4. LedgerSpec => []OneEndPerRequest
  BY <1>2, LedgerStart, LedgerInductive, PTL DEF LedgerSpec
<1> QED
  BY <1>3, <1>4, PTL DEF RequestsHold
-----------------------------------------------------------------------------
(* All parts of the host together. *)

\* Each part keeps to its type in a run of the host, while the others stand still:
\* requests and their ledger, events and timers, media, previews, motion, the page and
\* the windowed lists.
THEOREM HostTypeCorrect == HostSpec => []HostTypeOK
PROOF
<1>1. HostInit => /\ RequestsInit /\ LedgerInit /\ EventsInit /\ TimersInit /\ MediaInit
                  /\ PreviewsInit /\ MotionInit /\ PageInit /\ ListInit
  BY DEF HostInit
<1>2. ASSUME [HostNext]_<<part, requestVars, ledgerVars, eventVars, timerVars, mediaVars, previewVars,
                         motionVars, pageVars, listVars>>
      PROVE  /\ [RequestsNext]_requestVars /\ [LedgerNext]_ledgerVars
             /\ [TimersNext]_<<eventVars, timerVars>> /\ [MediaNext]_mediaVars
             /\ [PreviewsNext]_previewVars /\ [MotionNext]_motionVars
             /\ [PageNext]_pageVars /\ [ListNext]_listVars
  BY <1>2 DEF HostNext, OthersStandStill
<1>3. /\ RequestsTypeOK /\ LedgerTypeOK /\ TimersTypeOK /\ MediaTypeOK
      /\ PreviewsTypeOK /\ MotionTypeOK /\ PageTypeOK /\ ListTypeOK
      => HostTypeOK
  BY DEF HostTypeOK
<1>4. TimersInv => TimersTypeOK
  BY DEF TimersInv
<1> QED
  BY <1>1, <1>2, <1>3, <1>4, RequestTypes, LedgerTypeCorrect, TimersInductive, MediaTypeCorrect,
     PreviewsTypeCorrect, MotionTypeCorrect, PageTypeCorrect, ListTypeCorrect, PTL
     DEF HostSpec, RequestsSpec, LedgerSpec, MediaSpec, PreviewsSpec, MotionSpec, PageSpec, ListSpec
=============================================================================
