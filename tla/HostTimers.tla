------------------------------ MODULE HostTimers ------------------------------
(***************************************************************************)
(* The timers of the host (platform/host/timer-capabilities.mjs) together  *)
(* with the queue of events their expiries go through (HostEvents).        *)
(*                                                                         *)
(* A timer is started under an id, replaces the one that runs under it,    *)
(* and expires once.  main.js subscribes after the first requests of the   *)
(* application were processed; what expires before is kept until then.     *)
(***************************************************************************)
EXTENDS HostEvents

CONSTANTS
  TimerIds,     \* the ids the application starts timers under
  TimerLimit,   \* maximumActiveTimers
  MaxArrivals,  \* bound on the host's changes and the starts of timers together
  NoTimer       \* no token

ASSUME TimersAssumption ==
  /\ NoTimer \notin Tokens \cup TimerIds
  /\ TimerLimit \in Nat \ {0} /\ MaxArrivals \in Nat

VARIABLES
  active,       \* active: the token of the timer that runs under an id
  startedAs,    \* the id under which a token was started
  early,        \* queued: the tokens that expired before anyone listened
  subscribed,   \* the event queue is the listener
  withdrawn,    \* the tokens cancelled or replaced while they ran
  handed        \* how often a token was handed to the application

timerVars == <<active, startedAs, early, subscribed, withdrawn, handed>>

Unused == {t \in Tokens : startedAs[t] = NoTimer}
MayArrive == ~disposed /\ changes + Cardinality(Tokens \ Unused) < MaxArrivals
Running == {id \in TimerIds : active[id] # NoTimer}
IsTimer(e) == e \in TimerEvents

\* what the expiry of a timer enqueues
ExpiryOf(t) == [channel |-> "timer", value |-> t]

\* how often the timer's expiry waits to be handed over
Occurrences(e, events) == Cardinality({i \in DOMAIN events : events[i] = e})
Waits(t) == Occurrences(t, early) + Occurrences(ExpiryOf(t), queue)

TimersTypeOK ==
  /\ EventsTypeOK
  /\ active \in [TimerIds -> Tokens \cup {NoTimer}]
  /\ startedAs \in [Tokens -> TimerIds \cup {NoTimer}]
  /\ early \in Seq(Tokens) /\ handed \in [Tokens -> Nat]
  /\ subscribed \in BOOLEAN
  /\ withdrawn \subseteq Tokens

TimersInit ==
  /\ active = [id \in TimerIds |-> NoTimer]
  /\ startedAs = [t \in Tokens |-> NoTimer]
  /\ early = <<>> /\ handed = [t \in Tokens |-> 0] /\ subscribed = FALSE
  /\ withdrawn = {}
-----------------------------------------------------------------------------
(* What the application requests: timer.control. *)

\* the start of a timer: the one that ran under the id is cancelled
StartTimer(id) ==
  /\ MayArrive
  /\ id \in Running \/ Cardinality(Running) < TimerLimit
  /\ \E t \in Unused :
       /\ t = CHOOSE u \in Unused : TRUE
       /\ active' = [active EXCEPT ![id] = t]
       /\ startedAs' = [startedAs EXCEPT ![t] = id]
  /\ withdrawn' = withdrawn \cup ({active[id]} \ {NoTimer})
  /\ UNCHANGED <<early, subscribed, handed, eventVars>>

\* a cancellation; one that finds no timer running under the id is acknowledged,
\* too, and changes nothing
CancelTimer(id) ==
  /\ id \in Running
  /\ active' = [active EXCEPT ![id] = NoTimer]
  /\ withdrawn' = withdrawn \cup ({active[id]} \ {NoTimer})
  /\ UNCHANGED <<startedAs, early, subscribed, handed, eventVars>>
-----------------------------------------------------------------------------
(* Expiry, and the way to the application. *)

\* emit: the listener puts it into the event queue, without a key
Emitted(t) ==
  IF subscribed
  THEN Enqueued(ExpiryOf(t)) /\ UNCHANGED early
  ELSE early' = Append(early, t) /\ UNCHANGED <<queue, pendingKeys, issued>>

Elapses(id) ==
  /\ id \in Running
  /\ active' = [active EXCEPT ![id] = NoTimer]
  /\ Emitted(active[id])
  /\ UNCHANGED <<startedAs, subscribed, withdrawn, handed, native, host, running,
                 seen, bridge, snapshot, awaited, changes, missed, disposed>>

EnqueuesEarly ==
  IF disposed THEN UNCHANGED <<queue, issued>>
  ELSE /\ queue' = queue \o [i \in 1..Len(early) |-> ExpiryOf(early[i])]
       /\ issued' = issued + Len(early)

\* Faulty: the events queued so far are delivered and stay queued.
SubscribeKeeping ==
  /\ ~subscribed /\ subscribed' = TRUE
  /\ EnqueuesEarly
  /\ UNCHANGED <<early, active, startedAs, withdrawn, handed, native, host, running,
                 pendingKeys, seen, bridge, snapshot, awaited, changes, missed, disposed>>

\* subscribe: what expired before is handed to the listener at once
Subscribe ==
  /\ ~subscribed /\ subscribed' = TRUE
  /\ early' = <<>>
  /\ EnqueuesEarly
  /\ UNCHANGED <<active, startedAs, withdrawn, handed, native, host, running,
                 pendingKeys, seen, bridge, snapshot, awaited, changes, missed, disposed>>

\* dispatch of the next event; the application is handed the timers among them
Delivers ==
  /\ Dispatch
  /\ handed' = IF IsTimer(Head(queue)) THEN [handed EXCEPT ![Head(queue).value] = @ + 1]
               ELSE handed
  /\ UNCHANGED <<active, startedAs, early, subscribed, withdrawn>>

TimersNext ==
  \/ \E id \in TimerIds : StartTimer(id) \/ CancelTimer(id) \/ Elapses(id)
  \/ Subscribe
  \/ Delivers
  \/ /\ \/ MayArrive /\ \E c \in Channels : HostChanges(c)
        \/ subscribed /\ BridgeStep   \* main.js starts the bridge last
        \/ \E raised \in BOOLEAN : Finish(raised)
        \/ Dispose
     /\ UNCHANGED timerVars

\* promise callbacks run, main.js goes on to subscribe, and an event's dispatch
\* settles one way or the other: which of the two is not the scheduler's choice,
\* so only the pair is fair
TimersFairness ==
  /\ WF_<<eventVars, timerVars>>(Subscribe)
  /\ WF_<<eventVars, timerVars>>(Delivers)
  /\ WF_<<eventVars, timerVars>>(subscribed /\ BridgeStep /\ UNCHANGED timerVars)
  /\ WF_<<eventVars, timerVars>>(\E raised \in BOOLEAN : Finish(raised) /\ UNCHANGED timerVars)

TimersSpec ==
  EventsInit /\ TimersInit /\ [][TimersNext]_<<eventVars, timerVars>> /\ TimersFairness
-----------------------------------------------------------------------------
(* Properties. *)

\* "an uncancelled start or restart later emits one timer event": a timer that
\* was started runs, was withdrawn, waits for its turn or was handed over, and
\* in one of these places once, also when it expired before anyone listened, or
\* behind a slow event, or when its id was started anew.
TimersAccounted ==
  ~disposed =>
    \A t \in Tokens \ Unused :
      handed[t] + Waits(t) + Cardinality({id \in TimerIds : active[id] = t})
        + (IF t \in withdrawn THEN 1 ELSE 0) = 1

\* The application was told what the host last was, and gets every expiry once,
\* although both wait in one queue behind slow events.
EventsAccounted == SeesRegardedChanges /\ TimersAccounted

\* A timer that expired is handed over in the end, if nobody disposes the queue.
ExpiryIsHanded ==
  \A t \in Tokens : (Waits(t) > 0) ~> (handed[t] > 0 \/ disposed)
=============================================================================
