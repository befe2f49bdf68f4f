------------------------------ MODULE HostMedia ------------------------------
(***************************************************************************)
(* The media adapter of the browser host (platform/host/media-             *)
(* capabilities.mjs, createBrowserMediaCapabilities) and the state machine *)
(* behind it (platform/media/media-state-machine.mjs).                     *)
(*                                                                         *)
(* Commands of the application come from several request loops of the host *)
(* and overlap where they await the source of a track or the start of      *)
(* playback; the system's media keys run the same commands without being   *)
(* requests.  The audio element is modelled by what the HTML standard lets *)
(* it do.  Positions, durations, routes and interruptions (which the host  *)
(* never reports) are left out.                                            *)
(***************************************************************************)
EXTENDS Naturals, FiniteSets

CONSTANTS
  Tracks,       \* the items of the queue
  NoTrack,      \* no item, or no source
  MediaLoops,        \* the request loops that may run commands
  MaxCommands   \* bound on the commands

ASSUME MediaAssumption == NoTrack \notin Tracks /\ MaxCommands \in Nat

VARIABLES
  media,        \* status and item of the state machine
  told,         \* the last of its states the application was told
  handling,     \* handlingCommand: listeners are not told
  doing,        \* what a loop or the media keys await
  source,       \* the track audio.src was set for
  loading,      \* its metadata are not loaded yet
  on,           \* the element is not paused
  pauses,       \* pause events of the element that were not fired yet
  commands,     \* commands so far
  swallowed,    \* a command failed after changing a state nobody was told
  unplayed,     \* the state is playing since a play() that was rejected
  mislabelled   \* a source failed, or was applied when another item was selected

mediaVars == <<media, told, handling, doing, source, loading, on, pauses, commands,
               swallowed, unplayed, mislabelled>>

Keys == "media keys"
Callers == MediaLoops \cup {Keys}
Statuses == {"idle", "loading", "ready", "playing", "paused", "buffering", "ended", "error"}
States == [status : Statuses, item : Tracks \cup {NoTrack}]

Nothing == [op |-> "nothing", track |-> NoTrack]
Doings == {Nothing} \cup [op : {"select"}, track : Tracks]
                    \cup [op : {"play", "aborted"}, track : {NoTrack}]

MediaTypeOK ==
  /\ media \in States /\ told \in States /\ handling \in BOOLEAN
  /\ doing \in [Callers -> Doings]
  /\ source \in Tracks \cup {NoTrack} /\ loading \in BOOLEAN /\ on \in BOOLEAN
  /\ pauses \in 0..MaxCommands /\ commands \in 0..MaxCommands
  /\ swallowed \in BOOLEAN /\ unplayed \in BOOLEAN /\ mislabelled \in BOOLEAN

MediaInit ==
  /\ media = [status |-> "idle", item |-> NoTrack] /\ told = media
  /\ handling = FALSE /\ doing = [c \in Callers |-> Nothing]
  /\ source = NoTrack /\ loading = FALSE /\ on = FALSE /\ pauses = 0
  /\ commands = 0 /\ swallowed = FALSE /\ unplayed = FALSE /\ mislabelled = FALSE
-----------------------------------------------------------------------------
(* publish, and what handle adds to it. *)

With(status) == [media EXCEPT !.status = status]
Resting == \A c \in Callers : doing[c] = Nothing

\* what a failure leaves behind, until the application is told or the state moves on
Noted(failed, playFailed) ==
  /\ swallowed' = (told' # media' /\ (failed \/ swallowed))
  /\ unplayed' = (media'.status = "playing" /\ (playFailed \/ unplayed))

\* the state changes: the listeners are told, unless a request is being handled
Publish(state) ==
  /\ media' = state
  /\ told' = IF handling THEN told ELSE state
  /\ Noted(FALSE, FALSE)

\* a command of c changes the state and awaits something
Starts(c, state, what) ==
  /\ media' = state
  /\ told' = IF handling \/ c # Keys THEN told ELSE state
  /\ handling' = (handling \/ c # Keys)
  /\ doing' = [doing EXCEPT ![c] = what]
  /\ Noted(FALSE, FALSE)

\* Faulty: handlingCommand is only reset when the command succeeds.
HandlingAfterOk(c, how) == handling /\ (c = Keys \/ how # "ok")

HandlingAfter(c, how) == handling /\ c = Keys

\* a command of c is over with that state: the response carries it, an error does
\* not, and the media keys only publish what they change
Ends(c, how, state) ==
  /\ media' = state
  /\ told' = IF c = Keys THEN (IF handling \/ state = media THEN told ELSE state)
             ELSE IF how = "ok" THEN state ELSE told
  /\ handling' = HandlingAfter(c, how)
  /\ Noted(c # Keys /\ how # "ok", how = "play rejected")

Begins(c) ==
  /\ doing[c] = Nothing /\ commands < MaxCommands
  /\ commands' = commands + 1

\* the promises of audio.play() that are pending are rejected
PlaysAborted(d) ==
  [c \in Callers |-> IF d[c].op = "play" THEN [d[c] EXCEPT !.op = "aborted"] ELSE d[c]]
-----------------------------------------------------------------------------
(* Commands. *)

\* queue.set, queue.next, queue.previous: the state first, then the source
Select(c, t) ==
  /\ Begins(c)
  /\ c = Keys => media.item # NoTrack
  /\ Starts(c, [status |-> "loading", item |-> t], [op |-> "select", track |-> t])
  /\ UNCHANGED <<source, loading, on, pauses, mislabelled>>

\* the source is known: audio.load() stops the element and drops its events
SourceResolved(c) ==
  /\ doing[c].op = "select"
  /\ source' = doing[c].track /\ loading' = TRUE /\ on' = FALSE /\ pauses' = 0
  /\ mislabelled' = (media.item # doing[c].track)
  /\ doing' = PlaysAborted([doing EXCEPT ![c] = Nothing])
  /\ Ends(c, "ok", media)
  /\ UNCHANGED commands

\* the source is not admitted or does not exist
SourceRefused(c) ==
  /\ doing[c].op = "select"
  /\ doing' = [doing EXCEPT ![c] = Nothing]
  /\ mislabelled' = TRUE
  /\ Ends(c, "error", media)
  /\ UNCHANGED <<source, loading, on, pauses, commands>>

MayPlay == media.item # NoTrack /\ media.status \in {"ready", "paused", "ended"}

Play(c) ==
  /\ Begins(c) /\ MayPlay
  /\ Starts(c, With("playing"), [op |-> "play", track |-> NoTrack])
  /\ on' = TRUE
  /\ UNCHANGED <<source, loading, pauses, mislabelled>>

\* the browser wants a gesture of the user first: NotAllowedError
PlayRefused(c) ==
  /\ Begins(c) /\ MayPlay /\ ~on
  /\ Ends(c, "play rejected", With("playing"))
  /\ UNCHANGED <<doing, source, loading, on, pauses, mislabelled>>

\* the element plays: the event first, then all promises of play() are resolved,
\* here that of c
PlayBegins(c) ==
  /\ doing[c].op = "play" /\ on /\ source # NoTrack /\ pauses = 0 /\ ~loading
  /\ doing' = [doing EXCEPT ![c] = Nothing]
  /\ Ends(c, "ok", With("playing"))
  /\ UNCHANGED <<source, loading, on, pauses, commands, mislabelled>>

PlayAborted(c) ==
  /\ doing[c].op = "aborted"
  /\ doing' = [doing EXCEPT ![c] = Nothing]
  /\ Ends(c, "play rejected", media)
  /\ UNCHANGED <<source, loading, on, pauses, commands, mislabelled>>

\* audio.pause(): the event comes later
Paused ==
  /\ on' = FALSE
  /\ pauses' = IF on THEN pauses + 1 ELSE pauses
  /\ doing' = PlaysAborted(doing)

Pause(c) ==
  /\ Begins(c) /\ media.status \in {"playing", "buffering"}
  /\ Paused
  /\ Ends(c, "ok", With("paused"))
  /\ UNCHANGED <<source, loading, mislabelled>>

Stop(c) ==
  /\ c # Keys /\ Begins(c) /\ Paused
  /\ Ends(c, "ok", IF media.item = NoTrack THEN media ELSE With("ready"))
  /\ UNCHANGED <<source, loading, mislabelled>>

\* the element loses its source, and load() drops its events
Unload(c) ==
  /\ c # Keys /\ Begins(c)
  /\ source' = NoTrack /\ loading' = FALSE /\ on' = FALSE /\ pauses' = 0
  /\ doing' = PlaysAborted(doing)
  /\ mislabelled' = FALSE
  /\ Ends(c, "ok", [status |-> "idle", item |-> NoTrack])

\* seek and state, whose response carries the state, or any command that is
\* refused before it changes the state
AnswersOnly(c, how) ==
  /\ c # Keys /\ Begins(c)
  /\ Ends(c, how, media)
  /\ UNCHANGED <<doing, source, loading, on, pauses, mislabelled>>
-----------------------------------------------------------------------------
(* Events of the element. Those it queued come first: a pause. *)

PauseFires ==
  /\ pauses > 0 /\ pauses' = pauses - 1
  /\ IF media.status # "ended" THEN Publish(With("paused"))
     ELSE UNCHANGED <<media, told, swallowed, unplayed>>
  /\ UNCHANGED <<handling, doing, source, loading, on, commands, mislabelled>>

Loaded ==
  /\ pauses = 0 /\ loading /\ loading' = FALSE
  /\ Publish(With("ready"))
  /\ UNCHANGED <<handling, doing, source, on, pauses, commands, mislabelled>>

\* "waiting" for data, and "playing" once they came
Buffers(status) ==
  /\ pauses = 0 /\ on /\ ~loading /\ media.status # status
  /\ \A c \in Callers : doing[c].op # "play"
  /\ Publish(With(status))
  /\ UNCHANGED <<handling, doing, source, loading, on, pauses, commands, mislabelled>>

\* the end of the track, or a failure to decode: the element falls silent
FallsSilent(status) ==
  /\ pauses = 0 /\ source # NoTrack
  /\ IF status = "ended" THEN on /\ ~loading ELSE media.status # "error"
  /\ on' = FALSE /\ loading' = FALSE
  /\ doing' = PlaysAborted(doing)
  /\ Publish(With(status))
  /\ UNCHANGED <<handling, source, pauses, commands, mislabelled>>

\* progress of the element, or the lifecycle of the application, is published
Refreshes ==
  /\ Publish(media)
  /\ UNCHANGED <<handling, doing, source, loading, on, pauses, commands, mislabelled>>

ElementEvent ==
  \/ PauseFires \/ Loaded \/ Refreshes
  \/ \E s \in {"buffering", "playing"} : Buffers(s)
  \/ \E s \in {"ended", "error"} : FallsSilent(s)

MediaNext ==
  \/ \E c \in Callers :
       \/ \E t \in Tracks : Select(c, t)
       \/ SourceResolved(c) \/ SourceRefused(c)
       \/ Play(c) \/ PlayRefused(c) \/ PlayBegins(c) \/ PlayAborted(c)
       \/ Pause(c) \/ Stop(c) \/ Unload(c)
       \/ \E how \in {"ok", "error"} : AnswersOnly(c, how)
  \/ ElementEvent

MediaSpec == MediaInit /\ [][MediaNext]_mediaVars
-----------------------------------------------------------------------------
(* Properties. *)

AtRest == Resting /\ pauses = 0

\* However commands overlap with each other and with the element's events: when
\* none is under way the application knows the state, unless a command that
\* failed has changed it.
ToldUnlessFailed == Resting => told = media \/ swallowed

\* The element holds the track that is shown, unless its source was refused or
\* an older selection's source was resolved last.
HoldsWhatItShows ==
  Resting => source = media.item \/ mislabelled

\* Sound can be paused: what is heard is never shown as something that refuses
\* the command.
SoundIsControllable ==
  AtRest /\ on => media.status \in {"playing", "buffering"} \/ mislabelled

\* "A successful Media.play completion is not permission to invent playing
\* state": when everything is over the state is playing only if the element is,
\* unless play() was rejected, which leaves the state that was set before it, or
\* a new source is still loading.
PlayingIsAudible ==
  AtRest /\ media.status = "playing" => on \/ unplayed \/ loading

\* Once everything is over what the application knows is what is shown, and what
\* is shown is what is heard.
MediaSettles == ToldUnlessFailed /\ HoldsWhatItShows /\ SoundIsControllable /\ PlayingIsAudible
=============================================================================
