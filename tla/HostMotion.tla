----------------------------- MODULE HostMotion -----------------------------
(***************************************************************************)
(* Motion in the browser host: the elements' declarations                  *)
(* (renderer/motion-renderer-session.mjs), the motions that run for them   *)
(* (motion/motion-runtime.mjs, tween-engine.mjs), and the tasks that share *)
(* the frames of the browser (scheduler/event-frame-scheduler.mjs).        *)
(*                                                                         *)
(* A tween is a sequence of one step that runs once; 0 rounds go on for    *)
(* ever.  A step has a length in time, waits included; curves and values   *)
(* are left out but for which motion a style comes from and whether it is  *)
(* its final value.  An element that is not in the tree declares nothing.  *)
(* main.js disposes of no session and starts motions by rendering only.    *)
(***************************************************************************)
EXTENDS Naturals, Sequences, FiniteSetsExt

CONSTANTS
  MotionChannels,     \* pairs of an element and a property that moves
  Motions,            \* records of steps and rounds
  Still,              \* no motion is declared
  FrameTime,          \* the longest time from frame to frame
  MaxMotionRenders    \* bound on the renders

ASSUME MotionAssumption ==
  /\ {FrameTime, MaxMotionRenders} \subseteq Nat \ {0}
  /\ Still \notin Motions
  /\ \A m \in Motions :   \* as normalizeMotionDescriptor admits them
       /\ m.rounds \in Nat /\ m.steps \in Seq(Nat) /\ m.steps # <<>>
       /\ m.rounds = 1 \/ \E i \in DOMAIN m.steps : m.steps[i] > 0

VARIABLES
  declared,     \* #declarations, with the render each came with
  playing,      \* #active: what runs on a channel
  frameTasks,   \* the tasks of the scheduler
  reduced,      \* the user prefers reduced motion
  deferring,    \* #deferActive
  deferred,     \* #deferred
  styled,       \* whose value a channel was given last, and whether it is final
  motionRenders,
  overrun       \* channels whose continuous sequence ran into reduced motion

motionVars == <<declared, playing, frameTasks, reduced, deferring, deferred, styled,
                motionRenders, overrun>>

MotionTrees == [MotionChannels -> Motions \cup {Still}]
StepsOf(m) == DOMAIN m.steps
Serials == 0..MaxMotionRenders

Idle == [serial |-> 0]
Prepared == [serial : Serials, reduced : BOOLEAN]
Unstyled == [serial |-> 0, final |-> FALSE]

MotionTypeOK ==
  /\ declared \in [MotionChannels -> [serial : Serials, motion : Motions \cup {Still}]]
  /\ \A c \in MotionChannels :
       /\ playing[c] # Idle =>
            /\ playing[c].serial \in Serials /\ playing[c].motion \in Motions
            /\ {playing[c].step, playing[c].tween} \subseteq {0} \cup StepsOf(playing[c].motion)
            /\ playing[c].round \in 0..playing[c].motion.rounds
       /\ deferred[c] \in Prepared \cup {Idle}
       /\ styled[c] \in [serial : Serials, final : BOOLEAN]
  /\ frameTasks \subseteq [channel : MotionChannels, serial : Serials, step : Nat,
                            left : Nat \ {0}, begun : BOOLEAN]
  /\ {reduced, deferring} \subseteq BOOLEAN
  /\ motionRenders \in Serials /\ overrun \subseteq MotionChannels

MotionInit ==
  /\ declared = [c \in MotionChannels |-> [serial |-> 0, motion |-> Still]]
  /\ playing = [c \in MotionChannels |-> Idle] /\ frameTasks = {}
  /\ reduced \in BOOLEAN /\ deferring = FALSE
  /\ deferred = [c \in MotionChannels |-> Idle]
  /\ styled = [c \in MotionChannels |-> Unstyled]
  /\ motionRenders = 0 /\ overrun = {}
-----------------------------------------------------------------------------
(* advance: from a step to the next that takes time. *)

Timed(m, after) == {i \in StepsOf(m) : i > after /\ m.steps[i] > 0}

\* Faulty: the rounds are not counted.
NextRoundUncounted(m, round) == round

NextRound(m, round) == IF m.rounds = 0 THEN 0 ELSE round + 1

\* Steps that take no time, and with reduced motion all of them, are over at once:
\* the sequence goes on to a step and a round, is over, or recurses without end.
Advance(m, step, round) ==
  LET to(i, k) == [how |-> "runs", step |-> i, round |-> k]
      ends(how) == [how |-> how, step |-> 0, round |-> 0]
  IN  IF reduced THEN ends(IF m.rounds = 0 THEN "recurses" ELSE "over")
      ELSE IF Timed(m, step) # {} THEN to(Min(Timed(m, step)), round)
      ELSE IF m.rounds # 0 /\ round + 1 >= m.rounds THEN ends("over")
      ELSE to(Min(Timed(m, 0)), NextRound(m, round))

\* Faulty: the handle of a step that took no time replaces its successor's.
TweenAfterSettled(before, step) == IF step = before + 1 THEN step ELSE 0

\* the step whose tween a cancellation reaches, when that after `before` was begun:
\* the steps that took no time on the way leave the newer handle in place
TweenAfter(before, step) == step

Record(serial, m, before, next) ==
  [serial |-> serial, motion |-> m, step |-> next.step, round |-> next.round,
   tween |-> TweenAfter(before, next.step)]

Task(c, r) ==
  [channel |-> c, serial |-> r.serial, step |-> r.step, left |-> r.motion.steps[r.step],
   begun |-> FALSE]

\* start, for the channels of `starting` with the motion and serial given: all of a
\* reduced motion is over at once
FirstStep(m) ==
  IF reduced THEN [how |-> "over", step |-> 0, round |-> 0] ELSE Advance(m, 0, 0)

\* the tasks that cancelRecord finds by the record's tween
Cancelled(channels) ==
  {t \in frameTasks : t.channel \in channels /\ playing[t.channel] # Idle
                      /\ t.serial = playing[t.channel].serial
                      /\ t.step = playing[t.channel].tween}

\* disposeTarget for the channels of `gone`, then start for those of `starting`, as
\* they are declared now; `before` are the styles in between
Restart(gone, starting, before) ==
  LET serial(c) == declared'[c].serial
      first(c)  == FirstStep(declared'[c].motion)
      record(c) == Record(serial(c), declared'[c].motion, 0, first(c))
      begun     == {c \in starting : first(c).how = "runs"}
  IN  /\ playing' = [c \in MotionChannels |->
                       IF c \in begun THEN record(c)
                       ELSE IF c \in gone THEN Idle ELSE playing[c]]
      /\ frameTasks' = (frameTasks \ Cancelled(gone)) \cup {Task(c, record(c)) : c \in begun}
      /\ styled' = [c \in MotionChannels |->
                      IF c \in starting \ begun THEN [serial |-> serial(c), final |-> TRUE]
                      ELSE IF c \in begun /\ first(c).step > 1
                           THEN [serial |-> serial(c), final |-> FALSE]
                      ELSE before[c]]
-----------------------------------------------------------------------------
(* Renders, and the signal of the iOS host that it shows the page. *)

\* only the first render may defer what it declares and all later ones declare
\* until the signal
RenderMotion(newTree, defer) ==
  LET changed  == {c[1] : c \in {c \in MotionChannels : newTree[c] # declared[c].motion}}
      gone     == {c \in MotionChannels : c[1] \in changed}
      moving   == {c \in gone : newTree[c] # Still}
      serial   == motionRenders + 1
      cleared  == [c \in MotionChannels |-> IF c \in gone THEN Unstyled ELSE styled[c]]
      prepared == [c \in MotionChannels |-> IF c \in moving
                     THEN [serial |-> serial, final |-> reduced] ELSE cleared[c]]
  IN
  /\ motionRenders < MaxMotionRenders /\ motionRenders' = serial
  /\ defer => motionRenders = 0
  /\ deferring' = (deferring \/ defer)
  /\ declared' = [c \in MotionChannels |-> IF c \in gone
                    THEN [serial |-> serial, motion |-> newTree[c]] ELSE declared[c]]
  /\ deferred' = [c \in MotionChannels |->
                    IF c \in moving /\ deferring' THEN [serial |-> serial, reduced |-> reduced]
                    ELSE IF c \in gone THEN Idle ELSE deferred[c]]
  /\ IF deferring' THEN Restart(gone, {}, prepared) ELSE Restart(gone, moving, cleared)
  /\ overrun' = overrun \ gone
  /\ UNCHANGED reduced

ActivateDeferred ==
  /\ deferring /\ deferring' = FALSE
  /\ UNCHANGED <<declared, reduced, motionRenders, overrun>>
  /\ deferred' = [c \in MotionChannels |-> Idle]
  /\ Restart({}, {c \in MotionChannels : deferred[c] # Idle /\ ~deferred[c].reduced}, styled)

PreferenceChanges ==
  /\ reduced' = ~reduced
  /\ UNCHANGED <<declared, playing, frameTasks, deferring, deferred, styled, motionRenders, overrun>>
-----------------------------------------------------------------------------
(* Frames. The tasks of one frame are of different channels, so their order *)
(* does not matter.                                                         *)

\* the stack overflows in the adapter, and the record is dropped, or elsewhere, and
\* it stays; the scheduler drops the task
Frame(time) ==
  LET due  == {t \in frameTasks : t.begun /\ t.left <= time}
      mine(t) == playing[t.channel] # Idle /\ playing[t.channel].serial = t.serial
      next(t) == Advance(playing[t.channel].motion, t.step, playing[t.channel].round)
      that(how) == {t \in due : mine(t) /\ next(t).how = how}
      record(t) == Record(t.serial, playing[t.channel].motion, t.step, next(t))
      taskOf(c) == CHOOSE t \in frameTasks : t.channel = c
      channelsOf(tasks) == {t.channel : t \in tasks}
  IN
  /\ frameTasks # {}
  /\ frameTasks' = {[t EXCEPT !.begun = TRUE, !.left = IF t.begun THEN @ - time ELSE @] :
                      t \in frameTasks \ due}
                   \cup {Task(t.channel, record(t)) : t \in that("runs")}
  /\ \E dropped \in SUBSET channelsOf(that("recurses")) :
       playing' = [c \in MotionChannels |->
                     IF c \in channelsOf(that("runs")) THEN record(taskOf(c))
                     ELSE IF c \in channelsOf(that("over")) \cup dropped THEN Idle
                     ELSE playing[c]]
  /\ styled' = [c \in MotionChannels |->
                  IF c \in channelsOf(frameTasks)
                  THEN [serial |-> taskOf(c).serial, final |-> taskOf(c) \in that("over")]
                  ELSE styled[c]]
  /\ overrun' = overrun \cup channelsOf(that("recurses"))
  /\ UNCHANGED <<declared, reduced, deferring, deferred, motionRenders>>

MotionNext ==
  \/ \E newTree \in MotionTrees, defer \in BOOLEAN : RenderMotion(newTree, defer)
  \/ ActivateDeferred
  \/ PreferenceChanges
  \/ \E time \in 1..FrameTime : Frame(time)

MotionSpec == MotionInit /\ [][MotionNext]_motionVars
-----------------------------------------------------------------------------
(* Properties. *)

\* Every task of the scheduler belongs to the motion that runs on its channel and
\* is the one a cancellation finds; so a motion that was replaced or whose element
\* left writes no style any more, and without motions no frame is requested.
TasksAreOwned ==
  /\ \A t \in frameTasks : /\ playing[t.channel] # Idle
                           /\ playing[t.channel].serial = t.serial
                           /\ playing[t.channel].tween = t.step
  /\ \A t, u \in frameTasks : t.channel = u.channel => t = u

\* What runs or is deferred is what the tree declares, and what runs has a task,
\* unless its sequence ran into reduced motion.
DeclaredMotionsRun ==
  \A c \in MotionChannels :
    /\ playing[c] # Idle =>
         /\ playing[c].motion = declared[c].motion /\ playing[c].serial = declared[c].serial
         /\ c \in overrun \/ \E t \in frameTasks : t.channel = c
    /\ deferred[c] # Idle =>
         deferring /\ declared[c].motion # Still /\ deferred[c].serial = declared[c].serial

\* A channel at rest shows the final value of its motion, or none if it has no motion,
\* also when motions were replaced half-way, deferred, or reduced meanwhile.
RestShowsTheEnd ==
  \A c \in MotionChannels \ overrun :
    playing[c] = Idle /\ deferred[c] = Idle =>
      styled[c] = IF declared[c].motion = Still THEN Unstyled
                  ELSE [serial |-> declared[c].serial, final |-> TRUE]

\* "all channels must share one pending frame", "finish at idle" and "cannot retain
\* a stale frame after target disposal" (tests/motion-runtime-integration.mjs).
MotionHolds == TasksAreOwned /\ DeclaredMotionsRun /\ RestShowsTheEnd

\* the time of the first n steps
Elapsed(m, n) ==
  LET upTo[i \in 0..Len(m.steps)] == IF i = 0 THEN 0 ELSE upTo[i - 1] + m.steps[i]
  IN  upTo[n]

\* the time a motion that is not continuous still takes, doubled, and a frame for
\* every step that has not begun
TimeLeft(t, r) ==
  LET round == Elapsed(r.motion, Len(r.motion.steps))
      rest  == round - Elapsed(r.motion, r.step)
  IN  2 * (t.left + rest + (r.motion.rounds - r.round - 1) * round) + (IF t.begun THEN 0 ELSE 1)

\* Every frame brings every motion that is not continuous nearer to its end, whatever
\* else was rendered and however the user's preference changes: such motions end.
FramesLeadToTheEnd ==
  [][UNCHANGED <<declared, deferring>> /\ frameTasks' # frameTasks =>
       \A t \in frameTasks :
         LET c == t.channel
             r == playing[c]
         IN  r.motion.rounds # 0 =>
               \/ playing'[c] = Idle
               \/ \E u \in frameTasks' :
                    u.channel = c /\ TimeLeft(u, playing'[c]) < TimeLeft(t, r)]_motionVars
=============================================================================
