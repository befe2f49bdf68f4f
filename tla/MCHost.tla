------------------------------- MODULE MCHost -------------------------------
(***************************************************************************)
(* The parts of the browser host share no state but for the request loops  *)
(* that HostRequests and HostMedia model from either side, so a behaviour  *)
(* of one instance is one of a single part; the others stand still.        *)
(***************************************************************************)
EXTENDS RequestBooks, HostTimers, HostMedia, HostPreviews, HostMotion, MCLists, MCPage

VARIABLE part

HostInit ==
  /\ part \in {"requests", "ledger", "timers", "media", "previews", "motion", "page",
              "lists"}
  /\ RequestsInit /\ LedgerInit /\ EventsInit /\ TimersInit /\ MediaInit /\ PreviewsInit
  /\ MotionInit /\ PageInit /\ ListInit
  /\ part # "timers" =>
       native = TRUE /\ host = [visibility |-> "foreground", connectivity |-> "online"]
  /\ part # "motion" => reduced = FALSE
  /\ part # "lists" => view.tall \in LowItems

OthersStandStill ==
  /\ UNCHANGED part
  /\ part # "requests" => UNCHANGED requestVars
  /\ part # "ledger" => UNCHANGED ledgerVars
  /\ part # "timers" => UNCHANGED <<eventVars, timerVars>>
  /\ part # "media" => UNCHANGED mediaVars
  /\ part # "previews" => UNCHANGED previewVars
  /\ part # "motion" => UNCHANGED motionVars
  /\ part # "page" => UNCHANGED pageVars
  /\ part # "lists" => UNCHANGED listVars

HostNext ==
  \/ part = "requests" /\ RequestsNext /\ OthersStandStill
  \/ part = "ledger" /\ LedgerNext /\ OthersStandStill
  \/ part = "timers" /\ TimersNext /\ OthersStandStill
  \/ part = "media" /\ MediaNext /\ OthersStandStill
  \/ part = "previews" /\ PreviewsNext /\ OthersStandStill
  \/ part = "motion" /\ MotionNext /\ OthersStandStill
  \/ part = "page" /\ PageNext /\ OthersStandStill
  \/ part = "lists" /\ ListNext /\ OthersStandStill

\* as TimersFairness has it, when it is the timers' turn
TimersTurn(A) == part = "timers" /\ A
FairTimers ==
  /\ WF_<<eventVars, timerVars>>(TimersTurn(Subscribe))
  /\ WF_<<eventVars, timerVars>>(TimersTurn(Delivers))
  /\ WF_<<eventVars, timerVars>>(TimersTurn(subscribed /\ BridgeStep /\ UNCHANGED timerVars))
  /\ WF_<<eventVars, timerVars>>(
       TimersTurn(\E raised \in BOOLEAN : Finish(raised) /\ UNCHANGED timerVars))

HostSpec ==
  /\ HostInit
  /\ [][HostNext]_<<part, requestVars, ledgerVars, eventVars, timerVars, mediaVars, previewVars,
                    motionVars, pageVars, listVars>>
  /\ RequestsFairness                     \* asks nothing of the other parts
  /\ FairTimers

\* All parts keep to their types.
HostTypeOK ==
  /\ RequestsTypeOK /\ LedgerTypeOK /\ TimersTypeOK /\ MediaTypeOK /\ PreviewsTypeOK
  /\ MotionTypeOK /\ PageTypeOK /\ ListTypeOK

\* Every request is answered in the end, whatever its loops meet, and every timer that
\* expired is handed over, however long the queue of events.
HostResponds == EveryRequestAnswered /\ ExpiryIsHanded

\* what moves, and how: twice through a step that takes no time and two that do, or
\* for ever through one that takes time and one that does not
MovingChannels == {<<"a", "x">>, <<"a", "y">>, <<"b", "x">>}
MovingWays ==
  {[steps |-> <<0, 2, 1>>, rounds |-> 2], [steps |-> <<1, 0>>, rounds |-> 0]}
=============================================================================
