----------------------------- MODULE HostHistory -----------------------------
(***************************************************************************)
(* Where the application is, and where its browser is: the stack of the    *)
(* SDK's router (sdk/luastra/navigation.luau) and the session history of   *)
(* the page, kept together by the history capability                       *)
(* (platform/host/platform-capabilities.mjs), the queue of host events     *)
(* that platform/host/main.js feeds it through, and an application that    *)
(* uses them (website/app/src/main.luau).                                  *)
(*                                                                         *)
(* Every entry the application writes carries a token, its whole stack, so *)
(* that a popped entry brings the stack back.  The application writes      *)
(* within its turn; the browser pops entries at any time, and the event    *)
(* that says so waits until the events before it were handled.             *)
(***************************************************************************)
EXTENDS Integers, FiniteSets, SequencesExt

CONSTANTS
  Places,      \* locations of the application
  Home,        \* its first one
  NoPlace,
  MaxDepth,    \* maximumDepth of the router
  MaxEntries,  \* bound on the entries of the session history
  MaxMoves     \* bound on the moves of the user and of the host

ASSUME HistoryAssumption ==
  /\ Home \in Places /\ NoPlace \notin Places
  /\ MaxDepth \in Nat \ {0, 1} /\ {MaxEntries, MaxMoves} \subseteq Nat \ {0}

VARIABLES
  native,      \* the host has an App plugin: a Back button, links from outside
  stack,       \* records of the router, the current location last
  session,     \* session history: entries, the index of the current one, and the
               \* history.back() calls that are still to be carried out
  waiting,     \* host events not yet dispatched
  running,     \* the host event being handled, or Idle
  hashes,      \* hashchange events the browser has still to fire
  suppressedHref, \* suppressedHistoryHref
  pressed,     \* pendingSystemBack: a press of Back waits for its decision
  told,        \* the entry the application was last told of, or wrote itself
  astray,      \* what need not hold any more: see GoesAstray
  moves

historyVars == <<native, stack, session, waiting, running, hashes, suppressedHref, pressed,
                 told, astray, moves>>

Stacks == {s \in SeqOf(Places, MaxDepth) : s # <<>>}
Entries == [place : Places, token : Stacks \cup {<<>>}]     \* <<>>: state is not ours

Pop(i) == [kind |-> "history", value |-> session.entries[i].token, at |-> i]
Url(p, i) == [kind |-> "url", value |-> p, at |-> i]
Link(p) == [kind |-> "link", value |-> p, at |-> 0]
BackPress == [kind |-> "back", value |-> <<>>, at |-> 0]
Other == [kind |-> "other", value |-> <<>>, at |-> 0]       \* a timer, a change of visibility, ...
Idle == [kind |-> "idle", value |-> <<>>, at |-> 0]
HostEvents == [kind : {"history"}, value : Stacks, at : 1..MaxEntries]
              \cup [kind : {"url"}, value : Places, at : 1..MaxEntries]
              \cup {Link(p) : p \in Places} \cup {BackPress, Other}

Sessions == [entries : Seq(Entries), index : 1..MaxEntries, backs : 0..MaxMoves]
Here(ses) == ses.entries[ses.index]

HistoryTypeOK ==
  /\ native \in BOOLEAN /\ stack \in Stacks
  /\ session \in Sessions
  /\ session.index <= Len(session.entries) /\ Len(session.entries) <= MaxEntries
  /\ waiting \in Seq(HostEvents) /\ running \in HostEvents \cup {Idle}
  /\ hashes \in 0..MaxMoves /\ moves \in 0..MaxMoves
  /\ suppressedHref \in Places \cup {NoPlace} /\ pressed \in BOOLEAN
  /\ told \in 1..MaxEntries /\ astray \subseteq {"page", "depth"}

-----------------------------------------------------------------------------
(* The router.                                                             *)

CanBack(s) == Len(s) > 1

\* stack.push, and pushEntry of the application, which starts over when the stack is full
Pushed(s, p) ==
  IF Last(s) = p THEN s
  ELSE IF Len(s) >= MaxDepth THEN <<Last(s), p>> ELSE Append(s, p)

\* stack.replace: a location that is below the current one is gone back to
Replaced(s, p) ==
  IF Last(s) = p THEN s
  ELSE IF CanBack(s) /\ s[Len(s) - 1] = p THEN Front(s) ELSE Append(Front(s), p)

\* finalizeStartup: restoreEncoded of the current token, then the location of the page
Started(token, p) == Replaced(IF token = <<>> THEN <<Home>> ELSE token, p)

-----------------------------------------------------------------------------
(* The session history as the application writes it.                       *)

\* the entry carries the stack it was written with
EntryOf(s) == [place |-> Last(s), token |-> s]

Appended(ses, entry) ==
  [ses EXCEPT !.entries = Append(SubSeq(@, 1, ses.index), entry), !.index = @ + 1]

Overwritten(ses, entry) == [ses EXCEPT !.entries[ses.index] = entry]

\* the application has still to learn where the browser went
Lags(ses, rest) ==
  \/ told # ses.index
  \/ \E e \in Range(rest) : e.kind \in {"history", "url"}

\* A write while the application lags goes to an entry it does not mean.
GoesAstray(lags) == astray' = IF lags THEN {"page", "depth"} ELSE astray

WritesPush(s, ses) ==
  /\ stack' = s /\ session' = Appended(ses, EntryOf(s)) /\ told' = ses.index + 1

WritesReplace(s, ses) ==
  /\ stack' = s /\ session' = Overwritten(ses, EntryOf(s)) /\ told' = ses.index

-----------------------------------------------------------------------------
(* A turn of the application for a host event, with the request it makes;  *)
(* rest is what waits behind the event.                                    *)

TurnsToHistory(e, ses) ==
  /\ stack' = e.value /\ session' = ses /\ told' = e.at /\ UNCHANGED <<pressed, astray>>

\* applyUrl(value, false): the browser has the entry already
TurnsToUrl(e, ses, rest) ==
  /\ WritesReplace(Replaced(stack, e.value), ses) /\ UNCHANGED pressed
  /\ GoesAstray(e.at # ses.index \/ \E f \in Range(rest) : f.kind \in {"history", "url"})

\* applyUrl(value, true): a full stack refuses, without compaction
TurnsToLink(e, ses, rest) ==
  /\ \/ /\ Last(stack) = e.value
        /\ WritesReplace(stack, ses) /\ GoesAstray(Lags(ses, rest))
     \/ /\ Last(stack) # e.value /\ Len(stack) < MaxDepth
        /\ WritesPush(Append(stack, e.value), ses) /\ GoesAstray(Lags(ses, rest))
     \/ /\ Last(stack) # e.value /\ Len(stack) >= MaxDepth
        /\ session' = ses /\ UNCHANGED <<stack, told, astray>>
  /\ UNCHANGED pressed

\* system_back: history.back(), or exitApp(), after which nothing matters
TurnsBack(ses) ==
  /\ session' = IF CanBack(stack) THEN [ses EXCEPT !.backs = @ + 1] ELSE ses
  /\ pressed' = FALSE /\ UNCHANGED <<stack, told, astray>>

Turns(e, ses, rest) ==
  \/ e.kind = "history" /\ TurnsToHistory(e, ses)
  \/ e.kind = "url" /\ TurnsToUrl(e, ses, rest)
  \/ e.kind = "link" /\ TurnsToLink(e, ses, rest)
  \/ e.kind = "back" /\ TurnsBack(ses)
  \/ e.kind = "other" /\ session' = ses /\ UNCHANGED <<stack, told, pressed, astray>>

\* `history:${token}`, `url:${source}:${url}`: the entry an event is about is not in its key
SameKey(e, f) == e.kind = f.kind /\ e.value = f.value

\* hostEvents.enqueue: a duplicate is dropped, which is harmless only if what it
\* would say is said last anyway
Enqueued(e, ses) ==
  \/ /\ \E f \in Range(waiting) \cup {running} : SameKey(e, f)
     /\ GoesAstray(IF waiting # <<>> THEN ~SameKey(Last(waiting), e)
                   ELSE e.kind # "history" \/ stack # e.value)
     /\ session' = ses /\ UNCHANGED <<stack, waiting, running, pressed, told>>
  \/ /\ running = Idle /\ running' = e
     /\ Turns(e, ses, <<>>) /\ UNCHANGED waiting
  \/ /\ running # Idle /\ \A f \in Range(waiting) \cup {running} : ~SameKey(e, f)
     /\ waiting' = Append(waiting, e)
     /\ session' = ses /\ UNCHANGED <<stack, running, pressed, told, astray>>

-----------------------------------------------------------------------------
HistoryInit ==
  /\ native \in BOOLEAN
  /\ \E p \in Places :
       /\ stack = Started(<<>>, p)
       /\ session = [entries |-> <<EntryOf(stack)>>, index |-> 1, backs |-> 0]
  /\ waiting = <<>> /\ running = Idle /\ hashes = 0
  /\ suppressedHref = NoPlace /\ pressed = FALSE /\ told = 1 /\ astray = {} /\ moves = 0

Moves == moves < MaxMoves /\ moves' = moves + 1

LinksIn(q) == {e \in Range(q) : e.kind = "link"}

\* within the bound, whatever links still wait
Room == session.index + Cardinality(LinksIn(waiting)) < MaxEntries

\* A link of the page is tapped: pushEntry, and the request it makes.
Visit(p) ==
  /\ Moves /\ p # Last(stack) /\ Room
  /\ WritesPush(Pushed(stack, p), session) /\ GoesAstray(Lags(session, waiting))
  /\ UNCHANGED <<native, waiting, running, hashes, suppressedHref, pressed>>

\* Faulty: the stack is popped at once, and the browser is not asked
ReturnAtOnce ==
  /\ Moves /\ CanBack(stack) /\ stack' = Front(stack)
  /\ UNCHANGED <<session, told, astray, native, waiting, running, hashes, suppressedHref, pressed>>

\* The page's own Back: navigateBack, which leaves the stack to the event that follows.
Return ==
  /\ Moves
  /\ \/ /\ CanBack(stack) /\ session' = [session EXCEPT !.backs = @ + 1]
        /\ UNCHANGED <<stack, told, astray>>
     \/ /\ ~CanBack(stack)
        /\ WritesReplace(Replaced(stack, Home), session) /\ GoesAstray(Lags(session, waiting))
  /\ UNCHANGED <<native, waiting, running, hashes, suppressedHref, pressed>>

\* The browser makes entry i the current one and fires popstate, and later hashchange.
Traversed(i, ses) ==
  LET there == ses.entries[i] IN
  /\ hashes' = IF ~native /\ there.place # Here(ses).place THEN hashes + 1 ELSE hashes
  /\ \/ /\ there.token = <<>> /\ session' = [ses EXCEPT !.index = i]
        /\ UNCHANGED <<stack, waiting, running, suppressedHref, pressed, told, astray>>
     \/ /\ there.token # <<>> /\ suppressedHref' = there.place
        /\ Enqueued(Pop(i), [ses EXCEPT !.index = i])

\* The user goes back or forward in the browser.
BrowserGoes(i) ==
  /\ Moves /\ ~native /\ i \in DOMAIN session.entries /\ i # session.index
  /\ Traversed(i, session) /\ UNCHANGED native

\* history.back() is carried out; before the first entry there is nothing to pop.
BackCarriedOut ==
  LET ses == [session EXCEPT !.backs = @ - 1] IN
  /\ session.backs > 0
  /\ \/ /\ session.index = 1 /\ session' = ses
        /\ UNCHANGED <<stack, waiting, running, hashes, suppressedHref, pressed, told, astray>>
     \/ session.index > 1 /\ Traversed(session.index - 1, ses)
  /\ UNCHANGED <<native, moves>>

\* The user edits the fragment of the address: a new entry, with no state of ours.
EditUrl(p) ==
  /\ Moves /\ ~native /\ p # Here(session).place /\ Room
  /\ session' = Appended(session, [place |-> p, token |-> <<>>]) /\ hashes' = hashes + 1
  /\ UNCHANGED <<native, stack, waiting, running, suppressedHref, pressed, told, astray>>

\* receive of hashchange: the one that belongs to a popped entry is not passed on.  What
\* a pop without a hashchange left in suppressedHref makes it take another one for that.
HashChange ==
  /\ hashes > 0 /\ hashes' = hashes - 1 /\ suppressedHref' = NoPlace
  /\ \/ /\ suppressedHref = Here(session).place
        /\ GoesAstray(Here(session).token = <<>>)
        /\ UNCHANGED <<stack, session, waiting, running, pressed, told>>
     \/ /\ suppressedHref # Here(session).place
        /\ Enqueued(Url(Here(session).place, session.index), session)
  /\ UNCHANGED <<native, moves>>

\* appUrlOpen: the system opens a link of the application
OpenLink(p) ==
  /\ Moves /\ native /\ Room
  /\ Enqueued(Link(p), session) /\ UNCHANGED <<native, hashes, suppressedHref>>

\* backButton: while a press waits for its decision further ones count for nothing
PressBack ==
  /\ Moves /\ native /\ ~pressed
  /\ \/ running = Idle /\ running' = BackPress /\ TurnsBack(session) /\ UNCHANGED waiting
     \/ /\ running # Idle /\ waiting' = Append(waiting, BackPress) /\ pressed' = TRUE
        /\ UNCHANGED <<stack, session, running, told, astray>>
  /\ UNCHANGED <<native, hashes, suppressedHref>>

\* Something else occupies the queue, for any time.
SomethingElse ==
  /\ Moves /\ Other \notin Range(waiting) \cup {running}
  /\ Enqueued(Other, session) /\ UNCHANGED <<native, hashes, suppressedHref>>

\* An event and the requests that followed it were handled; the next has its turn.
Handled ==
  /\ running # Idle
  /\ \/ /\ waiting = <<>> /\ running' = Idle
        /\ UNCHANGED <<stack, session, waiting, pressed, told, astray>>
     \/ /\ waiting # <<>> /\ running' = Head(waiting) /\ waiting' = Tail(waiting)
        /\ Turns(Head(waiting), session, Tail(waiting))
  /\ UNCHANGED <<native, hashes, suppressedHref, moves>>

\* The page is loaded anew; its entries, and what they carry, are the browser's.
Reload ==
  /\ Moves /\ ~native
  /\ WritesReplace(Started(Here(session).token, Here(session).place), [session EXCEPT !.backs = 0])
  /\ waiting' = <<>> /\ running' = Idle /\ hashes' = 0
  /\ suppressedHref' = NoPlace /\ pressed' = FALSE /\ astray' = astray \ {"page"}
  /\ UNCHANGED native

HistoryNext ==
  \/ \E p \in Places : Visit(p) \/ EditUrl(p) \/ OpenLink(p)
  \/ \E i \in 1..MaxEntries : BrowserGoes(i)
  \/ Return \/ BackCarriedOut \/ HashChange \/ PressBack \/ SomethingElse \/ Handled \/ Reload

HistorySpec == HistoryInit /\ [][HistoryNext]_historyVars

-----------------------------------------------------------------------------
Quiet == running = Idle /\ hashes = 0 /\ session.backs = 0

\* Once everything was handled the application shows the place of the browser's
\* current entry, with the stack that entry carries.
ShowsTheEntry ==
  Quiet /\ "page" \notin astray =>
    /\ Last(stack) = Here(session).place
    /\ Here(session).token \in {<<>>, stack}

\* Going back when the router says that it can stays among the application's entries.
\* (The stack may be deeper than the entries before the current one: an entry that the user
\* made and left before the application heard of it takes the stack it is come back with.)
BackStaysInside ==
  Quiet /\ "depth" \notin astray /\ CanBack(stack) => session.index > 1

\* A press of Back that waits is going to be decided.
PressIsDecided == pressed => BackPress \in Range(waiting)

\* The application and the browser agree on where they are.
HistoryAgrees == ShowsTheEntry /\ BackStaysInside /\ PressIsDecided
=============================================================================
