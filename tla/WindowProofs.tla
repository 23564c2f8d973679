---------------------------- MODULE WindowProofs ----------------------------
(***************************************************************************)
(* What the window says of the connection, whatever servers there are,     *)
(* whatever is clicked and however often the watchdog acts: at rest it is  *)
(* what Go would say, the page is deaf to xray-stopped only while a        *)
(* restart is owed an answer, and a session is recorded once.              *)
(*                                                                         *)
(* A step is first put into one of a few kinds, by what it does to the     *)
(* page, to the calls and to the queue.  Of the queue the invariants say   *)
(* only which message comes last: Some and Final, with a lemma each for a  *)
(* message read and for messages emitted.                                  *)
(***************************************************************************)
EXTENDS Window, SequenceTheorems, TLAPS

(***************************************************************************)
(* What the helpers make of a page.                                        *)
(***************************************************************************)
(* A fresh timer is a session of its own.                                  *)
LEMMA SessionIs ==
    ASSUME NEW id \in Nat, NEW over \in SUBSET Links
    PROVE  /\ SessionOf(id, over) \in Sessions
           /\ SessionOf(id, over).id = id /\ SessionOf(id, over).over = over
BY DEF SessionOf, Sessions

LEMMA NoSessionIs == NoSession \in Sessions /\ NoSession.id = 0
BY SessionIs DEF NoSession

(* A page drawn in a state it is not entering "on" in keeps its session.   *)
LEMMA Drawn ==
    ASSUME NEW p \in Pages, NEW state \in {"off", "connecting", "on"}, NEW link,
           state # "on" \/ ~Entered(p, state)
    PROVE  LET q == updateAppInterface(p, state, link)
           IN /\ q \in Pages /\ q.state = state /\ q.status = state
              /\ q.session = p.session /\ q.link = p.link
              /\ state = "off" => ~q.isRestarting
              /\ state # "off" => q.isRestarting = p.isRestarting
BY DEF updateAppInterface, Entered, Pages

(* A page that comes up times a session of its own.                        *)
LEMMA ComesUp ==
    ASSUME NEW p \in Pages, p.state # "on", NEW link \in MaybeLink, tracked \in Nat
    PROVE  LET q == updateAppInterface(p, "on", link)
           IN /\ q \in Pages /\ q.state = "on" /\ q.status = "on" /\ q.link = p.link
              /\ q.session = SessionOf(tracked + 1, {link} \ {NoLink}) /\ ~q.isRestarting
<1>1. SessionOf(tracked + 1, {link} \ {NoLink}) \in Sessions
  BY SessionIs DEF MaybeLink
<1> QED
  BY <1>1 DEF updateAppInterface, Entered, Pages, startSessionTracking

LEMMA Closed ==
    ASSUME NEW p \in Pages
    PROVE  /\ SessionClosed(p) \in Pages /\ SessionClosed(p).session = NoSession
           /\ SessionClosed(p).state = p.state /\ SessionClosed(p).status = p.status
           /\ SessionClosed(p).isRestarting = p.isRestarting /\ SessionClosed(p).link = p.link
BY NoSessionIs DEF SessionClosed, Pages

LEMMA Restarted ==
    ASSUME NEW p \in Pages
    PROVE  /\ RestartCore(p) \in Pages /\ RestartCore(p).state = "connecting"
           /\ RestartCore(p).status = "connecting" /\ RestartCore(p).session = p.session
<1>1. /\ Connecting(p) \in Pages /\ Connecting(p).state = "connecting"
      /\ Connecting(p).status = "connecting" /\ Connecting(p).session = p.session
  BY Drawn DEF Connecting
<1> QED
  BY <1>1 DEF RestartCore, Pages

LEMMA GoesOff ==
    ASSUME NEW p \in Pages
    PROVE  /\ Off(p) \in Pages /\ Off(p).state = "off" /\ Off(p).status = "off"
           /\ Off(p).session = p.session /\ ~Off(p).isRestarting
BY Drawn DEF Off

LEMMA Connects ==
    ASSUME NEW p \in Pages
    PROVE  /\ Connecting(p) \in Pages /\ Connecting(p).state = "connecting"
           /\ Connecting(p).status = "connecting" /\ Connecting(p).session = p.session
           /\ Connecting(p).isRestarting = p.isRestarting
BY Drawn DEF Connecting

LEMMA Chosen ==
    ASSUME NEW p \in Pages, NEW link \in MaybeLink
    PROVE  LET q == [p EXCEPT !.link = link]
           IN /\ q \in Pages /\ q.state = p.state /\ q.status = p.status
              /\ q.session = p.session /\ q.isRestarting = p.isRestarting
BY DEF Pages

(* The server of a running session is one more it has been over.           *)
LEMMA SeenIs ==
    ASSUME NEW p \in Pages, NEW link \in Links
    PROVE  /\ Seen(p, link) \in Pages /\ Seen(p, link).session.id = p.session.id
           /\ p.session = NoSession <=> Seen(p, link).session = NoSession
           /\ Seen(p, link).state = p.state /\ Seen(p, link).status = p.status
           /\ Seen(p, link).isRestarting = p.isRestarting
<1>1. CASE p.session = NoSession
  BY <1>1 DEF Seen
<1>2. CASE p.session # NoSession
  <2>1. Seen(p, link) = [p EXCEPT !.session = SessionOf(p.session.id, p.session.over \cup {link})]
    BY <1>2 DEF Seen, Pages
  <2>2. p.session.id \in Nat /\ p.session.over \cup {link} \in SUBSET Links
    BY DEF Pages, Sessions
  <2>3. Seen(p, link).session = SessionOf(p.session.id, p.session.over \cup {link})
    BY <2>1 DEF Pages
  <2>4. /\ Seen(p, link).session \in Sessions /\ Seen(p, link).session.id = p.session.id
        /\ Seen(p, link).session.over = p.session.over \cup {link}
    BY <2>2, <2>3, SessionIs
  <2>6. Seen(p, link).session # NoSession
    BY <2>4 DEF NoSession, SessionOf
  <2>5. /\ Seen(p, link).state = p.state /\ Seen(p, link).status = p.status
        /\ Seen(p, link).isRestarting = p.isRestarting /\ Seen(p, link) \in Pages
    BY <2>1, <2>3, <2>4 DEF Pages
  <2> QED
    BY <1>2, <2>4, <2>5, <2>6
<1> QED
  BY <1>1, <1>2

(***************************************************************************)
(* The user's steps are of six kinds, whatever button, menu or key.        *)
(***************************************************************************)
Clicked == clicks' \in 0..MaxClicks /\ best' \in MaybeLink
Keeps == UNCHANGED <<inbox, core, dog, trips, historyCache, tracked>>

(* The page asks for a start or a restart.                                 *)
Asks ==
    /\ page' \in Pages /\ page'.state = "connecting" /\ page'.status = "connecting"
    /\ page'.session = page.session
    /\ \E c \in Calls : c.kind # "stop" /\ calls' = calls \cup {c}
    /\ Clicked /\ Keeps /\ UNCHANGED <<astray, recording, relabelled>>

(* It lets go of the connection.                                           *)
Leaves ==
    /\ page' \in Pages /\ page'.state = "off" /\ page'.status = "off"
    /\ page'.session = NoSession /\ ~page'.isRestarting
    /\ finishSessionHistory(page)
    /\ \E c \in Calls : c.kind = "stop" /\ calls' = calls \cup {c}
    /\ Clicked /\ Keeps /\ UNCHANGED <<astray, relabelled>>

(* It notes a choice and says what it said.                                *)
Chooses ==
    /\ page' \in Pages /\ page'.state = page.state /\ page'.status = page.status
    /\ page'.session = page.session /\ page'.isRestarting = page.isRestarting
    /\ Clicked /\ Keeps /\ UNCHANGED <<calls, astray, recording, relabelled>>

(* It is drawn in another language.                                        *)
Redraws ==
    /\ page' \in Pages /\ page'.state = page.state /\ page'.status = page.state
    /\ page'.session = page.session /\ (page'.isRestarting => page.isRestarting)
    /\ relabelled' = (relabelled \/ page.status \in DogStatus)
    /\ Clicked /\ Keeps /\ UNCHANGED <<calls, astray, recording>>

Clears ==
    /\ historyCache' = <<>> /\ Clicked
    /\ UNCHANGED <<page, calls, inbox, core, dog, trips, astray, recording, tracked, relabelled>>

(* It is loaded anew, off or connecting on its own.                        *)
Reloads ==
    /\ calls = {} /\ inbox = <<>> /\ recording' = {}
    /\ page' \in Pages /\ page'.session = NoSession /\ ~page'.isRestarting
    /\ astray' = (astray \/ core # NoLink)
    /\ \/ page'.state = "off" /\ page'.status = "off" /\ UNCHANGED calls
       \/ /\ page'.state = "connecting" /\ page'.status = "connecting"
          /\ \E c \in Calls : c.kind # "stop" /\ calls' = calls \cup {c}
    /\ Clicked /\ Keeps /\ UNCHANGED relabelled

LEMMA Counted == ASSUME TypeOK, Click PROVE clicks' \in 0..MaxClicks
BY WindowAssumption DEF TypeOK, Click

LEMMA CallIs ==
    ASSUME TypeOK, NEW kind \in {"start", "restart"}, NEW link \in Links, Ask(kind, link)
    PROVE  \E c \in Calls : c.kind # "stop" /\ calls' = calls \cup {c}
<1>1. Call(kind, link) \in Calls /\ Call(kind, link).kind = kind
  BY DEF TypeOK, Call, Calls
<1> QED
  BY <1>1 DEF Ask

LEMMA StopIs ==
    ASSUME TypeOK, Ask("stop", NoLink)
    PROVE  \E c \in Calls : c.kind = "stop" /\ calls' = calls \cup {c}
<1>1. Call("stop", NoLink) \in Calls /\ Call("stop", NoLink).kind = "stop"
  BY DEF TypeOK, Call, Calls
<1> QED
  BY <1>1 DEF Ask

LEMMA Pressed == ASSUME TypeOK, Power PROVE Asks \/ Leaves
<1>1. Clicked /\ Keeps /\ UNCHANGED <<astray, relabelled>>
  BY Counted DEF Power, Nothing, Keeps, Clicked, TypeOK
<1>2. page \in Pages /\ page.link \in MaybeLink
  BY DEF TypeOK, Pages
<1>3. CASE startConnection
  <2>1. \E c \in Calls : c.kind # "stop" /\ calls' = calls \cup {c}
    BY <1>2, <1>3, CallIs DEF startConnection, MaybeLink
  <2> QED
    BY <1>1, <1>2, <1>3, <2>1, Connects DEF startConnection, NoRecord, Asks
<1>4. CASE disconnect
  <2>1. \E c \in Calls : c.kind = "stop" /\ calls' = calls \cup {c}
    BY <1>4, StopIs DEF disconnect
  <2>2. SessionClosed(page) \in Pages /\ SessionClosed(page).session = NoSession
    BY <1>2, Closed
  <2>3. page' = Off(SessionClosed(page)) /\ finishSessionHistory(page)
    BY <1>4 DEF disconnect
  <2>4. page' \in Pages /\ page'.state = "off" /\ page'.status = "off"
    BY <2>2, <2>3, GoesOff
  <2>5. page'.session = NoSession /\ ~page'.isRestarting
    BY <2>2, <2>3, GoesOff
  <2> QED
    BY <1>1, <2>1, <2>3, <2>4, <2>5 DEF Leaves
<1> QED
  BY <1>3, <1>4 DEF Power

LEMMA Rerun == ASSUME TypeOK, Restart PROVE Asks
<1>1. Clicked /\ Keeps /\ UNCHANGED <<astray, recording, relabelled>>
  BY Counted DEF Restart, Nothing, NoRecord, Keeps, Clicked, TypeOK
<1>2. page \in Pages /\ page.link \in Links
  BY DEF Restart, TypeOK, Pages, MaybeLink
<1>3. \E c \in Calls : c.kind # "stop" /\ calls' = calls \cup {c}
  BY <1>2, CallIs DEF Restart
<1> QED
  BY <1>1, <1>2, <1>3, Restarted DEF Restart, Asks

LEMMA Selected ==
    ASSUME TypeOK, NEW link \in Links, SelectCard(link) PROVE Asks \/ Chooses
<1> DEFINE chosen == [page EXCEPT !.link = link]
           goes   == page.link # link /\ page.state # "off"
<1>1. Clicked /\ Keeps /\ UNCHANGED <<astray, recording, relabelled>>
  BY Counted DEF SelectCard, Nothing, NoRecord, Keeps, Clicked, TypeOK
<1>2. /\ chosen \in Pages /\ chosen.state = page.state /\ chosen.status = page.status
      /\ chosen.session = page.session /\ chosen.isRestarting = page.isRestarting
  BY Chosen DEF TypeOK, MaybeLink
<1>3. /\ page' = IF goes THEN RestartCore(chosen) ELSE chosen
      /\ IF goes THEN Ask("restart", link) ELSE UNCHANGED calls
  BY DEF SelectCard
<1> HIDE DEF chosen, goes
<1>4. CASE goes
  <2>1. \E c \in Calls : c.kind # "stop" /\ calls' = calls \cup {c}
    BY <1>3, <1>4, CallIs
  <2> QED
    BY <1>1, <1>2, <1>3, <1>4, <2>1, Restarted DEF Asks
<1>5. CASE ~goes
  BY <1>1, <1>2, <1>3, <1>5 DEF Chooses
<1> QED
  BY <1>4, <1>5

LEMMA Reconnected ==
    ASSUME TypeOK, NEW link \in Links, selectAndConnectServer(link) PROVE Asks
<1> DEFINE chosen == [page EXCEPT !.link = link]
<1>1. Clicked /\ Keeps /\ UNCHANGED <<astray, recording, relabelled>>
  BY Counted DEF selectAndConnectServer, Nothing, NoRecord, Keeps, Clicked, TypeOK
<1>2. /\ chosen \in Pages /\ chosen.state = page.state /\ chosen.status = page.status
      /\ chosen.session = page.session
  BY Chosen DEF TypeOK, MaybeLink
<1>3. \/ page' = Connecting(chosen) /\ Ask("start", link)
      \/ page' = RestartCore(chosen) /\ Ask("restart", link)
  BY DEF selectAndConnectServer
<1> HIDE DEF chosen
<1>4. \E c \in Calls : c.kind # "stop" /\ calls' = calls \cup {c}
  BY <1>3, CallIs
<1> QED
  BY <1>1, <1>2, <1>3, <1>4, Connects, Restarted DEF Asks

LEMMA FromTray ==
    ASSUME TypeOK, NEW link \in Links, TrayStartReconnect(link) PROVE Asks
<1> DEFINE chosen == [page EXCEPT !.link = link]
<1>1. Clicked /\ Keeps /\ UNCHANGED <<astray, recording, relabelled>>
  BY Counted DEF TrayStartReconnect, Nothing, NoRecord, Keeps, Clicked, TypeOK
<1>2. chosen \in Pages /\ chosen.session = page.session
  BY Chosen DEF TypeOK, MaybeLink
<1>3. page' = Connecting(chosen) /\ Ask("start", link)
  BY DEF TrayStartReconnect
<1> HIDE DEF chosen
<1>4. \E c \in Calls : c.kind # "stop" /\ calls' = calls \cup {c}
  BY <1>3, CallIs
<1> QED
  BY <1>1, <1>2, <1>3, <1>4, Connects DEF Asks

LEMMA BestTaken ==
    ASSUME TypeOK, NEW link \in Links, NEW wasActive \in BOOLEAN, TakeBest(link, wasActive)
    PROVE  /\ page' \in Pages /\ page'.state = "connecting" /\ page'.status = "connecting"
           /\ page'.session = page.session
           /\ \E c \in Calls : c.kind # "stop" /\ calls' = calls \cup {c}
<1> DEFINE chosen == [page EXCEPT !.link = link]
<1>2. chosen \in Pages /\ chosen.session = page.session
  BY Chosen DEF TypeOK, MaybeLink
<1>3. page' = Connecting(chosen) /\ Ask(IF wasActive THEN "restart" ELSE "start", link)
  BY DEF TakeBest
<1> HIDE DEF chosen
<1>4. \E c \in Calls : c.kind # "stop" /\ calls' = calls \cup {c}
  BY <1>3, CallIs
<1> QED
  BY <1>2, <1>3, <1>4, Connects

LEMMA BestOffered ==
    ASSUME TypeOK, NEW link \in Links, BestServer(link) PROVE Asks \/ Chooses
<1>1. Clicked /\ Keeps /\ UNCHANGED <<astray, recording, relabelled>>
  BY Counted DEF BestServer, Nothing, NoRecord, Keeps, Clicked, TypeOK, MaybeLink
<1>2. CASE TakeBest(link, FALSE)
  BY <1>1, <1>2, BestTaken DEF Asks
<1>3. CASE UNCHANGED <<page, calls>>
  BY <1>1, <1>3 DEF Chooses, TypeOK
<1> QED
  BY <1>2, <1>3 DEF BestServer

LEMMA BestConfirmed == ASSUME TypeOK, ConfirmBest PROVE Asks \/ Chooses
<1>1. Clicked /\ Keeps /\ UNCHANGED <<astray, recording, relabelled>>
  BY Counted DEF ConfirmBest, Nothing, NoRecord, Keeps, Clicked, TypeOK, MaybeLink
<1>2. CASE TakeBest(best, TRUE)
  <2>1. best \in Links
    BY DEF ConfirmBest, TypeOK, MaybeLink
  <2> QED
    BY <1>1, <1>2, <2>1, BestTaken DEF Asks
<1>3. CASE UNCHANGED <<page, calls>>
  BY <1>1, <1>3 DEF Chooses, TypeOK
<1> QED
  BY <1>2, <1>3 DEF ConfirmBest

LEMMA Translated == ASSUME TypeOK, LangToggle PROVE Redraws
<1>1. Clicked /\ Keeps /\ UNCHANGED <<calls, astray, recording>>
  BY Counted DEF LangToggle, goVars, Keeps, Clicked, TypeOK
<1>2. page \in Pages /\ page.state \in {"off", "connecting", "on"} /\ page.isRestarting \in BOOLEAN
  BY DEF TypeOK, Pages
<1>3. page' = updateAppInterface(page, page.state, NoLink)
  BY DEF LangToggle
<1>4. page.state # "on" \/ ~Entered(page, page.state)
  BY DEF Entered
<1>5. /\ page' \in Pages /\ page'.state = page.state /\ page'.status = page.state
      /\ page'.session = page.session
  BY <1>2, <1>3, <1>4, Drawn
<1>6. CASE page.state = "off"
  <2>1. ~page'.isRestarting
    BY <1>2, <1>3, <1>4, <1>6, Drawn
  <2> QED
    BY <1>1, <1>5, <2>1 DEF LangToggle, Redraws
<1>7. CASE page.state # "off"
  <2>1. page'.isRestarting = page.isRestarting
    BY <1>2, <1>3, <1>4, <1>7, Drawn
  <2> QED
    BY <1>1, <1>5, <2>1 DEF LangToggle, Redraws
<1> QED
  BY <1>6, <1>7

LEMMA Loaded == ASSUME TypeOK, Reload PROVE Reloads
<1> DEFINE fresh == [state |-> "off", isRestarting |-> FALSE, link |-> page.link,
                     session |-> NoSession, status |-> "off"]
<1>1. Clicked /\ Keeps /\ UNCHANGED relabelled
  BY Counted DEF Reload, Keeps, Clicked, TypeOK, MaybeLink
<1>2. /\ fresh \in Pages /\ fresh.session = NoSession /\ ~fresh.isRestarting
      /\ fresh.state = "off" /\ fresh.status = "off"
  BY NoSessionIs DEF TypeOK, Pages
<1>3. /\ calls = {} /\ inbox = <<>> /\ recording' = {} /\ astray' = (astray \/ core # NoLink)
      /\ \/ page' = fresh /\ UNCHANGED calls
         \/ page.link # NoLink /\ page' = Connecting(fresh) /\ Ask("start", page.link)
  BY DEF Reload
<1> HIDE DEF fresh
<1>4. CASE page' = fresh /\ UNCHANGED calls
  BY <1>1, <1>2, <1>3, <1>4 DEF Reloads
<1>5. CASE page.link # NoLink /\ page' = Connecting(fresh) /\ Ask("start", page.link)
  <2>1. page.link \in Links
    BY <1>5 DEF TypeOK, Pages, MaybeLink
  <2>2. \E c \in Calls : c.kind # "stop" /\ calls' = calls \cup {c}
    BY <1>5, <2>1, CallIs
  <2>3. /\ page' \in Pages /\ page'.session = NoSession /\ ~page'.isRestarting
        /\ page'.state = "connecting" /\ page'.status = "connecting"
    BY <1>2, <1>5, Connects
  <2> QED
    BY <1>1, <1>3, <2>2, <2>3 DEF Reloads
<1> QED
  BY <1>3, <1>4, <1>5

User == \/ Power \/ Restart \/ ConfirmBest \/ LangToggle \/ ClearHistory \/ Reload
        \/ \E link \in Links : SelectCard(link) \/ selectAndConnectServer(link)
                               \/ TrayStartReconnect(link) \/ BestServer(link)

LEMMA UserSteps ==
    ASSUME TypeOK, User PROVE Asks \/ Leaves \/ Chooses \/ Redraws \/ Clears \/ Reloads
<1>1. CASE ClearHistory
  BY <1>1, Counted DEF ClearHistory, Clears, Clicked, TypeOK, goVars
<1>2. CASE \E link \in Links : SelectCard(link) \/ selectAndConnectServer(link)
                               \/ TrayStartReconnect(link) \/ BestServer(link)
  BY <1>2, Selected, Reconnected, FromTray, BestOffered
<1> QED
  BY <1>1, <1>2, Pressed, Rerun, BestConfirmed, Translated, Loaded DEF User

(***************************************************************************)
(* The messages, as what each does to the page.                            *)
(***************************************************************************)
Arrives ==
    /\ Deliver("started") /\ page.state # "on" /\ NoRecord
    /\ page' \in Pages /\ page'.state = "on" /\ page'.status = "on" /\ ~page'.isRestarting
    /\ page'.session.id = tracked + 1 /\ tracked' = tracked + 1
Passes ==
    /\ Deliver("started") /\ page.state = "on" /\ NoRecord /\ UNCHANGED tracked
    /\ page' \in Pages /\ page'.state = "on" /\ page'.status = page.status
    /\ page'.isRestarting = page.isRestarting /\ page'.session.id = page.session.id
    /\ page.session = NoSession <=> page'.session = NoSession
Falls ==
    /\ Deliver("stopped") /\ ~page.isRestarting /\ finishSessionHistory(page)
    /\ page' \in Pages /\ page'.state = "off" /\ page'.status = "off" /\ ~page'.isRestarting
    /\ page'.session = NoSession /\ UNCHANGED tracked
Overhears ==
    Deliver("stopped") /\ page.isRestarting /\ UNCHANGED <<page, recording, tracked>>
Gives ==
    /\ Deliver("refused") /\ NoRecord /\ UNCHANGED tracked
    /\ page' \in Pages /\ page'.state = "off" /\ page'.status = "off" /\ ~page'.isRestarting
    /\ page'.session = page.session
Follows ==
    /\ Deliver("switched") /\ finishSessionHistory(page)
    /\ page' \in Pages /\ page'.state = page.state /\ page'.status = "on"
    /\ page'.isRestarting = page.isRestarting
    /\ page'.session.id = tracked + 1 /\ tracked' = tracked + 1
Tells(event) ==
    /\ Deliver(event) /\ NoRecord /\ UNCHANGED tracked
    /\ page' \in Pages /\ page'.state = page.state /\ page'.isRestarting = page.isRestarting
    /\ page'.session = page.session
    /\ page'.status = IF event = "reconnected" THEN "on" ELSE event

LEMMA HeadIs ==
    ASSUME TypeOK, NEW event, Deliver(event)
    PROVE  /\ inbox # <<>> /\ Head(inbox) \in Messages /\ Head(inbox).event = event
           /\ inbox' = Tail(inbox) /\ inbox' \in Seq(Messages)
BY HeadTailProperties DEF TypeOK, Deliver

LEMMA StartedHeard == ASSUME TypeOK, OnStarted PROVE Arrives \/ Passes
<1> DEFINE link == Head(inbox).link
<1>1. Deliver("started") /\ NoRecord /\ page \in Pages /\ tracked \in Nat
  BY DEF OnStarted, TypeOK
<1>2. link \in Links
  BY <1>1, HeadIs DEF Messages, DogStatus
<1>3. /\ page.state # "on" => page' = updateAppInterface(page, "on", link) /\ tracked' = tracked + 1
      /\ page.state = "on" => page' = Seen(page, link) /\ UNCHANGED tracked
  BY DEF OnStarted
<1> HIDE DEF link
<1>4. CASE page.state # "on"
  <2>1. /\ page' \in Pages /\ page'.state = "on" /\ page'.status = "on" /\ ~page'.isRestarting
        /\ page'.session = SessionOf(tracked + 1, {link} \ {NoLink})
    BY <1>1, <1>2, <1>3, <1>4, ComesUp DEF MaybeLink
  <2>2. page'.session.id = tracked + 1
    BY <1>1, <1>2, <2>1, SessionIs
  <2> QED
    BY <1>1, <1>3, <1>4, <2>1, <2>2 DEF Arrives
<1>5. CASE page.state = "on"
  BY <1>1, <1>2, <1>3, <1>5, SeenIs DEF Passes
<1> QED
  BY <1>4, <1>5

LEMMA StoppedHeard == ASSUME TypeOK, OnStopped PROVE Falls \/ Overhears
<1>1. CASE page.isRestarting
  BY <1>1 DEF OnStopped, Overhears
<1>2. CASE ~page.isRestarting
  <2>1. page \in Pages
    BY DEF TypeOK
  <2>2. SessionClosed(page) \in Pages /\ SessionClosed(page).session = NoSession
    BY <2>1, Closed
  <2>3. /\ Deliver("stopped") /\ UNCHANGED tracked /\ finishSessionHistory(page)
        /\ page' = Off(SessionClosed(page))
    BY <1>2 DEF OnStopped
  <2> QED
    BY <1>2, <2>2, <2>3, GoesOff DEF Falls
<1> QED
  BY <1>1, <1>2

LEMMA RefusedHeard == ASSUME TypeOK, OnRefused PROVE Gives
BY GoesOff DEF OnRefused, Gives, TypeOK

LEMMA SwitchedHeard == ASSUME TypeOK, OnWatchdogSwitched PROVE Follows
<1> DEFINE link  == Head(inbox).link
           moved == [SessionClosed(page) EXCEPT !.link = link]
           timed == startSessionTracking(moved, link)
<1>1. Deliver("switched") /\ finishSessionHistory(page) /\ tracked' = tracked + 1
  BY DEF OnWatchdogSwitched
<1>2. page \in Pages /\ tracked + 1 \in Nat
  BY DEF TypeOK
<1>3. link \in Links
  BY <1>1, HeadIs DEF Messages, DogStatus
<1>4. page' = [timed EXCEPT !.status = "on"]
  BY DEF OnWatchdogSwitched
<1>5. SessionClosed(page) \in Pages
  BY <1>2, Closed
<1>6. moved \in Pages /\ moved.state = page.state /\ moved.isRestarting = page.isRestarting
  BY <1>2, <1>3, <1>5, Closed, Chosen DEF MaybeLink
<1>7. /\ SessionOf(tracked + 1, {link} \ {NoLink}) \in Sessions
      /\ SessionOf(tracked + 1, {link} \ {NoLink}).id = tracked + 1
  BY <1>2, <1>3, SessionIs
<1> HIDE DEF link, moved
<1>8. /\ timed \in Pages /\ timed.state = page.state /\ timed.isRestarting = page.isRestarting
      /\ timed.session.id = tracked + 1
  BY <1>6, <1>7 DEF startSessionTracking, Pages
<1> HIDE DEF timed
<1>9. /\ page' \in Pages /\ page'.state = timed.state /\ page'.status = "on"
      /\ page'.isRestarting = timed.isRestarting /\ page'.session = timed.session
  BY <1>4, <1>8 DEF Pages
<1> QED
  BY <1>1, <1>8, <1>9 DEF Follows

LEMMA StatusHeard ==
    ASSUME TypeOK, OnWatchdogStatus
    PROVE  \E event \in DogStatus \cup {"reconnected"} : Tells(event)
<1>1. page \in Pages
  BY DEF TypeOK
<1>2. CASE \E event \in DogStatus : Deliver(event) /\ page' = [page EXCEPT !.status = event]
                                    /\ NoRecord /\ UNCHANGED tracked
  <2>1. PICK event \in DogStatus : Deliver(event) /\ page' = [page EXCEPT !.status = event]
                                   /\ NoRecord /\ UNCHANGED tracked
    BY <1>2
  <2>2. Tells(event)
    BY <1>1, <2>1 DEF Tells, Pages, DogStatus
  <2> QED
    BY <2>2
<1>3. CASE Deliver("reconnected") /\ page' = [page EXCEPT !.status = "on"]
           /\ NoRecord /\ UNCHANGED tracked
  <2>1. Tells("reconnected")
    BY <1>1, <1>3 DEF Tells, Pages
  <2> QED
    BY <2>1
<1> QED
  BY <1>2, <1>3 DEF OnWatchdogStatus

Heard == Arrives \/ Passes \/ Falls \/ Overhears \/ Gives \/ Follows
         \/ \E event \in DogStatus \cup {"reconnected"} : Tells(event)
LEMMA PageSteps == ASSUME TypeOK, Handlers PROVE Heard
BY StartedHeard, StoppedHeard, RefusedHeard, SwitchedHeard, StatusHeard DEF Handlers, Heard

(***************************************************************************)
(* Go's steps, as what each leaves in the page's queue.                    *)
(***************************************************************************)
(* A start came up, or was refused over what ran or after it was closed.   *)
Comes(c) ==
    /\ core' = c.link /\ dog' = c.link /\ c.link \in Links
    /\ inbox' = inbox \o <<Message("started", c.link)>> /\ UNCHANGED astray
Declined(c) ==
    /\ core' \in {core, NoLink} /\ c.link \in Links /\ UNCHANGED dog
    /\ inbox' = inbox \o <<Message("refused", c.link)>>
    /\ astray' = (astray \/ core' # NoLink)
Started(c) ==
    /\ c \in calls /\ c.kind = "start" /\ calls' = calls \ {c}
    /\ UNCHANGED trips /\ PageIdle /\ (Comes(c) \/ Declined(c))

(* A core was taken down, and a restart goes on as a start.                *)
Downed ==
    /\ core' = NoLink /\ dog' = NoLink
    /\ inbox' = inbox \o <<Message("stopped", NoLink)>>
    /\ UNCHANGED <<trips, astray>> /\ PageIdle

LEMMA StartIs == ASSUME TypeOK, NEW c \in calls, StartXray(c) PROVE Started(c)
<1>1. c.link \in Links
  BY DEF TypeOK, StartXray, Calls
<1> QED
  BY <1>1 DEF StartXray, Started, Comes, Declined, Emit

Downs(c) ==
    \/ c.kind = "stop" /\ calls' = calls \ {c}
    \/ c.kind = "restart" /\ calls' = (calls \ {c}) \cup {[c EXCEPT !.kind = "start"]}

LEMMA GoIs ==
    ASSUME TypeOK, GoSteps
    PROVE  \E c \in calls : Started(c) \/ (Downed /\ Downs(c))
<1>1. PICK c \in calls : StartXray(c) \/ RestartXray(c) \/ StopXray(c)
  BY DEF GoSteps
<1>2. CASE StartXray(c)
  BY <1>2, StartIs
<1>3. CASE RestartXray(c)
  BY <1>3 DEF RestartXray, Downed, Downs, Emit
<1>4. CASE StopXray(c)
  BY <1>4 DEF StopXray, Downed, Downs, Emit
<1> QED
  BY <1>1, <1>2, <1>3, <1>4

(* The watchdog rebuilt a core, here or on another server, or did not.     *)
Back(link) == <<Message("reconnecting", NoLink), Message("started", link),
                Message("reconnected", NoLink)>>
Lost == <<Message("reconnecting", NoLink), Message("failed", NoLink)>>
FirstFor(first) == first = <<>> \/ \E alt \in Links : first = <<Message("switched", alt)>>

Rebuilds ==
    /\ dog # NoLink /\ dog' \in Links /\ trips' \in 0..MaxTrips
    /\ \E first : /\ FirstFor(first)
                  /\ \/ core' = dog' /\ inbox' = inbox \o (first \o Back(dog'))
                     \/ core' = NoLink /\ inbox' = inbox \o (first \o Lost)
    /\ UNCHANGED <<calls, astray>> /\ PageIdle
Waits ==
    /\ dog # NoLink /\ trips' \in 0..MaxTrips
    /\ \E event \in {"waiting", "serverDead"} : inbox' = inbox \o <<Message(event, NoLink)>>
    /\ UNCHANGED <<calls, core, dog, astray>> /\ PageIdle

LEMMA TripIs ==
    ASSUME TypeOK, Trip PROVE dog \in Links /\ dog # NoLink /\ trips' \in 0..MaxTrips
BY WindowAssumption DEF TypeOK, Trip, MaybeLink

LEMMA DogSteps ==
    ASSUME TypeOK, WatchdogRestarts \/ WatchdogSwitches \/ WatchdogWaits
    PROVE  Rebuilds \/ Waits
<1>1. CASE WatchdogRestarts
  <2>1. dog' \in Links /\ dog # NoLink /\ trips' \in 0..MaxTrips /\ dog' = dog
    BY <1>1, TripIs DEF WatchdogRestarts
  <2>2. /\ UNCHANGED <<calls, astray>> /\ PageIdle
        /\ \/ core' = dog' /\ inbox' = inbox \o (<<>> \o Back(dog'))
           \/ core' = NoLink /\ inbox' = inbox \o (<<>> \o Lost)
    BY <1>1, <2>1 DEF WatchdogRestarts, Outcome, Emit, Back, Lost
  <2>3. FirstFor(<<>>)
    BY DEF FirstFor
  <2> QED
    BY <2>1, <2>2, <2>3 DEF Rebuilds
<1>2. CASE WatchdogSwitches
  <2>1. dog # NoLink /\ trips' \in 0..MaxTrips /\ UNCHANGED <<calls, astray>> /\ PageIdle
    BY <1>2, TripIs DEF WatchdogSwitches
  <2>2. PICK alt \in Links \ {dog} : dog' = alt /\ Outcome(alt, <<Message("switched", alt)>>)
    BY <1>2 DEF WatchdogSwitches
  <2> DEFINE first == <<Message("switched", alt)>>
  <2>3. \/ core' = dog' /\ inbox' = inbox \o (first \o Back(dog'))
        \/ core' = NoLink /\ inbox' = inbox \o (first \o Lost)
    BY <2>2 DEF Outcome, Emit, Back, Lost
  <2>4. FirstFor(first)
    BY <2>2 DEF FirstFor
  <2> QED
    BY <2>1, <2>2, <2>3, <2>4 DEF Rebuilds
<1>3. CASE WatchdogWaits
  <2>1. dog # NoLink /\ trips' \in 0..MaxTrips
    BY <1>3, TripIs DEF WatchdogWaits
  <2> QED
    BY <1>3, <2>1 DEF WatchdogWaits, Waits, Emit
<1> QED
  BY <1>1, <1>2, <1>3

(***************************************************************************)
(* Queues of messages: what stands in one, what comes last in it.          *)
(***************************************************************************)
Some(q, events) == \E i \in 1..Len(q) : q[i].event \in events

(* One of the first stands in the queue with none of the second after it.  *)
Final(q, events, others) ==
    \E i \in 1..Len(q) : /\ q[i].event \in events
                         /\ \A j \in (i + 1)..Len(q) : q[j].event \notin others

(* The watchdog says "reconnected" right after the core's "started".       *)
Paired(q) == \A i \in 2..Len(q) : q[i].event = "reconnected" => q[i - 1].event = "started"

LEMMA TailQueue ==
    ASSUME NEW q \in Seq(Messages), q # <<>>
    PROVE  /\ \A events : Some(q, events) <=> (Head(q).event \in events \/ Some(Tail(q), events))
           /\ \A events, others : Final(q, events, others)
                => Final(Tail(q), events, others)
                   \/ (Head(q).event \in events /\ ~Some(Tail(q), others))
           /\ Paired(q) => Paired(Tail(q))
           /\ Paired(q) /\ Tail(q) # <<>> /\ Head(Tail(q)).event = "reconnected"
                => Head(q).event = "started"
<1> DEFINE t == Tail(q)
<1>1. PICK n \in Nat : n = Len(q) /\ n >= 1
  BY EmptySeq, LenProperties
<1>2. /\ t \in Seq(Messages) /\ Len(t) = n - 1 /\ \A i \in 1..(n - 1) : t[i] = q[i + 1]
  BY <1>1, HeadTailProperties
<1>3. Head(q) = q[1]
  OBVIOUS
<1>4. t # <<>> => Head(t) = q[2] /\ n >= 2
  <2>1. t # <<>> => n - 1 # 0 /\ Head(t) = t[1]
    BY <1>2, EmptySeq
  <2> QED
    BY <1>1, <1>2, <2>1
<1> HIDE DEF t
<1>5. ASSUME NEW events
      PROVE  Some(q, events) <=> (Head(q).event \in events \/ Some(t, events))
  <2>1. ASSUME Some(q, events), Head(q).event \notin events PROVE Some(t, events)
    <3>1. PICK i \in 1..n : q[i].event \in events
      BY <1>1, <2>1 DEF Some
    <3>2. i # 1
      BY <1>3, <2>1, <3>1
    <3>3. i - 1 \in 1..(n - 1) /\ t[i - 1] = q[i]
      BY <1>1, <1>2, <3>1, <3>2
    <3> QED
      BY <1>2, <3>1, <3>3 DEF Some
  <2>2. ASSUME Some(t, events) PROVE Some(q, events)
    <3>1. PICK i \in 1..(n - 1) : t[i].event \in events
      BY <1>2, <2>2 DEF Some
    <3>2. i + 1 \in 1..n /\ q[i + 1].event \in events
      BY <1>1, <1>2, <3>1
    <3> QED
      BY <1>1, <3>2 DEF Some
  <2>3. ASSUME Head(q).event \in events PROVE Some(q, events)
    BY <1>1, <1>3, <2>3 DEF Some
  <2> QED
    BY <2>1, <2>2, <2>3
<1>6. ASSUME NEW events, NEW others, Final(q, events, others)
      PROVE  Final(t, events, others) \/ (Head(q).event \in events /\ ~Some(t, others))
  <2>1. PICK i \in 1..n : /\ q[i].event \in events
                          /\ \A j \in (i + 1)..n : q[j].event \notin others
    BY <1>1, <1>6 DEF Final
  <2>2. CASE i = 1
    <3>1. \A j \in 1..(n - 1) : t[j].event \notin others
      BY <1>1, <1>2, <2>1, <2>2
    <3> QED
      BY <1>2, <1>3, <2>1, <2>2, <3>1 DEF Some
  <2>3. CASE i # 1
    <3>1. i - 1 \in 1..(n - 1) /\ t[i - 1] = q[i]
      BY <1>1, <1>2, <2>1, <2>3
    <3>2. \A j \in ((i - 1) + 1)..(n - 1) : t[j].event \notin others
      BY <1>1, <1>2, <2>1, <2>3
    <3> QED
      BY <1>2, <2>1, <3>1, <3>2 DEF Final
  <2> QED
    BY <2>2, <2>3
<1>7. ASSUME Paired(q) PROVE Paired(t)
  <2>1. ASSUME NEW i \in 2..(n - 1), t[i].event = "reconnected" PROVE t[i - 1].event = "started"
    <3>1. i + 1 \in 2..n /\ t[i] = q[i + 1] /\ t[i - 1] = q[i] /\ (i + 1) - 1 = i
      BY <1>1, <1>2, <2>1
    <3> QED
      BY <1>1, <1>7, <2>1, <3>1 DEF Paired
  <2> QED
    BY <1>2, <2>1 DEF Paired
<1>8. ASSUME Paired(q), t # <<>>, Head(t).event = "reconnected" PROVE Head(q).event = "started"
  <2>1. 2 \in 2..n /\ q[2].event = "reconnected" /\ 2 - 1 = 1
    BY <1>1, <1>4, <1>8
  <2> QED
    BY <1>1, <1>3, <1>8, <2>1 DEF Paired
<1> QED
  BY <1>5, <1>6, <1>7, <1>8 DEF t

LEMMA LongerQueue ==
    ASSUME NEW q \in Seq(Messages), NEW m \in Seq(Messages), m # <<>>
    PROVE  /\ q \o m \in Seq(Messages) /\ q \o m # <<>>
           /\ \A events : Some(q \o m, events) <=> (Some(q, events) \/ Some(m, events))
           /\ \A events, others : Final(m, events, others) => Final(q \o m, events, others)
           /\ \A events, others : Final(q, events, others) /\ ~Some(m, others)
                => Final(q \o m, events, others)
           /\ Paired(q) /\ Paired(m) /\ Head(m).event # "reconnected" => Paired(q \o m)
           /\ q # <<>> => Head(q \o m) = Head(q)
           /\ q = <<>> => Head(q \o m) = Head(m)
<1> DEFINE s == q \o m
<1>1. PICK n \in Nat : n = Len(q)
  BY LenProperties
<1>2. PICK k \in Nat : k = Len(m) /\ k >= 1
  BY EmptySeq, LenProperties
<1>3. s \in Seq(Messages) /\ Len(s) = n + k
  BY <1>1, <1>2, ConcatProperties
<1>4. \A i \in 1..n : s[i] = q[i]
  BY <1>1, <1>2, ConcatProperties
<1>5. \A i \in 1..k : s[n + i] = m[i]
  <2> SUFFICES ASSUME NEW i \in 1..k PROVE s[n + i] = m[i]
    OBVIOUS
  <2>1. n + i \in 1..(n + k) /\ ~(n + i <= n) /\ (n + i) - n = i
    BY <1>1, <1>2
  <2> QED
    BY <1>1, <1>2, <2>1, ConcatProperties
<1>6. s # <<>> /\ Head(s) = s[1] /\ Head(m) = m[1]
  BY <1>1, <1>2, <1>3, EmptySeq
<1>7. q # <<>> => Head(q) = q[1] /\ n >= 1
  BY <1>1, EmptySeq
<1>8. q = <<>> => n = 0
  BY <1>1, EmptySeq
<1> HIDE DEF s
<1>9. ASSUME NEW events PROVE Some(s, events) <=> (Some(q, events) \/ Some(m, events))
  <2>1. ASSUME Some(s, events) PROVE Some(q, events) \/ Some(m, events)
    <3>1. PICK i \in 1..(n + k) : s[i].event \in events
      BY <1>3, <2>1 DEF Some
    <3>2. CASE i <= n
      BY <1>1, <1>4, <3>1, <3>2 DEF Some
    <3>3. CASE i > n
      <4>1. i - n \in 1..k /\ n + (i - n) = i
        BY <1>1, <1>2, <3>1, <3>3
      <4> QED
        BY <1>2, <1>5, <3>1, <4>1 DEF Some
    <3> QED
      BY <1>1, <3>1, <3>2, <3>3
  <2>2. ASSUME Some(q, events) PROVE Some(s, events)
    <3>1. PICK i \in 1..n : q[i].event \in events
      BY <1>1, <2>2 DEF Some
    <3>2. i \in 1..(n + k)
      BY <1>1, <1>2, <3>1
    <3> QED
      BY <1>3, <1>4, <3>1, <3>2 DEF Some
  <2>3. ASSUME Some(m, events) PROVE Some(s, events)
    <3>1. PICK i \in 1..k : m[i].event \in events
      BY <1>2, <2>3 DEF Some
    <3>2. n + i \in 1..(n + k)
      BY <1>1, <1>2, <3>1
    <3> QED
      BY <1>3, <1>5, <3>1, <3>2 DEF Some
  <2> QED
    BY <2>1, <2>2, <2>3
<1>10. ASSUME NEW events, NEW others, Final(m, events, others) PROVE Final(s, events, others)
  <2>1. PICK i \in 1..k : /\ m[i].event \in events
                          /\ \A j \in (i + 1)..k : m[j].event \notin others
    BY <1>2, <1>10 DEF Final
  <2>2. n + i \in 1..(n + k) /\ s[n + i].event \in events
    BY <1>1, <1>2, <1>5, <2>1
  <2>3. ASSUME NEW j \in ((n + i) + 1)..(n + k) PROVE s[j].event \notin others
    <3>1. j - n \in (i + 1)..k /\ j - n \in 1..k /\ n + (j - n) = j
      BY <1>1, <1>2, <2>1, <2>3
    <3> QED
      BY <1>5, <2>1, <3>1
  <2> QED
    BY <1>3, <2>2, <2>3 DEF Final
<1>11. ASSUME NEW events, NEW others, Final(q, events, others), ~Some(m, others)
       PROVE  Final(s, events, others)
  <2>1. PICK i \in 1..n : /\ q[i].event \in events
                          /\ \A j \in (i + 1)..n : q[j].event \notin others
    BY <1>1, <1>11 DEF Final
  <2>2. i \in 1..(n + k) /\ s[i].event \in events
    BY <1>1, <1>2, <1>4, <2>1
  <2>3. ASSUME NEW j \in (i + 1)..(n + k) PROVE s[j].event \notin others
    <3>1. CASE j <= n
      BY <1>1, <1>4, <2>1, <2>3, <3>1
    <3>2. CASE j > n
      <4>1. j - n \in 1..k /\ n + (j - n) = j
        BY <1>1, <1>2, <2>1, <2>3, <3>2
      <4>2. s[j] = m[j - n]
        BY <1>5, <4>1
      <4> QED
        BY <1>2, <1>11, <4>1, <4>2 DEF Some
    <3> QED
      BY <1>1, <1>2, <2>1, <2>3, <3>1, <3>2
  <2> QED
    BY <1>3, <2>2, <2>3 DEF Final
<1>12. ASSUME Paired(q), Paired(m), Head(m).event # "reconnected" PROVE Paired(s)
  <2>1. ASSUME NEW i \in 2..(n + k), s[i].event = "reconnected" PROVE s[i - 1].event = "started"
    <3>1. CASE i <= n
      <4>1. i \in 2..n /\ s[i] = q[i] /\ s[i - 1] = q[i - 1]
        BY <1>1, <1>4, <2>1, <3>1
      <4> QED
        BY <1>1, <1>12, <2>1, <4>1 DEF Paired
    <3>2. CASE i = n + 1
      <4>1. s[i] = m[1]
        BY <1>1, <1>2, <1>5, <3>2
      <4> QED
        BY <1>6, <1>12, <2>1, <4>1
    <3>3. CASE i > n + 1
      <4>1. /\ i - n \in 2..k /\ (i - n) - 1 \in 1..k
            /\ n + (i - n) = i /\ n + ((i - n) - 1) = i - 1 /\ i - n \in 1..k
        BY <1>1, <1>2, <2>1, <3>3
      <4>2. s[i] = m[i - n] /\ s[i - 1] = m[(i - n) - 1]
        BY <1>5, <4>1
      <4> QED
        BY <1>2, <1>12, <2>1, <4>1, <4>2 DEF Paired
    <3> QED
      BY <1>1, <1>2, <2>1, <3>1, <3>2, <3>3
  <2> QED
    BY <1>3, <2>1 DEF Paired
<1>13. q # <<>> => Head(s) = Head(q)
  BY <1>1, <1>4, <1>6, <1>7
<1>14. q = <<>> => Head(s) = Head(m)
  BY <1>2, <1>5, <1>6, <1>8
<1> QED
  BY <1>3, <1>6, <1>9, <1>10, <1>11, <1>12, <1>13, <1>14 DEF s

LEMMA OneMessage ==
    ASSUME NEW x \in Messages
    PROVE  /\ <<x>> \in Seq(Messages) /\ <<x>> # <<>> /\ Head(<<x>>) = x
           /\ \A events : Some(<<x>>, events) <=> x.event \in events
           /\ \A events, others : x.event \in events => Final(<<x>>, events, others)
           /\ Paired(<<x>>)
<1> DEFINE q == <<x>>
<1>1. q \in Seq(Messages) /\ q # <<>> /\ Len(q) = 1 /\ q[1] = x /\ Head(q) = x
  OBVIOUS
<1> HIDE DEF q
<1>2. \A events : Some(q, events) <=> x.event \in events
  BY <1>1 DEF Some
<1>3. \A events, others : x.event \in events => Final(q, events, others)
  BY <1>1 DEF Final
<1>4. Paired(q)
  BY <1>1 DEF Paired
<1> QED
  BY <1>1, <1>2, <1>3, <1>4 DEF q

UpEvents == {"started", "switched", "reconnected"}
DownEvents == {"stopped", "refused", "failed"}
AnswerEvents == {"started", "stopped", "refused", "reconnecting"}

LEMMA MessageIs ==
    /\ \A event \in {"started", "refused", "switched"}, link \in Links :
         Message(event, link) \in Messages /\ Message(event, link).event = event
    /\ \A event \in {"stopped", "reconnected"} \cup DogStatus :
         Message(event, NoLink) \in Messages /\ Message(event, NoLink).event = event
BY DEF Message, Messages

LEMMA BackIs ==
    ASSUME NEW link \in Links
    PROVE  /\ Back(link) \in Seq(Messages) /\ Back(link) # <<>>
           /\ Head(Back(link)).event = "reconnecting" /\ Paired(Back(link))
           /\ Some(Back(link), AnswerEvents) /\ ~Some(Back(link), {"switched"})
           /\ ~Some(Back(link), {"stopped", "refused"})
           /\ Final(Back(link), {"started"}, {"stopped", "refused"})
           /\ Final(Back(link), {"reconnected", "failed"}, {"reconnecting"})
           /\ Final(Back(link), {"reconnecting"}, {"switched"})
<1> DEFINE q == Back(link)
           a == Message("reconnecting", NoLink)
           b == Message("started", link)
           c == Message("reconnected", NoLink)
<1>1. /\ a \in Messages /\ b \in Messages /\ c \in Messages
      /\ a.event = "reconnecting" /\ b.event = "started" /\ c.event = "reconnected"
  BY MessageIs DEF DogStatus
<1>2. q = <<a, b, c>>
  BY DEF Back
<1> HIDE DEF a, b, c, q
<1>3. q \in Seq(Messages) /\ q # <<>> /\ Len(q) = 3 /\ Head(q) = a
  BY <1>1, <1>2
<1>4. q[1] = a /\ q[2] = b /\ q[3] = c
  BY <1>2
<1>5. Paired(q)
  BY <1>1, <1>3, <1>4 DEF Paired
<1>6. Some(q, AnswerEvents) /\ ~Some(q, {"switched"}) /\ ~Some(q, {"stopped", "refused"})
  BY <1>1, <1>3, <1>4 DEF Some, AnswerEvents
<1>7. Final(q, {"started"}, {"stopped", "refused"})
  <2>1. 2 \in 1..3 /\ \A j \in (2 + 1)..3 : q[j] = c
    BY <1>4
  <2> QED
    BY <1>1, <1>3, <1>4, <2>1 DEF Final
<1>8. Final(q, {"reconnected", "failed"}, {"reconnecting"})
  <2>1. 3 \in 1..3 /\ (3 + 1)..3 = {}
    OBVIOUS
  <2> QED
    BY <1>1, <1>3, <1>4, <2>1 DEF Final
<1>9. Final(q, {"reconnecting"}, {"switched"})
  <2>1. 1 \in 1..3 /\ \A j \in (1 + 1)..3 : q[j] = b \/ q[j] = c
    BY <1>4
  <2> QED
    BY <1>1, <1>3, <1>4, <2>1 DEF Final
<1> QED
  BY <1>1, <1>3, <1>5, <1>6, <1>7, <1>8, <1>9 DEF q

LEMMA LostIs ==
    /\ Lost \in Seq(Messages) /\ Lost # <<>>
    /\ Head(Lost).event = "reconnecting" /\ Paired(Lost)
    /\ Some(Lost, AnswerEvents) /\ ~Some(Lost, {"switched"})
    /\ Final(Lost, DownEvents, UpEvents)
    /\ Final(Lost, {"reconnected", "failed"}, {"reconnecting"})
    /\ Final(Lost, {"reconnecting"}, {"switched"})
<1> DEFINE q == Lost
           a == Message("reconnecting", NoLink)
           b == Message("failed", NoLink)
<1>1. /\ a \in Messages /\ b \in Messages
      /\ a.event = "reconnecting" /\ b.event = "failed"
  BY MessageIs DEF DogStatus
<1>2. q = <<a, b>>
  BY DEF Lost
<1> HIDE DEF a, b, q
<1>3. q \in Seq(Messages) /\ q # <<>> /\ Len(q) = 2 /\ Head(q) = a
  BY <1>1, <1>2
<1>4. q[1] = a /\ q[2] = b
  BY <1>2
<1>5. Paired(q)
  BY <1>1, <1>3, <1>4 DEF Paired
<1>6. Some(q, AnswerEvents) /\ ~Some(q, {"switched"})
  BY <1>1, <1>3, <1>4 DEF Some, AnswerEvents
<1>7. \A events, others : b.event \in events => Final(q, events, others)
  <2>1. 2 \in 1..2 /\ (2 + 1)..2 = {}
    OBVIOUS
  <2> QED
    BY <1>3, <1>4, <2>1 DEF Final
<1>8. Final(q, {"reconnecting"}, {"switched"})
  <2>1. 1 \in 1..2 /\ \A j \in (1 + 1)..2 : q[j] = b
    BY <1>4
  <2> QED
    BY <1>1, <1>3, <1>4, <2>1 DEF Final
<1>9. Final(q, DownEvents, UpEvents) /\ Final(q, {"reconnected", "failed"}, {"reconnecting"})
  BY <1>1, <1>7 DEF DownEvents
<1> QED
  BY <1>1, <1>3, <1>5, <1>6, <1>8, <1>9 DEF q

(* What a trip of the watchdog emits, after a switch or without one.       *)
LEMMA TripTells ==
    ASSUME NEW first, FirstFor(first), NEW rest \in Seq(Messages), rest # <<>>,
           Head(rest).event = "reconnecting", Paired(rest)
    PROVE  /\ first \o rest \in Seq(Messages) /\ first \o rest # <<>> /\ Paired(first \o rest)
           /\ Head(first \o rest).event # "reconnected"
           /\ \A events : Some(rest, events) => Some(first \o rest, events)
           /\ ~Some(rest, {"stopped", "refused"}) => ~Some(first \o rest, {"stopped", "refused"})
           /\ \A events, others :
                Final(rest, events, others) => Final(first \o rest, events, others)
<1>1. CASE first = <<>>
  <2>1. first \o rest = rest
    BY <1>1, ConcatEmptySeq
  <2> QED
    BY <2>1
<1>2. CASE \E alt \in Links : first = <<Message("switched", alt)>>
  <2>1. PICK x \in Messages : first = <<x>> /\ x.event = "switched"
    BY <1>2, MessageIs
  <2>2. /\ first \in Seq(Messages) /\ first # <<>> /\ Head(first) = x /\ Paired(first)
        /\ \A events : Some(first, events) <=> x.event \in events
    BY <2>1, OneMessage
  <2> QED
    BY <2>1, <2>2, LongerQueue
<1> QED
  BY <1>1, <1>2 DEF FirstFor

(***************************************************************************)
(* Types.                                                                  *)
(***************************************************************************)
LEMMA HistoryTyped ==
    ASSUME TypeOK, NEW entry \in Entries
    PROVE  SaveHistory(entry) \in Seq(Entries) /\ Len(SaveHistory(entry)) <= MaxHistory
<1> DEFINE longer == <<entry>> \o historyCache
<1>1. PICK n \in Nat : n = Len(longer)
  BY LenProperties, ConcatProperties DEF TypeOK
<1>2. longer \in Seq(Entries)
  BY ConcatProperties DEF TypeOK
<1> DEFINE k == IF n > MaxHistory THEN MaxHistory ELSE n
<1>3. k \in Nat /\ k <= n /\ k <= MaxHistory
  BY WindowAssumption, <1>1
<1>4. SaveHistory(entry) = SubSeq(longer, 1, k)
  BY <1>1 DEF SaveHistory
<1> HIDE DEF longer, k
<1>5. \A i \in 1..k : longer[i] \in Entries
  BY <1>1, <1>2, <1>3, ElementOfSeq
<1>6. /\ SubSeq(longer, 1, k) \in Seq(Entries)
      /\ Len(SubSeq(longer, 1, k)) = IF 1 <= k THEN k - 1 + 1 ELSE 0
  BY <1>3, <1>5, SubSeqProperties
<1> QED
  BY WindowAssumption, <1>3, <1>4, <1>6

LEMMA RecordingTyped ==
    ASSUME TypeOK, finishSessionHistory(page), page.session # NoSession => page.session.id # 0
    PROVE  recording' \subseteq Entries
<1>1. page.session # NoSession => Entry(page) \in Entries
  BY DEF TypeOK, Pages, Sessions, Entry, Entries
<1> QED
  BY <1>1 DEF finishSessionHistory, Finished, TypeOK

(* Only a page that times no session names none.                           *)
Timed == page.session.id = 0 => page.session = NoSession

LEMMA LongerTyped ==
    ASSUME TypeOK, NEW m \in Seq(Messages) PROVE inbox \o m \in Seq(Messages)
BY ConcatProperties DEF TypeOK

LEMMA RebuiltTells ==
    ASSUME TypeOK, Rebuilds
    PROVE  \E m \in Seq(Messages) : inbox' = inbox \o m
<1>1. PICK first : /\ FirstFor(first)
                   /\ \/ inbox' = inbox \o (first \o Back(dog'))
                      \/ inbox' = inbox \o (first \o Lost)
  BY DEF Rebuilds
<1>2. first \o Back(dog') \in Seq(Messages)
  <2>1. dog' \in Links
    BY DEF Rebuilds
  <2> QED
    BY <1>1, <2>1, BackIs, TripTells
<1>3. first \o Lost \in Seq(Messages)
  BY <1>1, LostIs, TripTells
<1> QED
  BY <1>1, <1>2, <1>3

LEMMA TypeStep == ASSUME TypeOK, Timed, [Next]_vars PROVE TypeOK' /\ Timed'
<1>1. CASE User
  <2>1. Asks \/ Leaves \/ Chooses \/ Redraws \/ Clears \/ Reloads
    BY <1>1, UserSteps
  <2>2. CASE Asks
    BY <2>2 DEF Asks, TypeOK, Timed, Clicked, Keeps
  <2>3. CASE Leaves
    <3>1. recording' \subseteq Entries
      BY <2>3, RecordingTyped DEF Leaves, Timed
    <3>2. calls' \subseteq Calls /\ Timed'
      BY <2>3 DEF Leaves, TypeOK, Timed
    <3> QED
      BY <2>3, <3>1, <3>2 DEF Leaves, TypeOK, Clicked, Keeps
  <2>4. CASE Chooses
    BY <2>4 DEF Chooses, TypeOK, Timed, Clicked, Keeps
  <2>5. CASE Redraws
    BY <2>5 DEF Redraws, TypeOK, Timed, Clicked, Keeps
  <2>6. CASE Clears
    <3>1. historyCache' \in Seq(Entries) /\ Len(historyCache') <= MaxHistory
      BY <2>6, EmptySeq, WindowAssumption DEF Clears
    <3> QED
      BY <2>6, <3>1 DEF Clears, TypeOK, Timed, Clicked
  <2>7. CASE Reloads
    <3>1. calls' \subseteq Calls
      BY <2>7 DEF Reloads, TypeOK
    <3>2. recording' \subseteq Entries /\ Timed' /\ astray' \in BOOLEAN
      BY <2>7 DEF Reloads, Timed, TypeOK
    <3> QED
      BY <2>7, <3>1, <3>2 DEF Reloads, TypeOK, Clicked, Keeps
  <2> QED
    BY <2>1, <2>2, <2>3, <2>4, <2>5, <2>6, <2>7
<1>2. CASE Handlers
  <2>1. PICK event : Deliver(event)
    BY <1>2 DEF Handlers, OnStarted, OnStopped, OnRefused, OnWatchdogSwitched, OnWatchdogStatus
  <2>2. inbox' \in Seq(Messages)
    BY <2>1, HeadIs
  <2>3. UNCHANGED <<calls, core, dog, trips, astray, best, historyCache, clicks, relabelled>>
    BY <2>1 DEF Deliver
  <2>4. Heard
    BY <1>2, PageSteps
  <2>5. page' \in Pages /\ tracked' \in Nat /\ Timed'
    <3>1. CASE Falls \/ Overhears \/ Gives
      BY <3>1 DEF Falls, Overhears, Gives, TypeOK, Timed
    <3>2. CASE Arrives \/ Follows
      <4>1. /\ page' \in Pages /\ tracked \in Nat
            /\ tracked' = tracked + 1 /\ page'.session.id = tracked + 1
        BY <3>2 DEF Arrives, Follows, TypeOK
      <4> QED
        BY <4>1 DEF Timed
    <3>3. CASE Passes
      BY <3>3 DEF Passes, TypeOK, Timed
    <3>4. CASE \E e \in DogStatus \cup {"reconnected"} : Tells(e)
      BY <3>4 DEF Tells, TypeOK, Timed
    <3> QED
      BY <2>4, <3>1, <3>2, <3>3, <3>4 DEF Heard
  <2>6. recording' \subseteq Entries
    <3>1. CASE finishSessionHistory(page)
      BY <3>1, RecordingTyped DEF Timed
    <3>2. CASE UNCHANGED recording
      BY <3>2 DEF TypeOK
    <3> QED
      BY <2>4, <3>1, <3>2
         DEF Heard, Arrives, Passes, Falls, Overhears, Gives, Follows, Tells, NoRecord
  <2> QED
    BY <2>2, <2>3, <2>5, <2>6 DEF TypeOK
<1>3. CASE WriteRecord
  <2>1. PICK entry \in recording : /\ historyCache' = SaveHistory(entry)
                                   /\ recording' = recording \ {entry}
                                   /\ UNCHANGED <<page, best, goVars, clicks, tracked, relabelled>>
    BY <1>3 DEF WriteRecord
  <2>2. historyCache' \in Seq(Entries) /\ Len(historyCache') <= MaxHistory
    BY <2>1, HistoryTyped DEF TypeOK
  <2> QED
    BY <2>1, <2>2 DEF TypeOK, Timed, goVars
<1>4. CASE GoSteps
  <2>1. PICK c \in calls : Started(c) \/ (Downed /\ Downs(c))
    BY <1>4, GoIs
  <2>2. UNCHANGED trips /\ PageIdle
    BY <2>1 DEF Started, Downed
  <2>3. calls' \subseteq Calls
    <3>1. [c EXCEPT !.kind = "start"] \in Calls \/ c.kind # "restart"
      BY DEF TypeOK, Calls
    <3> QED
      BY <2>1, <3>1 DEF Started, Downs, TypeOK
  <2>4. core' \in MaybeLink /\ dog' \in MaybeLink /\ astray' \in BOOLEAN
    BY <2>1 DEF Started, Comes, Declined, Downed, TypeOK, MaybeLink
  <2>5. inbox' \in Seq(Messages)
    <3>1. \E x \in Messages : inbox' = inbox \o <<x>>
      BY <2>1, MessageIs DEF Started, Comes, Declined, Downed
    <3> QED
      BY <3>1, OneMessage, LongerTyped
  <2> QED
    BY <2>2, <2>3, <2>4, <2>5 DEF TypeOK, Timed, PageIdle
<1>5. CASE WatchdogRestarts \/ WatchdogSwitches \/ WatchdogWaits
  <2>1. Rebuilds \/ Waits
    BY <1>5, DogSteps
  <2>2. CASE Rebuilds
    <3>1. inbox' \in Seq(Messages)
      BY <2>2, RebuiltTells, LongerTyped
    <3>2. core' \in MaybeLink /\ dog' \in MaybeLink
      BY <2>2 DEF Rebuilds, MaybeLink
    <3>3. trips' \in 0..MaxTrips /\ UNCHANGED <<calls, astray>> /\ PageIdle
      BY <2>2 DEF Rebuilds
    <3> QED
      BY <3>1, <3>2, <3>3 DEF TypeOK, Timed, PageIdle
  <2>3. CASE Waits
    <3>1. PICK event \in {"waiting", "serverDead"} : inbox' = inbox \o <<Message(event, NoLink)>>
      BY <2>3 DEF Waits
    <3>2. Message(event, NoLink) \in Messages
      BY MessageIs DEF DogStatus
    <3>3. inbox' \in Seq(Messages)
      BY <3>1, <3>2, OneMessage, LongerTyped
    <3>4. trips' \in 0..MaxTrips /\ UNCHANGED <<calls, core, dog, astray>> /\ PageIdle
      BY <2>3 DEF Waits
    <3> QED
      BY <3>3, <3>4 DEF TypeOK, Timed, PageIdle
  <2> QED
    BY <2>1, <2>2, <2>3
<1>6. CASE UNCHANGED vars
  BY <1>6 DEF vars, goVars, TypeOK, Timed
<1> QED
  BY <1>1, <1>2, <1>3, <1>4, <1>5, <1>6 DEF Next, User

LEMMA InitTyped == ASSUME Init PROVE TypeOK /\ Timed
<1>1. page \in Pages /\ page.session = NoSession
  BY NoSessionIs DEF Init, Pages
<1>2. inbox \in Seq(Messages) /\ historyCache \in Seq(Entries) /\ Len(historyCache) <= MaxHistory
  BY EmptySeq, WindowAssumption DEF Init
<1>3. /\ best \in MaybeLink /\ core \in MaybeLink /\ dog \in MaybeLink
      /\ recording \subseteq Entries /\ calls \subseteq Calls
      /\ astray \in BOOLEAN /\ relabelled \in BOOLEAN
  BY DEF Init, MaybeLink
<1>4. clicks \in 0..MaxClicks /\ trips \in 0..MaxTrips /\ tracked \in Nat
  BY WindowAssumption DEF Init
<1> QED
  BY <1>1, <1>2, <1>3, <1>4 DEF TypeOK, Timed

(* Every reachable state of the window, of its calls and of its queue is   *)
(* well typed, for any servers, clicks, trips and length of the history: a *)
(* start, a restart, a started, a refusal and a switch name a server, and  *)
(* no other call or message does.                                          *)
THEOREM TypeCorrect == Spec => []TypeOK
<1>1. Init => TypeOK /\ Timed
  BY InitTyped
<1>2. TypeOK /\ Timed /\ [Next]_vars => (TypeOK /\ Timed)'
  BY TypeStep
<1> QED
  BY <1>1, <1>2, PTL DEF Spec

(***************************************************************************)
(* RecordedOnce: a record, written or waiting for its totals, has the name *)
(* of a session that is over, and no other record has it.                  *)
(***************************************************************************)
RecordInv ==
    /\ page.session.id <= tracked
    /\ \A e \in recording : e.id <= tracked /\ e.id # page.session.id
    /\ \A e, f \in recording : e.id = f.id => e = f
    /\ \A i \in DOMAIN historyCache :
         /\ historyCache[i].id <= tracked /\ historyCache[i].id # page.session.id
         /\ \A e \in recording : e.id # historyCache[i].id
    /\ \A i, j \in DOMAIN historyCache : historyCache[i].id = historyCache[j].id => i = j

LEMMA Numbered ==
    ASSUME TypeOK
    PROVE  /\ tracked \in Nat /\ page.session.id \in Nat
           /\ \A e \in recording : e.id \in Nat \ {0}
           /\ \A i \in DOMAIN historyCache :
                historyCache[i] \in Entries /\ historyCache[i].id \in Nat \ {0}
<1>1. \A i \in DOMAIN historyCache : historyCache[i] \in Entries
  BY LenProperties, ElementOfSeq DEF TypeOK
<1> QED
  BY <1>1 DEF TypeOK, Pages, Sessions, Entries

(* The new record comes first, the ones that fit follow in their order.    *)
LEMMA Saved ==
    ASSUME TypeOK, NEW entry \in Entries
    PROVE  \A i \in DOMAIN SaveHistory(entry) :
             \/ i = 1 /\ SaveHistory(entry)[i] = entry
             \/ i # 1 /\ i \in Nat /\ i - 1 \in DOMAIN historyCache
                /\ SaveHistory(entry)[i] = historyCache[i - 1]
<1> DEFINE longer == <<entry>> \o historyCache
<1>1. PICK n \in Nat : n = Len(historyCache) /\ DOMAIN historyCache = 1..n
  BY LenProperties DEF TypeOK
<1>2. /\ longer \in Seq(Entries) /\ Len(longer) = n + 1
      /\ longer[1] = entry /\ \A i \in 2..(n + 1) : longer[i] = historyCache[i - 1]
  <2>1. historyCache \in Seq(Entries) /\ <<entry>> \in Seq(Entries) /\ Len(<<entry>>) = 1
    BY DEF TypeOK
  <2>2. \A i \in 1..(1 + n) : longer[i] = IF i <= 1 THEN <<entry>>[i] ELSE historyCache[i - 1]
    BY <1>1, <2>1, ConcatProperties
  <2>3. longer \in Seq(Entries) /\ Len(longer) = n + 1
    BY <1>1, <2>1, ConcatProperties
  <2>4. longer[1] = entry
    BY <1>1, <2>2
  <2> HIDE DEF longer
  <2>5. \A i \in 2..(n + 1) : longer[i] = historyCache[i - 1]
    BY <1>1, <2>2
  <2> QED
    BY <2>3, <2>4, <2>5
<1> DEFINE k == IF n + 1 > MaxHistory THEN MaxHistory ELSE n + 1
<1>3. k \in Nat /\ k <= n + 1
  BY WindowAssumption, <1>1
<1>4. SaveHistory(entry) = SubSeq(longer, 1, k)
  BY <1>2 DEF SaveHistory
<1> HIDE DEF longer, k
<1> DEFINE s == SubSeq(longer, 1, k)
<1>5. \A i \in 1..k : longer[i] \in Entries
  BY <1>2, <1>3, ElementOfSeq
<1>6. /\ s \in Seq(Entries) /\ Len(s) = IF 1 <= k THEN k - 1 + 1 ELSE 0
      /\ \A i \in 1..(k - 1 + 1) : s[i] = longer[1 + i - 1]
  BY <1>3, <1>5, SubSeqProperties
<1>7. DOMAIN s = 1..k
  BY <1>3, <1>6, LenProperties
<1> HIDE DEF s
<1>8. \A i \in 1..k : s[i] = longer[i]
  BY <1>3, <1>6
<1>9. ASSUME NEW i \in 1..k
      PROVE  \/ i = 1 /\ s[i] = entry
             \/ i # 1 /\ i \in Nat /\ i - 1 \in 1..n /\ s[i] = historyCache[i - 1]
  <2>1. CASE i = 1
    BY <1>2, <1>8, <2>1
  <2>2. CASE i # 1
    <3>1. i \in 2..(n + 1) /\ i - 1 \in 1..n
      BY <1>1, <1>3, <1>9, <2>2
    <3> QED
      BY <1>2, <1>8, <2>2, <3>1
  <2> QED
    BY <2>1, <2>2
<1> QED
  BY <1>1, <1>4, <1>7, <1>9 DEF s

(* A session that ends leaves its record behind once.                      *)
LEMMA EndsRecorded ==
    ASSUME TypeOK, Timed, RecordInv, finishSessionHistory(page), UNCHANGED historyCache,
           tracked' \in Nat, tracked' >= tracked, page'.session.id <= tracked',
           page'.session.id = 0 \/ page'.session.id > tracked
    PROVE  RecordInv'
<1>1. PICK new \in Finished(page) : recording' = recording \cup new
  BY DEF finishSessionHistory
<1>2. \A e \in new : e = Entry(page) /\ e.id = page.session.id /\ e.id \in Nat \ {0}
  BY Numbered DEF Finished, Entry, Timed
<1>4. \A e \in recording' : e.id \in Nat \ {0} /\ e.id <= tracked
  BY <1>1, <1>2, Numbered DEF RecordInv
<1>5. \A e \in recording' : e.id <= tracked' /\ e.id # page'.session.id
  BY <1>4, Numbered
<1>6. \A e, f \in recording' : e.id = f.id => e = f
  BY <1>1, <1>2 DEF RecordInv
<1>7. \A i \in DOMAIN historyCache :
         /\ historyCache[i].id <= tracked' /\ historyCache[i].id # page'.session.id
  BY Numbered DEF RecordInv
<1>8. \A i \in DOMAIN historyCache : \A e \in recording' : e.id # historyCache[i].id
  BY <1>1, <1>2 DEF RecordInv
<1> QED
  BY <1>5, <1>6, <1>7, <1>8 DEF RecordInv

(* A step that writes no record and times at most a session of a new name. *)
LEMMA RestKept ==
    ASSUME TypeOK, RecordInv, UNCHANGED <<recording, historyCache>>,
           tracked' \in Nat, tracked' >= tracked, page'.session.id <= tracked',
           page'.session.id \in {0, page.session.id} \/ page'.session.id > tracked
    PROVE  RecordInv'
<1>1. \A e \in recording : e.id <= tracked' /\ e.id # page'.session.id
  BY Numbered DEF RecordInv
<1>2. \A i \in DOMAIN historyCache :
         historyCache[i].id <= tracked' /\ historyCache[i].id # page'.session.id
  BY Numbered DEF RecordInv
<1> QED
  BY <1>1, <1>2 DEF RecordInv

LEMMA RecordStep == ASSUME TypeOK, Timed, RecordInv, [Next]_vars PROVE RecordInv'
<1>0. /\ tracked \in Nat /\ page.session.id \in Nat /\ page.session.id <= tracked
      /\ NoSession.id = 0 /\ tracked + 1 \in Nat /\ tracked + 1 > tracked
  BY Numbered, NoSessionIs DEF RecordInv
<1>1. CASE User
  <2>1. Asks \/ Leaves \/ Chooses \/ Redraws \/ Clears \/ Reloads
    BY <1>1, UserSteps
  <2>2. CASE Asks \/ Chooses \/ Redraws
    BY <1>0, <2>2, RestKept DEF Asks, Chooses, Redraws, Keeps
  <2>3. CASE Leaves
    BY <1>0, <2>3, EndsRecorded DEF Leaves, Keeps
  <2>4. CASE Clears
    <3>1. DOMAIN historyCache' = {}
      BY <2>4 DEF Clears
    <3> QED
      BY <2>4, <3>1 DEF Clears, RecordInv
  <2>5. CASE Reloads
    <3>1. page'.session.id = 0 /\ UNCHANGED <<historyCache, tracked>> /\ recording' = {}
      BY <1>0, <2>5 DEF Reloads, Keeps
    <3>2. \A i \in DOMAIN historyCache : historyCache[i].id # 0
      BY Numbered
    <3> QED
      BY <1>0, <3>1, <3>2 DEF RecordInv
  <2> QED
    BY <2>1, <2>2, <2>3, <2>4, <2>5
<1>2. CASE Handlers
  <2>1. UNCHANGED historyCache
    BY <1>2 DEF Handlers, OnStarted, OnStopped, OnRefused, OnWatchdogSwitched, OnWatchdogStatus,
                Deliver
  <2>2. Heard
    BY <1>2, PageSteps
  <2>3. CASE Arrives
    BY <1>0, <2>1, <2>3, RestKept DEF Arrives, NoRecord
  <2>4. CASE Passes \/ Overhears \/ Gives
    BY <1>0, <2>1, <2>4, RestKept DEF Passes, Overhears, Gives, NoRecord
  <2>5. CASE Falls \/ Follows
    BY <1>0, <2>1, <2>5, EndsRecorded DEF Falls, Follows
  <2>6. CASE \E event \in DogStatus \cup {"reconnected"} : Tells(event)
    BY <1>0, <2>1, <2>6, RestKept DEF Tells, NoRecord
  <2> QED
    BY <2>2, <2>3, <2>4, <2>5, <2>6 DEF Heard
<1>3. CASE WriteRecord
  <2>1. PICK entry \in recording : /\ historyCache' = SaveHistory(entry)
                                   /\ recording' = recording \ {entry}
                                   /\ UNCHANGED <<page, best, goVars, clicks, tracked, relabelled>>
    BY <1>3 DEF WriteRecord
  <2>2. \A i \in DOMAIN historyCache' :
             \/ i = 1 /\ historyCache'[i] = entry
             \/ i # 1 /\ i \in Nat /\ i - 1 \in DOMAIN historyCache
                /\ historyCache'[i] = historyCache[i - 1]
    BY <2>1, Saved DEF TypeOK
  <2>3. \A e \in recording' : e \in recording /\ e.id # entry.id
    BY <2>1 DEF RecordInv
  <2>4. entry.id <= tracked /\ entry.id # page.session.id
    BY <2>1 DEF RecordInv
  <2>5. ASSUME NEW i \in DOMAIN historyCache'
        PROVE  /\ historyCache'[i].id <= tracked /\ historyCache'[i].id # page.session.id
               /\ \A e \in recording' : e.id # historyCache'[i].id
    BY <2>2, <2>3, <2>4, <2>5 DEF RecordInv
  <2>6. ASSUME NEW i \in DOMAIN historyCache', NEW j \in DOMAIN historyCache',
               historyCache'[i].id = historyCache'[j].id
        PROVE  i = j
    <3>1. CASE i = 1 /\ j = 1
      BY <3>1
    <3>2. CASE (i = 1 /\ j # 1) \/ (i # 1 /\ j = 1)
      BY <2>1, <2>2, <2>6, <3>2 DEF RecordInv
    <3>3. CASE i # 1 /\ j # 1
      <4>1. /\ i \in Nat /\ i - 1 \in DOMAIN historyCache
            /\ j \in Nat /\ j - 1 \in DOMAIN historyCache
            /\ historyCache[i - 1].id = historyCache[j - 1].id
        BY <2>2, <2>6, <3>3
      <4>2. i - 1 = j - 1
        BY <4>1 DEF RecordInv
      <4> QED
        BY <4>1, <4>2
    <3> QED
      BY <3>1, <3>2, <3>3
  <2> QED
    BY <2>1, <2>3, <2>5, <2>6 DEF RecordInv
<1>4. CASE PageIdle
  BY <1>4 DEF PageIdle, RecordInv
<1>5. CASE UNCHANGED vars
  BY <1>5 DEF vars, goVars, RecordInv
<1>6. ASSUME GoSteps \/ WatchdogRestarts \/ WatchdogSwitches \/ WatchdogWaits PROVE PageIdle
  BY <1>6 DEF GoSteps, StartXray, RestartXray, StopXray, WatchdogRestarts, WatchdogSwitches,
              WatchdogWaits
<1> QED
  BY <1>1, <1>2, <1>3, <1>4, <1>5, <1>6 DEF Next, User

(* No session is written to the history twice, however its ends meet and   *)
(* however long its totals take, for any servers, clicks and trips.        *)
THEOREM RecordCorrect == Spec => []RecordedOnce
<1>1. Init => TypeOK /\ Timed /\ RecordInv
  <2> SUFFICES ASSUME Init PROVE TypeOK /\ Timed /\ RecordInv
    OBVIOUS
  <2>1. page.session.id = 0 /\ tracked = 0 /\ recording = {}
    BY NoSessionIs DEF Init
  <2>2. DOMAIN historyCache = {}
    BY DEF Init
  <2> QED
    BY <2>1, <2>2, InitTyped DEF RecordInv
<1>2. TypeOK /\ Timed /\ RecordInv /\ [Next]_vars => (TypeOK /\ Timed /\ RecordInv)'
  BY TypeStep, RecordStep
<1>3. RecordInv => RecordedOnce
  BY DEF RecordInv, RecordedOnce
<1> QED
  BY <1>1, <1>2, <1>3, PTL DEF Spec

(***************************************************************************)
(* AgreesAtRest and RestartFlagIsLive: what is still on its way to the     *)
(* page puts right what it says now.                                       *)
(***************************************************************************)
Stopping == \E c \in calls : c.kind = "stop"
Starting == \E c \in calls : c.kind \in {"start", "restart"}
HeadSays(event) == inbox # <<>> /\ Head(inbox).event = event

(* A page that is connecting is owed an answer, and what its status line   *)
(* says of the button is what the button shows.                            *)
PageInv ==
    /\ page.state = "connecting" => Starting \/ Some(inbox, {"started", "refused"})
    /\ page.isRestarting => page.state = "connecting"
    /\ page.status \in {"off", "connecting"} => page.state = page.status

(* Where no watchdog is left the page hears of it, unless it knows.        *)
GoneInv ==
    dog = NoLink =>
        /\ core = NoLink
        /\ \/ Final(inbox, {"stopped", "refused"}, {"started"})
           \/ ~Some(inbox, {"started"}) /\ page.state # "on"

(* Of a core that runs the page hears too, or is about to stop it.         *)
UpInv ==
    core # NoLink /\ ~astray =>
        \/ Final(inbox, {"started"}, {"stopped", "refused"})
        \/ ~Some(inbox, {"stopped", "refused"}) /\ (page.state # "off" \/ Stopping)

(* And of one that is down.                                                *)
DownInv ==
    core = NoLink /\ ~relabelled =>
        \/ Final(inbox, DownEvents, UpEvents)
        \/ ~Some(inbox, UpEvents) /\ ~(page.status = "on" /\ page.state = "on")

(* The messages of one trip stay in their order.                           *)
TripInv ==
    /\ page.status = "reconnecting" \/ Some(inbox, {"reconnecting"})
         => Final(inbox, {"reconnected", "failed"}, {"reconnecting"})
    /\ Some(inbox, {"switched"}) => Final(inbox, {"reconnecting"}, {"switched"})
    /\ Paired(inbox)

(* A line that says "connected" of a page that is not on will be written   *)
(* over.                                                                   *)
LineInv ==
    page.state # "on" /\ (page.status = "on" \/ HeadSays("reconnected"))
        => calls # {} \/ Some(inbox, AnswerEvents)

AnswerInv == PageInv /\ GoneInv /\ UpInv /\ DownInv /\ TripInv /\ LineInv

LEMMA PageIs ==
    ASSUME TypeOK
    PROVE  /\ page.state \in {"off", "connecting", "on"} /\ page.isRestarting \in BOOLEAN
           /\ page.status \in {"off", "connecting", "on"} \cup DogStatus
           /\ inbox \in Seq(Messages) /\ core \in MaybeLink /\ dog \in MaybeLink
BY DEF TypeOK, Pages

LEMMA UserAnswers ==
    ASSUME TypeOK, AnswerInv, Asks \/ Leaves \/ Chooses \/ Redraws \/ Clears \/ Reloads
    PROVE  AnswerInv'
<1>1. CASE Asks
  <2>1. PICK c \in Calls : c.kind # "stop" /\ calls' = calls \cup {c}
    BY <1>1 DEF Asks
  <2>2. /\ page'.state = "connecting" /\ page'.status = "connecting"
        /\ UNCHANGED <<inbox, core, dog, astray, relabelled>>
    BY <1>1 DEF Asks, Keeps
  <2>3. calls' # {} /\ Starting'
    BY <2>1 DEF Calls, Starting
  <2>4. PageInv'
    BY <2>2, <2>3 DEF PageInv
  <2>5. GoneInv' /\ UpInv' /\ DownInv'
    BY <2>2 DEF AnswerInv, GoneInv, UpInv, DownInv
  <2>6. TripInv'
    BY <2>2 DEF AnswerInv, TripInv
  <2>7. LineInv'
    BY <2>2, <2>3 DEF LineInv
  <2> QED
    BY <2>4, <2>5, <2>6, <2>7 DEF AnswerInv
<1>2. CASE Leaves
  <2>1. PICK c \in Calls : c.kind = "stop" /\ calls' = calls \cup {c}
    BY <1>2 DEF Leaves
  <2>2. /\ page'.state = "off" /\ page'.status = "off" /\ ~page'.isRestarting
        /\ UNCHANGED <<inbox, core, dog, astray, relabelled>>
    BY <1>2 DEF Leaves, Keeps
  <2>3. calls' # {} /\ Stopping'
    BY <2>1 DEF Stopping
  <2>4. PageInv'
    BY <2>2 DEF PageInv
  <2>5. GoneInv' /\ DownInv'
    BY <2>2 DEF AnswerInv, GoneInv, DownInv
  <2>6. UpInv'
    BY <2>2, <2>3 DEF AnswerInv, UpInv
  <2>7. TripInv'
    BY <2>2 DEF AnswerInv, TripInv
  <2>8. LineInv'
    BY <2>2, <2>3 DEF LineInv
  <2> QED
    BY <2>4, <2>5, <2>6, <2>7, <2>8 DEF AnswerInv
<1>3. CASE Chooses
  BY <1>3 DEF Chooses, Keeps, AnswerInv, PageInv, GoneInv, UpInv, DownInv, TripInv, LineInv,
              Starting, Stopping, HeadSays
<1>4. CASE Redraws
  <2>1. /\ page'.state = page.state /\ page'.status = page.state
        /\ (page'.isRestarting => page.isRestarting)
        /\ relabelled' = (relabelled \/ page.status \in DogStatus)
        /\ UNCHANGED <<calls, inbox, core, dog, astray>>
    BY <1>4 DEF Redraws, Keeps
  <2>2. PageInv'
    BY <2>1 DEF AnswerInv, PageInv, Starting
  <2>3. GoneInv' /\ UpInv'
    BY <2>1 DEF AnswerInv, GoneInv, UpInv, Stopping
  <2>4. page.state = "on" /\ ~relabelled' => page.status = "on"
    BY <2>1, PageIs DEF AnswerInv, PageInv
  <2>5. DownInv'
    BY <2>1, <2>4 DEF AnswerInv, DownInv
  <2>6. TripInv'
    BY <2>1, PageIs DEF AnswerInv, TripInv
  <2>7. LineInv'
    BY <2>1 DEF AnswerInv, LineInv, HeadSays
  <2> QED
    BY <2>2, <2>3, <2>5, <2>6, <2>7 DEF AnswerInv
<1>5. CASE Clears
  BY <1>5 DEF Clears, AnswerInv, PageInv, GoneInv, UpInv, DownInv, TripInv, LineInv,
              Starting, Stopping, HeadSays
<1>6. CASE Reloads
  <2>1. /\ inbox = <<>> /\ ~page'.isRestarting /\ astray' = (astray \/ core # NoLink)
        /\ UNCHANGED <<inbox, core, dog, relabelled>>
        /\ \/ page'.state = "off" /\ page'.status = "off"
           \/ page'.state = "connecting" /\ page'.status = "connecting" /\ Starting'
    <3>1. \A c \in Calls : c.kind # "stop" => c.kind \in {"start", "restart"}
      BY DEF Calls
    <3> QED
      BY <1>6, <3>1 DEF Reloads, Keeps, Starting
  <2>2. \A events : ~Some(inbox, events)
    BY <2>1 DEF Some
  <2>3. PageInv'
    BY <2>1 DEF PageInv
  <2>4. GoneInv' /\ UpInv' /\ DownInv'
    BY <2>1, <2>2 DEF AnswerInv, GoneInv, UpInv, DownInv
  <2>5. TripInv'
    BY <2>1, <2>2 DEF AnswerInv, TripInv
  <2>6. LineInv'
    BY <2>1 DEF LineInv, HeadSays
  <2> QED
    BY <2>3, <2>4, <2>5, <2>6 DEF AnswerInv
<1> QED
  BY <1>1, <1>2, <1>3, <1>4, <1>5, <1>6

(* A message read: what was said of the queue holds of the rest, or it was *)
(* this message that it was said of.                                       *)
LEMMA Taken ==
    ASSUME TypeOK, NEW event, Deliver(event)
    PROVE  /\ \A events : Some(inbox, events) <=> (event \in events \/ Some(inbox', events))
           /\ \A events, others : Final(inbox, events, others)
                => Final(inbox', events, others) \/ (event \in events /\ ~Some(inbox', others))
           /\ Paired(inbox) => Paired(inbox')
           /\ Paired(inbox) /\ HeadSays("reconnected")' => event = "started"
           /\ UNCHANGED <<calls, core, dog, astray, relabelled>>
<1>1. /\ inbox # <<>> /\ Head(inbox).event = event /\ inbox' = Tail(inbox)
      /\ inbox \in Seq(Messages)
  BY HeadIs DEF TypeOK
<1>2. UNCHANGED <<calls, core, dog, astray, relabelled>>
  BY DEF Deliver
<1> QED
  BY <1>1, <1>2, TailQueue DEF HeadSays

LEMMA TripRead ==
    ASSUME TypeOK, TripInv, NEW event, Deliver(event),
           page'.status = "reconnecting" => page.status = "reconnecting" \/ event = "reconnecting",
           event \in {"reconnected", "failed"} => page'.status # "reconnecting"
    PROVE  TripInv'
<1>1. Paired(inbox')
  BY Taken DEF TripInv
<1>2. ASSUME Some(inbox', {"switched"}) PROVE Final(inbox', {"reconnecting"}, {"switched"})
  BY <1>2, Taken DEF TripInv
<1>3. ASSUME page'.status = "reconnecting" \/ Some(inbox', {"reconnecting"})
      PROVE  Final(inbox', {"reconnected", "failed"}, {"reconnecting"})
  <2>1. page.status = "reconnecting" \/ Some(inbox, {"reconnecting"})
    BY <1>3, Taken
  <2>2. Final(inbox, {"reconnected", "failed"}, {"reconnecting"})
    BY <2>1 DEF TripInv
  <2> QED
    BY <1>3, <2>2, Taken
<1> QED
  BY <1>1, <1>2, <1>3 DEF TripInv

(* The page is off from here on.                                           *)
LEMMA OffAnswers ==
    ASSUME TypeOK, AnswerInv, NEW event \in {"stopped", "refused"}, Deliver(event),
           page'.state = "off", page'.status = "off", ~page'.isRestarting
    PROVE  AnswerInv'
<1>1. UNCHANGED <<calls, core, dog, astray, relabelled>>
  BY Taken
<1>2. PageInv'
  BY DEF PageInv
<1>3. GoneInv'
  <2>1. ASSUME dog = NoLink
        PROVE  Final(inbox', {"stopped", "refused"}, {"started"}) \/ ~Some(inbox', {"started"})
    BY <2>1, Taken DEF AnswerInv, GoneInv
  <2> QED
    BY <1>1, <2>1 DEF AnswerInv, GoneInv
<1>4. UpInv'
  <2>1. ASSUME core # NoLink, ~astray PROVE Final(inbox', {"started"}, {"stopped", "refused"})
    <3>1. Some(inbox, {"stopped", "refused"})
      BY Taken
    <3>2. Final(inbox, {"started"}, {"stopped", "refused"})
      BY <2>1, <3>1 DEF AnswerInv, UpInv
    <3> QED
      BY <3>2, Taken
  <2> QED
    BY <1>1, <2>1 DEF UpInv
<1>5. DownInv'
  <2>1. ASSUME core = NoLink, ~relabelled
        PROVE  Final(inbox', DownEvents, UpEvents) \/ ~Some(inbox', UpEvents)
    BY <2>1, Taken DEF AnswerInv, DownInv
  <2> QED
    BY <1>1, <2>1 DEF DownInv
<1>6. TripInv'
  BY TripRead DEF AnswerInv
<1>7. LineInv'
  BY Taken DEF AnswerInv, TripInv, LineInv
<1> QED
  BY <1>2, <1>3, <1>4, <1>5, <1>6, <1>7 DEF AnswerInv

(* The page stays as it is, or is told of the watchdog.                    *)
LEMMA ToldAnswers ==
    ASSUME TypeOK, AnswerInv, NEW event \in {"switched", "reconnected"} \cup DogStatus,
           Deliver(event), page'.state = page.state, page'.isRestarting = page.isRestarting,
           page'.status = IF event \in {"switched", "reconnected"} THEN "on" ELSE event
    PROVE  AnswerInv'
<1>1. UNCHANGED <<calls, core, dog, astray, relabelled>>
  BY Taken
<1>2. event \notin {"started", "stopped", "refused", "on", "off", "connecting"}
  BY DEF DogStatus
<1>3. PageInv'
  <2>1. Starting' = Starting
    BY <1>1 DEF Starting
  <2>2. Some(inbox, {"started", "refused"}) <=> Some(inbox', {"started", "refused"})
    BY <1>2, Taken
  <2>3. page'.status \notin {"off", "connecting"}
    BY <1>2
  <2> QED
    BY <2>1, <2>2, <2>3 DEF AnswerInv, PageInv
<1>4. GoneInv'
  <2>1. Some(inbox', {"started"}) => Some(inbox, {"started"})
    BY Taken
  <2>2. Final(inbox, {"stopped", "refused"}, {"started"})
          => Final(inbox', {"stopped", "refused"}, {"started"})
    BY <1>2, Taken
  <2> QED
    BY <1>1, <2>1, <2>2 DEF AnswerInv, GoneInv
<1>5. UpInv'
  <2>1. Some(inbox', {"stopped", "refused"}) => Some(inbox, {"stopped", "refused"})
    BY Taken
  <2>2. Final(inbox, {"started"}, {"stopped", "refused"})
          => Final(inbox', {"started"}, {"stopped", "refused"})
    BY <1>2, Taken
  <2>3. Stopping' = Stopping
    BY <1>1 DEF Stopping
  <2> QED
    BY <1>1, <2>1, <2>2, <2>3 DEF AnswerInv, UpInv
<1>6. DownInv'
  <2>1. ASSUME core = NoLink, ~relabelled
        PROVE  \/ Final(inbox', DownEvents, UpEvents)
               \/ ~Some(inbox', UpEvents) /\ ~(page'.status = "on" /\ page'.state = "on")
    <3>1. CASE Final(inbox, DownEvents, UpEvents)
      <4>1. CASE Final(inbox', DownEvents, UpEvents)
        BY <4>1
      <4>2. CASE event \in DownEvents /\ ~Some(inbox', UpEvents)
        BY <4>2 DEF DownEvents
      <4> QED
        BY <3>1, <4>1, <4>2, Taken
    <3>2. CASE ~Some(inbox, UpEvents) /\ ~(page.status = "on" /\ page.state = "on")
      <4>1. event \notin UpEvents /\ ~Some(inbox', UpEvents)
        BY <3>2, Taken
      <4>2. page'.status # "on"
        BY <1>2, <4>1 DEF UpEvents
      <4> QED
        BY <4>1, <4>2
    <3> QED
      BY <2>1, <3>1, <3>2 DEF AnswerInv, DownInv
  <2> QED
    BY <1>1, <2>1 DEF DownInv
<1>7. TripInv'
  BY TripRead DEF AnswerInv
<1>8. LineInv'
  <2>1. ~HeadSays("reconnected")'
    BY <1>2, Taken DEF AnswerInv, TripInv
  <2>2. ASSUME page.state # "on", event = "switched" PROVE Some(inbox', AnswerEvents)
    <3>1. Some(inbox, {"switched"})
      BY <2>2, Taken
    <3>2. Final(inbox, {"reconnecting"}, {"switched"})
      BY <3>1 DEF AnswerInv, TripInv
    <3>3. Final(inbox', {"reconnecting"}, {"switched"})
      BY <2>2, <3>2, Taken
    <3> QED
      BY <3>3 DEF Final, Some, AnswerEvents
  <2>3. ASSUME page.state # "on", event = "reconnected"
        PROVE  calls # {} \/ Some(inbox', AnswerEvents)
    <3>1. HeadSays("reconnected")
      BY <2>3, HeadIs DEF HeadSays
    <3>2. calls # {} \/ Some(inbox, AnswerEvents)
      BY <2>3, <3>1 DEF AnswerInv, LineInv
    <3> QED
      BY <2>3, <3>2, Taken DEF AnswerEvents
  <2>4. page'.status = "on" => event \in {"switched", "reconnected"}
    BY <1>2
  <2> QED
    BY <1>1, <2>1, <2>2, <2>3, <2>4 DEF LineInv
<1> QED
  BY <1>3, <1>4, <1>5, <1>6, <1>7, <1>8 DEF AnswerInv

(* The core is said to run.                                                *)
LEMMA StartedAnswers ==
    ASSUME TypeOK, AnswerInv, Arrives \/ Passes
    PROVE  AnswerInv'
<1>1. /\ Deliver("started") /\ page'.state = "on"
      /\ (page'.status = "on" /\ ~page'.isRestarting)
         \/ (page.state = "on" /\ page'.status = page.status
             /\ page'.isRestarting = page.isRestarting)
  BY DEF Arrives, Passes
<1>2. UNCHANGED <<calls, core, dog, astray, relabelled>>
  BY <1>1, Taken
<1>3. PageInv'
  BY <1>1 DEF AnswerInv, PageInv
<1>4. GoneInv'
  <2>1. Some(inbox, {"started"})
    BY <1>1, Taken
  <2>2. dog = NoLink => Final(inbox', {"stopped", "refused"}, {"started"})
    BY <1>1, <2>1, Taken DEF AnswerInv, GoneInv
  <2> QED
    BY <1>2, <2>2 DEF AnswerInv, GoneInv
<1>5. UpInv'
  <2>1. ASSUME core # NoLink, ~astray
        PROVE  \/ Final(inbox', {"started"}, {"stopped", "refused"})
               \/ ~Some(inbox', {"stopped", "refused"})
    BY <1>1, <2>1, Taken DEF AnswerInv, UpInv
  <2> QED
    BY <1>1, <1>2, <2>1 DEF UpInv
<1>6. DownInv'
  <2>1. ASSUME core = NoLink, ~relabelled PROVE Final(inbox', DownEvents, UpEvents)
    <3>1. Some(inbox, UpEvents)
      BY <1>1, Taken DEF UpEvents
    <3>2. Final(inbox, DownEvents, UpEvents)
      BY <2>1, <3>1 DEF AnswerInv, DownInv
    <3> QED
      BY <1>1, <3>2, Taken DEF DownEvents
  <2> QED
    BY <1>2, <2>1 DEF DownInv
<1>7. TripInv'
  BY <1>1, TripRead DEF AnswerInv
<1>8. LineInv'
  BY <1>1 DEF LineInv
<1> QED
  BY <1>3, <1>4, <1>5, <1>6, <1>7, <1>8 DEF AnswerInv

(* A restart is under way: its "stopped" goes unheard.                     *)
LEMMA UnheardAnswers == ASSUME TypeOK, AnswerInv, Overhears PROVE AnswerInv'
<1>1. Deliver("stopped") /\ page.isRestarting /\ UNCHANGED page
  BY DEF Overhears
<1>2. UNCHANGED <<calls, core, dog, astray, relabelled>>
  BY <1>1, Taken
<1>3. page.state = "connecting"
  BY <1>1 DEF AnswerInv, PageInv
<1>4. Some(inbox', {"started", "refused"}) \/ Starting
  BY <1>1, <1>3, Taken DEF AnswerInv, PageInv
<1>5. PageInv'
  <2>1. Starting' = Starting
    BY <1>2 DEF Starting
  <2> QED
    BY <1>1, <1>3, <1>4, <2>1 DEF AnswerInv, PageInv
<1>6. GoneInv'
  <2>1. dog = NoLink
          => Final(inbox', {"stopped", "refused"}, {"started"}) \/ ~Some(inbox', {"started"})
    BY <1>1, Taken DEF AnswerInv, GoneInv
  <2> QED
    BY <1>1, <1>2, <1>3, <2>1 DEF AnswerInv, GoneInv
<1>7. UpInv'
  <2>1. ASSUME core # NoLink, ~astray PROVE Final(inbox', {"started"}, {"stopped", "refused"})
    <3>1. Some(inbox, {"stopped", "refused"})
      BY <1>1, Taken
    <3>2. Final(inbox, {"started"}, {"stopped", "refused"})
      BY <2>1, <3>1 DEF AnswerInv, UpInv
    <3> QED
      BY <1>1, <3>2, Taken
  <2> QED
    BY <1>2, <2>1 DEF UpInv
<1>8. DownInv'
  <2>1. ASSUME core = NoLink, ~relabelled
        PROVE  Final(inbox', DownEvents, UpEvents) \/ ~Some(inbox', UpEvents)
    BY <1>1, <2>1, Taken DEF AnswerInv, DownInv
  <2> QED
    BY <1>1, <1>2, <1>3, <2>1 DEF DownInv
<1>9. TripInv'
  BY <1>1, TripRead DEF AnswerInv
<1>10. LineInv'
  <2>1. Some(inbox', {"started", "refused"}) => Some(inbox', AnswerEvents)
    BY DEF Some, AnswerEvents
  <2>2. Starting => calls # {}
    BY DEF Starting
  <2> QED
    BY <1>2, <1>4, <2>1, <2>2 DEF LineInv
<1> QED
  BY <1>5, <1>6, <1>7, <1>8, <1>9, <1>10 DEF AnswerInv

LEMMA HeardAnswers == ASSUME TypeOK, AnswerInv, Heard PROVE AnswerInv'
<1>1. CASE Arrives \/ Passes
  BY <1>1, StartedAnswers
<1>2. CASE Falls \/ Gives
  BY <1>2, OffAnswers DEF Falls, Gives
<1>3. CASE Overhears
  BY <1>3, UnheardAnswers
<1>4. CASE Follows
  BY <1>4, ToldAnswers DEF Follows
<1>5. CASE \E event \in DogStatus \cup {"reconnected"} : Tells(event)
  <2>1. PICK event \in DogStatus \cup {"reconnected"} : Tells(event)
    BY <1>5
  <2>2. /\ Deliver(event) /\ page'.state = page.state /\ page'.isRestarting = page.isRestarting
        /\ page'.status = IF event \in {"switched", "reconnected"} THEN "on" ELSE event
    BY <2>1 DEF Tells, DogStatus
  <2> QED
    BY <2>2, ToldAnswers
<1> QED
  BY <1>1, <1>2, <1>3, <1>4, <1>5 DEF Heard

(* Messages emitted: they come last, and nothing said of the queue is lost *)
(* that they do not speak against.                                         *)
LEMMA Emitted ==
    ASSUME TypeOK, NEW m \in Seq(Messages), m # <<>>, inbox' = inbox \o m,
           Paired(m), Head(m).event # "reconnected"
    PROVE  /\ \A events : Some(inbox', events) <=> (Some(inbox, events) \/ Some(m, events))
           /\ \A events, others : Final(m, events, others) => Final(inbox', events, others)
           /\ \A events, others : Final(inbox, events, others) /\ ~Some(m, others)
                => Final(inbox', events, others)
           /\ Paired(inbox) => Paired(inbox')
           /\ HeadSays("reconnected")' => HeadSays("reconnected")
<1>1. inbox \in Seq(Messages)
  BY DEF TypeOK
<1> QED
  BY <1>1, LongerQueue DEF HeadSays

(* A single message that is not of a trip leaves the trips in order.       *)
LEMMA TripWaits ==
    ASSUME TypeOK, TripInv, UNCHANGED page,
           NEW x \in Messages, x.event \notin {"reconnecting", "switched", "reconnected"},
           inbox' = inbox \o <<x>>
    PROVE  TripInv'
<1> DEFINE m == <<x>>
<1>1. /\ m \in Seq(Messages) /\ m # <<>> /\ Paired(m) /\ Head(m).event # "reconnected"
      /\ \A events : Some(m, events) <=> x.event \in events
  BY OneMessage
<1> HIDE DEF m
<1>2. inbox' = inbox \o m
  BY DEF m
<1>3. ~Some(m, {"reconnecting"}) /\ ~Some(m, {"switched"})
  BY <1>1
<1>4. Paired(inbox')
  BY <1>1, <1>2, Emitted DEF TripInv
<1>5. ASSUME Some(inbox', {"switched"}) PROVE Final(inbox', {"reconnecting"}, {"switched"})
  BY <1>1, <1>2, <1>3, <1>5, Emitted DEF TripInv
<1>6. ASSUME page'.status = "reconnecting" \/ Some(inbox', {"reconnecting"})
      PROVE  Final(inbox', {"reconnected", "failed"}, {"reconnecting"})
  BY <1>1, <1>2, <1>3, <1>6, Emitted DEF TripInv
<1> QED
  BY <1>4, <1>5, <1>6 DEF TripInv

LEMMA StartAnswers == ASSUME TypeOK, AnswerInv, NEW c \in calls, Started(c) PROVE AnswerInv'
<1>1. PICK x \in Messages : /\ x.event \in {"started", "refused"} /\ inbox' = inbox \o <<x>>
                            /\ x.event = "started" => Comes(c)
                            /\ x.event = "refused" => Declined(c)
  <2>1. CASE Comes(c)
    BY <2>1, MessageIs DEF Comes
  <2>2. CASE Declined(c)
    BY <2>2, MessageIs DEF Declined
  <2> QED
    BY <2>1, <2>2 DEF Started
<1> DEFINE m == <<x>>
<1>2. /\ m \in Seq(Messages) /\ m # <<>> /\ Paired(m) /\ Head(m).event # "reconnected"
      /\ \A events : Some(m, events) <=> x.event \in events
      /\ \A events, others : x.event \in events => Final(m, events, others)
  BY <1>1, OneMessage
<1> HIDE DEF m
<1>3. /\ \A events : x.event \in events => Some(inbox', events)
      /\ \A events, others : x.event \in events => Final(inbox', events, others)
  BY <1>1, <1>2, Emitted DEF m
<1>4. UNCHANGED <<page, relabelled>>
  BY DEF Started, PageIdle
<1>5. PageInv'
  <2>1. Some(inbox', {"started", "refused"})
    BY <1>1, <1>3
  <2> QED
    BY <1>4, <2>1 DEF AnswerInv, PageInv
<1>6. GoneInv' /\ UpInv' /\ DownInv'
  <2>1. CASE x.event = "started"
    <3>1. core' # NoLink /\ dog' # NoLink
      BY <1>1, <2>1, WindowAssumption DEF Comes
    <3>2. Final(inbox', {"started"}, {"stopped", "refused"})
      BY <1>3, <2>1
    <3> QED
      BY <3>1, <3>2 DEF GoneInv, UpInv, DownInv
  <2>2. CASE x.event = "refused"
    <3>1. /\ core' \in {core, NoLink} /\ dog' = dog /\ astray' = (astray \/ core' # NoLink)
      BY <1>1, <2>2 DEF Declined
    <3>2. Final(inbox', {"stopped", "refused"}, {"started"}) /\ Final(inbox', DownEvents, UpEvents)
      BY <1>3, <2>2 DEF DownEvents
    <3>3. dog' = NoLink => core' = NoLink
      BY <3>1 DEF AnswerInv, GoneInv
    <3> QED
      BY <3>1, <3>2, <3>3 DEF GoneInv, UpInv, DownInv
  <2> QED
    BY <1>1, <2>1, <2>2
<1>7. TripInv'
  BY <1>1, <1>4, TripWaits DEF AnswerInv
<1>8. LineInv'
  BY <1>1, <1>3 DEF LineInv, AnswerEvents
<1> QED
  BY <1>5, <1>6, <1>7, <1>8 DEF AnswerInv

LEMMA DownAnswers ==
    ASSUME TypeOK, AnswerInv, NEW c \in calls, Downed, Downs(c) PROVE AnswerInv'
<1>1. PICK x \in Messages : x.event = "stopped" /\ inbox' = inbox \o <<x>>
  BY MessageIs DEF Downed
<1> DEFINE m == <<x>>
<1>2. /\ m \in Seq(Messages) /\ m # <<>> /\ Paired(m) /\ Head(m).event # "reconnected"
      /\ \A events : Some(m, events) <=> x.event \in events
      /\ \A events, others : x.event \in events => Final(m, events, others)
  BY <1>1, OneMessage
<1> HIDE DEF m
<1>3. /\ \A events : Some(inbox, events) \/ x.event \in events => Some(inbox', events)
      /\ \A events, others : x.event \in events => Final(inbox', events, others)
  BY <1>1, <1>2, Emitted DEF m
<1>4. core' = NoLink /\ dog' = NoLink /\ UNCHANGED <<page, relabelled>>
  BY DEF Downed, PageIdle
<1>5. PageInv'
  <2>1. Starting => Starting'
    <3>1. CASE c.kind = "stop"
      BY <3>1 DEF Downs, Starting
    <3>2. CASE c.kind = "restart"
      <4>1. [c EXCEPT !.kind = "start"].kind = "start"
        BY DEF TypeOK, Calls
      <4> QED
        BY <3>2, <4>1 DEF Downs, Starting
    <3> QED
      BY <3>1, <3>2 DEF Downs
  <2>2. Some(inbox, {"started", "refused"}) => Some(inbox', {"started", "refused"})
    BY <1>3
  <2> QED
    BY <1>4, <2>1, <2>2 DEF AnswerInv, PageInv
<1>6. GoneInv' /\ UpInv' /\ DownInv'
  <2>1. Final(inbox', {"stopped", "refused"}, {"started"}) /\ Final(inbox', DownEvents, UpEvents)
    BY <1>1, <1>3 DEF DownEvents
  <2> QED
    BY <1>4, <2>1 DEF GoneInv, UpInv, DownInv
<1>7. TripInv'
  BY <1>1, <1>4, TripWaits DEF AnswerInv
<1>8. LineInv'
  BY <1>1, <1>3 DEF LineInv, AnswerEvents
<1> QED
  BY <1>5, <1>6, <1>7, <1>8 DEF AnswerInv

LEMMA RebuildAnswers == ASSUME TypeOK, AnswerInv, Rebuilds PROVE AnswerInv'
<1>1. PICK first : /\ FirstFor(first)
                   /\ \/ core' = dog' /\ inbox' = inbox \o (first \o Back(dog'))
                      \/ core' = NoLink /\ inbox' = inbox \o (first \o Lost)
  BY DEF Rebuilds
<1>2. dog' \in Links /\ dog' # NoLink /\ UNCHANGED <<page, calls, relabelled>>
  BY WindowAssumption DEF Rebuilds, PageIdle
<1>3. PICK m \in Seq(Messages) :
        /\ inbox' = inbox \o m /\ m # <<>> /\ Paired(m) /\ Head(m).event # "reconnected"
        /\ Some(m, AnswerEvents)
        /\ Final(m, {"reconnected", "failed"}, {"reconnecting"})
        /\ Final(m, {"reconnecting"}, {"switched"})
        /\ \/ core' = dog' /\ Final(m, {"started"}, {"stopped", "refused"})
           \/ core' = NoLink /\ Final(m, DownEvents, UpEvents)
  <2>1. CASE core' = dog' /\ inbox' = inbox \o (first \o Back(dog'))
    <3> DEFINE m == first \o Back(dog')
    <3>1. /\ m \in Seq(Messages) /\ m # <<>> /\ Paired(m) /\ Head(m).event # "reconnected"
          /\ Some(m, AnswerEvents)
          /\ Final(m, {"reconnected", "failed"}, {"reconnecting"})
          /\ Final(m, {"reconnecting"}, {"switched"})
          /\ Final(m, {"started"}, {"stopped", "refused"})
      BY <1>1, <1>2, BackIs, TripTells
    <3> QED
      BY <2>1, <3>1
  <2>2. CASE core' = NoLink /\ inbox' = inbox \o (first \o Lost)
    <3> DEFINE m == first \o Lost
    <3>1. /\ m \in Seq(Messages) /\ m # <<>> /\ Paired(m) /\ Head(m).event # "reconnected"
          /\ Some(m, AnswerEvents)
          /\ Final(m, {"reconnected", "failed"}, {"reconnecting"})
          /\ Final(m, {"reconnecting"}, {"switched"})
          /\ Final(m, DownEvents, UpEvents)
      BY <1>1, LostIs, TripTells
    <3> QED
      BY <2>2, <3>1
  <2> QED
    BY <1>1, <2>1, <2>2
<1>4. /\ \A events : Some(inbox, events) \/ Some(m, events) => Some(inbox', events)
      /\ \A events, others : Final(m, events, others) => Final(inbox', events, others)
      /\ Paired(inbox) => Paired(inbox')
  BY <1>3, Emitted
<1>5. PageInv'
  <2>1. Starting' = Starting
    BY <1>2 DEF Starting
  <2>2. Some(inbox, {"started", "refused"}) => Some(inbox', {"started", "refused"})
    BY <1>4
  <2> QED
    BY <1>2, <2>1, <2>2 DEF AnswerInv, PageInv
<1>6. GoneInv' /\ UpInv' /\ DownInv'
  BY <1>2, <1>3, <1>4 DEF GoneInv, UpInv, DownInv
<1>7. TripInv'
  BY <1>3, <1>4 DEF AnswerInv, TripInv
<1>8. LineInv'
  BY <1>3, <1>4 DEF LineInv
<1> QED
  BY <1>5, <1>6, <1>7, <1>8 DEF AnswerInv

LEMMA WaitAnswers == ASSUME TypeOK, AnswerInv, Waits PROVE AnswerInv'
<1>1. PICK x \in Messages : x.event \in {"waiting", "serverDead"} /\ inbox' = inbox \o <<x>>
  BY MessageIs DEF Waits, DogStatus
<1> DEFINE m == <<x>>
<1>2. /\ m \in Seq(Messages) /\ m # <<>> /\ Paired(m) /\ Head(m).event # "reconnected"
      /\ \A events : Some(m, events) <=> x.event \in events
  BY <1>1, OneMessage
<1> HIDE DEF m
<1>3. /\ \A events : Some(inbox', events) <=> (Some(inbox, events) \/ x.event \in events)
      /\ \A events, others : Final(inbox, events, others) /\ x.event \notin others
           => Final(inbox', events, others)
      /\ HeadSays("reconnected")' => HeadSays("reconnected")
  BY <1>1, <1>2, Emitted DEF m
<1>4. UNCHANGED <<page, calls, core, dog, astray, relabelled>>
  BY DEF Waits, PageIdle
<1>5. Starting' = Starting /\ Stopping' = Stopping
  BY <1>4 DEF Starting, Stopping
<1>6. PageInv'
  BY <1>1, <1>3, <1>4, <1>5 DEF AnswerInv, PageInv
<1>7. GoneInv'
  <2>1. /\ Some(inbox', {"started"}) <=> Some(inbox, {"started"})
        /\ Final(inbox, {"stopped", "refused"}, {"started"})
             => Final(inbox', {"stopped", "refused"}, {"started"})
    BY <1>1, <1>3
  <2> QED
    BY <1>4, <2>1 DEF AnswerInv, GoneInv
<1>8. UpInv'
  <2>1. /\ Some(inbox', {"stopped", "refused"}) <=> Some(inbox, {"stopped", "refused"})
        /\ Final(inbox, {"started"}, {"stopped", "refused"})
             => Final(inbox', {"started"}, {"stopped", "refused"})
    BY <1>1, <1>3
  <2> QED
    BY <1>4, <1>5, <2>1 DEF AnswerInv, UpInv
<1>9. DownInv'
  <2>1. /\ Some(inbox', UpEvents) <=> Some(inbox, UpEvents)
        /\ Final(inbox, DownEvents, UpEvents) => Final(inbox', DownEvents, UpEvents)
    BY <1>1, <1>3 DEF UpEvents
  <2> QED
    BY <1>4, <2>1 DEF AnswerInv, DownInv
<1>10. TripInv'
  BY <1>1, <1>4, TripWaits DEF AnswerInv
<1>11. LineInv'
  BY <1>3, <1>4 DEF AnswerInv, LineInv
<1> QED
  BY <1>6, <1>7, <1>8, <1>9, <1>10, <1>11 DEF AnswerInv

LEMMA AnswerStep == ASSUME TypeOK, AnswerInv, [Next]_vars PROVE AnswerInv'
<1>1. CASE User
  BY <1>1, UserSteps, UserAnswers
<1>2. CASE Handlers
  BY <1>2, PageSteps, HeardAnswers
<1>3. CASE GoSteps
  BY <1>3, GoIs, StartAnswers, DownAnswers
<1>4. CASE WatchdogRestarts \/ WatchdogSwitches \/ WatchdogWaits
  BY <1>4, DogSteps, RebuildAnswers, WaitAnswers
<1>5. CASE WriteRecord \/ UNCHANGED vars
  <2>1. UNCHANGED <<page, calls, inbox, core, dog, astray, relabelled>>
    BY <1>5 DEF WriteRecord, vars, goVars
  <2> QED
    BY <2>1 DEF AnswerInv, PageInv, GoneInv, UpInv, DownInv, TripInv, LineInv,
                Starting, Stopping, HeadSays
<1> QED
  BY <1>1, <1>2, <1>3, <1>4, <1>5 DEF Next, User

(* What is on its way to the page puts right what the page says now,       *)
(* whatever is clicked while calls and events are under way.               *)
THEOREM AnswerCorrect == Spec => []AnswerInv
<1>1. Init => TypeOK /\ Timed /\ AnswerInv
  <2> SUFFICES ASSUME Init PROVE AnswerInv
    BY InitTyped
  <2>1. /\ page.state = "off" /\ page.status = "off" /\ ~page.isRestarting
        /\ inbox = <<>> /\ core = NoLink
    BY DEF Init
  <2>2. \A events : ~Some(inbox, events)
    BY <2>1 DEF Some
  <2>3. Paired(inbox)
    BY <2>1 DEF Paired
  <2> QED
    BY <2>1, <2>2, <2>3
       DEF AnswerInv, PageInv, GoneInv, UpInv, DownInv, TripInv, LineInv, HeadSays
<1>2. TypeOK /\ Timed /\ AnswerInv /\ [Next]_vars => (TypeOK /\ Timed /\ AnswerInv)'
  BY TypeStep, AnswerStep
<1> QED
  BY <1>1, <1>2, PTL DEF Spec

(* A window at rest says of the connection what Go would: for any servers, *)
(* clicks, trips of the watchdog and order of its calls.                   *)
THEOREM RestCorrect == Spec => []AgreesAtRest
<1>1. AnswerInv => AgreesAtRest
  <2> SUFFICES ASSUME AnswerInv, AtRest PROVE
        /\ page.state # "connecting"
        /\ page.state = "on" => core # NoLink \/ dog # NoLink
        /\ page.state = "off" => core = NoLink \/ astray
        /\ page.status = "on" => page.state = "on" /\ (core # NoLink \/ relabelled)
        /\ page.status # "reconnecting"
    BY DEF AgreesAtRest
  <2>1. calls = {} /\ ~Starting /\ ~Stopping
    BY DEF AtRest, Starting, Stopping
  <2>2. (\A events : ~Some(inbox, events)) /\ (\A events, others : ~Final(inbox, events, others))
    BY DEF AtRest, Some, Final
  <2>3. page.state # "connecting"
    BY <2>1, <2>2 DEF AnswerInv, PageInv
  <2>4. page.state = "on" => core # NoLink \/ dog # NoLink
    BY <2>2 DEF AnswerInv, GoneInv
  <2>5. page.state = "off" => core = NoLink \/ astray
    BY <2>1, <2>2 DEF AnswerInv, UpInv
  <2>6. page.status = "on" => page.state = "on"
    BY <2>1, <2>2 DEF AnswerInv, LineInv
  <2>7. page.status = "on" => core # NoLink \/ relabelled
    BY <2>2, <2>6 DEF AnswerInv, DownInv
  <2>8. page.status # "reconnecting"
    BY <2>2 DEF AnswerInv, TripInv
  <2> QED
    BY <2>3, <2>4, <2>5, <2>6, <2>7, <2>8
<1> QED
  BY <1>1, AnswerCorrect, PTL

(* The flag that makes the page deaf to xray-stopped is up only while a    *)
(* restart is owed an answer, however calls and events cross.              *)
THEOREM FlagCorrect == Spec => []RestartFlagIsLive
<1>1. AnswerInv => RestartFlagIsLive
  BY DEF AnswerInv, PageInv, RestartFlagIsLive, Owed, Starting, Some
<1> QED
  BY <1>1, AnswerCorrect, PTL
=============================================================================
