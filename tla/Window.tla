------------------------------- MODULE Window -------------------------------
(***************************************************************************)
(* What the window says of the connection (renderer.ts), against the calls *)
(* it makes into Go and the events and answers it gets back.               *)
(*                                                                         *)
(* The page runs one handler at a time.  A call it makes becomes a         *)
(* goroutine that runs whenever it is scheduled, the start and restart     *)
(* calls after another round trip for the settings (wails-bridge.ts), and  *)
(* the page learns of everything through one queue of messages: events     *)
(* that name no attempt, and the failures of its own calls.                *)
(*                                                                         *)
(* Of Go there is only what the page can tell: which server the core runs  *)
(* on, and the watchdog that holds a link.  Session has the steps inside   *)
(* these calls.  A request for administrator rights is left out: it ends   *)
(* in a refusal, like any other, or in the end of this page.               *)
(***************************************************************************)
EXTENDS Naturals, Sequences, FiniteSets

CONSTANTS
    Links,       \* servers the user owns
    NoLink,
    MaxClicks,   \* bound: what the user does in one behaviour
    MaxTrips,    \* bound: times the watchdog acts in one behaviour
    MaxHistory   \* records kept (the code: 100)

ASSUME WindowAssumption ==
    /\ Links # {} /\ NoLink \notin Links
    /\ MaxClicks \in Nat /\ MaxTrips \in Nat /\ MaxHistory \in Nat \ {0}

VARIABLES
    page,        \* appState, isRestarting, activeServerLink, the timed session, the status line
    best,        \* the server a "switch to the best?" dialog asks about
    recording,   \* finishSessionHistory calls that wait for the traffic totals
    historyCache,
    calls,       \* goroutines that run calls of the page
    inbox,       \* events and failures on their way to the page
    core,        \* the server the core runs on
    dog,         \* the server the watchdog looks after, NoLink: none runs
    clicks, trips, \* bounded counters; clicks also names calls
    tracked,     \* sessions started so far, their names
    astray,      \* history: a running core was left behind by a refused start or a reload
    relabelled   \* history: the language was changed under a status the watchdog had set

goVars == <<calls, inbox, core, dog, trips, astray>>
vars == <<page, best, recording, historyCache, goVars, clicks, tracked, relabelled>>

MaybeLink == Links \cup {NoLink}
DogStatus == {"reconnecting", "waiting", "serverDead", "failed"}

(* sessionConnectedAt; "over" are the servers the core is known to have    *)
(* run on since.                                                           *)
SessionOf(id, over) == [id |-> id, over |-> over]
NoSession == SessionOf(0, {})
Sessions == [id: Nat, over: SUBSET Links]
Entries == [id: Nat \ {0}, over: SUBSET Links, link: MaybeLink]

Pages == [state: {"off", "connecting", "on"}, isRestarting: BOOLEAN, link: MaybeLink,
          session: Sessions, status: {"off", "connecting", "on"} \cup DogStatus]
Calls == [id: 0..MaxClicks, kind: {"start", "restart"}, link: Links]
         \cup [id: 0..MaxClicks, kind: {"stop"}, link: {NoLink}]
Call(kind, link) == [id |-> clicks, kind |-> kind, link |-> link]
Message(event, link) == [event |-> event, link |-> link]
Messages == [event: {"started", "refused", "switched"}, link: Links]
            \cup [event: {"stopped", "reconnected"} \cup DogStatus, link: {NoLink}]

TypeOK ==
    /\ page \in Pages
    /\ best \in MaybeLink
    /\ recording \subseteq Entries
    /\ historyCache \in Seq(Entries) /\ Len(historyCache) <= MaxHistory
    /\ calls \subseteq Calls
    /\ inbox \in Seq(Messages)
    /\ core \in MaybeLink /\ dog \in MaybeLink
    /\ clicks \in 0..MaxClicks /\ trips \in 0..MaxTrips
    /\ tracked \in Nat
    /\ astray \in BOOLEAN /\ relabelled \in BOOLEAN

Init ==
    /\ \E link \in MaybeLink :
         page = [state |-> "off", isRestarting |-> FALSE, link |-> link,
                 session |-> NoSession, status |-> "off"]
    /\ best = NoLink /\ recording = {} /\ historyCache = <<>>
    /\ calls = {} /\ inbox = <<>> /\ core = NoLink /\ dog = NoLink
    /\ clicks = 0 /\ trips = 0 /\ tracked = 0
    /\ astray = FALSE /\ relabelled = FALSE

(***************************************************************************)
(* What the handlers share.  Each takes the page as it is and gives the    *)
(* page as it becomes.                                                     *)
(***************************************************************************)
startSessionTracking(p, link) == [p EXCEPT !.session = SessionOf(tracked + 1, {link} \ {NoLink})]

Entered(p, state) == p.state # state
(* Mutant: a page that goes off stays deaf to xray-stopped.                *)
DeafInterface(p, state, link) ==
    LET shown == [p EXCEPT !.state = state, !.status = state]
    IN IF state = "on" /\ Entered(p, state)
       THEN startSessionTracking([shown EXCEPT !.isRestarting = FALSE], link)
       ELSE shown
updateAppInterface(p, state, link) ==
    LET shown == [p EXCEPT !.state = state, !.status = state]
    IN CASE state = "on" -> IF Entered(p, state)
                            THEN startSessionTracking([shown EXCEPT !.isRestarting = FALSE], link)
                            ELSE shown
         [] state = "connecting" -> shown
         [] OTHER -> [shown EXCEPT !.isRestarting = FALSE]

(* finishSessionHistory: the page it leaves behind, and the calls it makes *)
(* for the totals: none when no session runs or it lasted under 2 s.       *)
(* Mutant: the start time is kept.                                         *)
SessionKept(p) == p
SessionClosed(p) == [p EXCEPT !.session = NoSession]
Entry(p) == [id |-> p.session.id, over |-> p.session.over, link |-> p.link]
Finished(p) == IF p.session = NoSession THEN {{}} ELSE {{}, {Entry(p)}}
finishSessionHistory(p) == \E new \in Finished(p) : recording' = recording \cup new

Click == clicks < MaxClicks /\ clicks' = clicks + 1
Ask(kind, link) == calls' = calls \cup {Call(kind, link)}
Nothing == UNCHANGED <<inbox, core, dog, trips, astray, historyCache, tracked>>
NoRecord == UNCHANGED recording
GoIdle == UNCHANGED goVars

Connecting(p) == updateAppInterface(p, "connecting", NoLink)
Off(p) == updateAppInterface(p, "off", NoLink)

(***************************************************************************)
(* The user's handlers.                                                    *)
(***************************************************************************)
(* powerBtn.onclick (and Ctrl+Enter, the tray's entry, autoConnect).       *)
startConnection ==
    /\ page.state = "off" /\ page.link # NoLink
    /\ page' = Connecting(page)
    /\ Ask("start", page.link)
    /\ NoRecord

disconnect ==
    /\ page.state # "off"
    /\ finishSessionHistory(page)
    /\ page' = Off(SessionClosed(page))
    /\ Ask("stop", NoLink)

Power == Click /\ (startConnection \/ disconnect) /\ Nothing /\ UNCHANGED <<best, relabelled>>

(* restartBtn, the tray's "restart", "apply now", a profile or a toggle    *)
(* taken while connected: the tray presses the button also when the page   *)
(* does not show it.                                                       *)
RestartCore(p) == [Connecting(p) EXCEPT !.isRestarting = TRUE]
Restart ==
    /\ Click /\ page.link # NoLink
    /\ page' = RestartCore(page)
    /\ Ask("restart", page.link)
    /\ Nothing /\ NoRecord /\ UNCHANGED <<best, relabelled>>

(* A click on a server's card.                                             *)
SelectCard(link) ==
    LET chosen == [page EXCEPT !.link = link]
        goes == page.link # link /\ page.state # "off"
    IN /\ Click
       /\ page' = IF goes THEN RestartCore(chosen) ELSE chosen
       /\ IF goes THEN Ask("restart", link) ELSE UNCHANGED calls
       /\ Nothing /\ NoRecord /\ UNCHANGED <<best, relabelled>>

(* "Connect again" in the history.                                         *)
selectAndConnectServer(link) ==
    LET chosen == [page EXCEPT !.link = link]
    IN /\ Click
       /\ IF page.state = "off"
          THEN page' = Connecting(chosen) /\ Ask("start", link)
          ELSE page' = RestartCore(chosen) /\ Ask("restart", link)
       /\ Nothing /\ NoRecord /\ UNCHANGED <<best, relabelled>>

(* A server of the tray menu: always a start, whatever runs.               *)
TrayStartReconnect(link) ==
    /\ Click
    /\ page' = Connecting([page EXCEPT !.link = link])
    /\ Ask("start", link)
    /\ Nothing /\ NoRecord /\ UNCHANGED <<best, relabelled>>

(* The best server, two seconds after its button.  Whether this is a       *)
(* restart was decided before the dialog; isRestarting is not set.         *)
TakeBest(link, wasActive) ==
    /\ page' = Connecting([page EXCEPT !.link = link])
    /\ Ask(IF wasActive THEN "restart" ELSE "start", link)

BestServer(link) ==
    /\ Click /\ best = NoLink
    /\ \/ page.state = "off" /\ TakeBest(link, FALSE) /\ UNCHANGED best
       \/ page.state # "off" /\ page.link # link /\ best' = link /\ UNCHANGED <<page, calls>>
    /\ Nothing /\ NoRecord /\ UNCHANGED relabelled

ConfirmBest ==
    /\ best # NoLink /\ best' = NoLink
    /\ Click
    /\ TakeBest(best, TRUE) \/ UNCHANGED <<page, calls>>
    /\ Nothing /\ NoRecord /\ UNCHANGED relabelled

(* applyLanguage draws the page anew in the state it has.                  *)
LangToggle ==
    /\ Click
    /\ page' = updateAppInterface(page, page.state, NoLink)
    /\ relabelled' = (relabelled \/ page.status \in DogStatus)
    /\ UNCHANGED <<goVars, best, recording, historyCache, tracked>>

ClearHistory ==
    /\ Click /\ historyCache # <<>> /\ historyCache' = <<>>
    /\ UNCHANGED <<goVars, page, best, recording, tracked, relabelled>>

(* After an import the page is loaded anew and asks nobody whether a core  *)
(* runs: it is "off", or connects on its own (autoConnect).  The import    *)
(* and its dialogs outlast the calls made before it: none is open here.    *)
Reload ==
    LET fresh == [state |-> "off", isRestarting |-> FALSE, link |-> page.link,
                  session |-> NoSession, status |-> "off"]
    IN /\ Click /\ calls = {} /\ inbox = <<>>
       /\ best' = NoLink /\ recording' = {}
       /\ astray' = (astray \/ core # NoLink)
       /\ \/ page' = fresh /\ UNCHANGED calls
          \/ page.link # NoLink /\ page' = Connecting(fresh) /\ Ask("start", page.link)
       /\ UNCHANGED <<inbox, core, dog, trips, historyCache, tracked, relabelled>>

(***************************************************************************)
(* The page's messages.                                                    *)
(***************************************************************************)
Deliver(event) ==
    /\ inbox # <<>> /\ Head(inbox).event = event
    /\ inbox' = Tail(inbox)
    /\ UNCHANGED <<calls, core, dog, trips, astray, best, historyCache, clicks, relabelled>>

(* The core runs on "link" from here on: what the timed session has seen.  *)
Seen(p, link) == IF p.session = NoSession THEN p
                 ELSE [p EXCEPT !.session = SessionOf(@.id, @.over \cup {link})]

OnStarted ==
    /\ Deliver("started") /\ NoRecord
    /\ LET link == Head(inbox).link
       IN IF page.state # "on"
          THEN page' = updateAppInterface(page, "on", link) /\ tracked' = tracked + 1
          ELSE page' = Seen(page, link) /\ UNCHANGED tracked

OnStopped ==
    /\ Deliver("stopped") /\ UNCHANGED tracked
    /\ IF page.isRestarting THEN UNCHANGED <<page, recording>>
       ELSE finishSessionHistory(page) /\ page' = Off(SessionClosed(page))

(* A start or restart the page asked for came back refused.                *)
(* Mutant: a refusal is only shown.                                        *)
OnRefusedStays ==
    Deliver("refused") /\ NoRecord /\ UNCHANGED <<page, tracked>>
OnRefused ==
    /\ Deliver("refused") /\ NoRecord /\ UNCHANGED tracked
    /\ page' = Off(page)

OnWatchdogSwitched ==
    /\ Deliver("switched")
    /\ finishSessionHistory(page)
    /\ LET link == Head(inbox).link
       IN page' = [startSessionTracking([SessionClosed(page) EXCEPT !.link = link], link)
                   EXCEPT !.status = "on"]
    /\ tracked' = tracked + 1

OnWatchdogStatus ==
    \/ \E event \in DogStatus :
         Deliver(event) /\ page' = [page EXCEPT !.status = event] /\ NoRecord /\ UNCHANGED tracked
    \/ Deliver("reconnected") /\ page' = [page EXCEPT !.status = "on"] /\ NoRecord
       /\ UNCHANGED tracked

(* The totals arrive, and the record goes to the front of the list.        *)
SaveHistory(entry) ==
    LET longer == <<entry>> \o historyCache
    IN SubSeq(longer, 1, IF Len(longer) > MaxHistory THEN MaxHistory ELSE Len(longer))
WriteRecord ==
    \E entry \in recording :
        /\ historyCache' = SaveHistory(entry)
        /\ recording' = recording \ {entry}
        /\ UNCHANGED <<page, best, goVars, clicks, tracked, relabelled>>

(***************************************************************************)
(* Go.                                                                     *)
(***************************************************************************)
PageIdle == UNCHANGED <<page, best, recording, historyCache, clicks, tracked, relabelled>>
Emit(messages) == inbox' = inbox \o messages

(* StartXray, over whatever runs.  A refusal before coreManager.Start      *)
(* leaves a running core alone, a later one has closed it.                 *)
StartXray(c) ==
    /\ c \in calls /\ c.kind = "start"
    /\ calls' = calls \ {c}
    /\ UNCHANGED trips /\ PageIdle
    /\ \/ /\ core' = c.link /\ dog' = c.link
          /\ Emit(<<Message("started", c.link)>>)
          /\ UNCHANGED astray
       \/ /\ core' \in {core, NoLink}
          /\ Emit(<<Message("refused", c.link)>>)
          /\ astray' = (astray \/ core' # NoLink)
          /\ UNCHANGED dog

(* RestartXray takes the session down and goes on as StartXray.            *)
RestartXray(c) ==
    /\ c \in calls /\ c.kind = "restart"
    /\ core' = NoLink /\ dog' = NoLink
    /\ Emit(<<Message("stopped", NoLink)>>)
    /\ calls' = (calls \ {c}) \cup {[c EXCEPT !.kind = "start"]}
    /\ UNCHANGED <<trips, astray>> /\ PageIdle

StopXray(c) ==
    /\ c \in calls /\ c.kind = "stop"
    /\ core' = NoLink /\ dog' = NoLink
    /\ Emit(<<Message("stopped", NoLink)>>)
    /\ calls' = calls \ {c}
    /\ UNCHANGED <<trips, astray>> /\ PageIdle

(* The watchdog: it rebuilds the core on its link or, after a switch, on   *)
(* another, or it has nothing to try and says so.                          *)
Trip == dog # NoLink /\ trips < MaxTrips /\ trips' = trips + 1
Outcome(link, first) ==
    \/ /\ core' = link
       /\ Emit(first \o <<Message("reconnecting", NoLink), Message("started", link),
                          Message("reconnected", NoLink)>>)
    \/ /\ core' = NoLink
       /\ Emit(first \o <<Message("reconnecting", NoLink), Message("failed", NoLink)>>)

WatchdogRestarts == Trip /\ Outcome(dog, <<>>) /\ UNCHANGED <<dog, calls, astray>> /\ PageIdle
WatchdogSwitches ==
    /\ Trip
    /\ \E alt \in Links \ {dog} : dog' = alt /\ Outcome(alt, <<Message("switched", alt)>>)
    /\ UNCHANGED <<calls, astray>> /\ PageIdle
WatchdogWaits ==
    /\ Trip
    /\ \E event \in {"waiting", "serverDead"} : Emit(<<Message(event, NoLink)>>)
    /\ UNCHANGED <<calls, core, dog, astray>> /\ PageIdle

-----------------------------------------------------------------------------
Handlers == OnStarted \/ OnStopped \/ OnRefused \/ OnWatchdogSwitched \/ OnWatchdogStatus
GoSteps == \E c \in calls : StartXray(c) \/ RestartXray(c) \/ StopXray(c)
Next ==
    \/ Power \/ Restart \/ ConfirmBest \/ LangToggle \/ ClearHistory \/ Reload
    \/ \E link \in Links : SelectCard(link) \/ selectAndConnectServer(link)
                           \/ TrayStartReconnect(link) \/ BestServer(link)
    \/ Handlers \/ WriteRecord \/ GoSteps
    \/ WatchdogRestarts \/ WatchdogSwitches \/ WatchdogWaits

Spec == Init /\ [][Next]_vars

(* The page's queue is served and a goroutine is scheduled; nobody has to  *)
(* click and no watchdog has to act.                                       *)
FairSpec == Spec /\ WF_vars(Handlers) /\ WF_vars(GoSteps)

-----------------------------------------------------------------------------
AtRest == calls = {} /\ inbox = <<>>

(* When every call is answered and every message read, the window is not   *)
(* still connecting; "on" means a core runs or the watchdog is after it;   *)
(* "off" means none runs, unless a start was refused over a running core   *)
(* or an import has loaded the page anew over one; and the line under the  *)
(* button says "connected" only of a core that is up, unless drawing the   *)
(* page in another language put it there.  Events name no attempt, so an   *)
(* answer of one start may pass for another's.                             *)
AgreesAtRest ==
    AtRest => /\ page.state # "connecting"
              /\ page.state = "on" => core # NoLink \/ dog # NoLink
              /\ page.state = "off" => core = NoLink \/ astray
              /\ page.status = "on" => page.state = "on" /\ (core # NoLink \/ relabelled)
              /\ page.status # "reconnecting"

(* isRestarting makes the page deaf to xray-stopped (onStopped), so it is  *)
(* up only while a restart is owed an answer: a flag left up would hide    *)
(* the next loss of the tunnel (updateAppInterface, renderer.ts:1105).     *)
Owed == \/ \E c \in calls : c.kind \in {"start", "restart"}
        \/ \E i \in 1..Len(inbox) : inbox[i].event \in {"started", "refused"}
RestartFlagIsLive == page.isRestarting => page.state = "connecting" /\ Owed

(* One session is written to the history at most once, although a          *)
(* disconnect and the xray-stopped it causes both close it, and although   *)
(* the record waits for the totals (finishSessionHistory).                 *)
RecordedOnce ==
    /\ \A i, j \in DOMAIN historyCache : historyCache[i].id = historyCache[j].id => i = j
    /\ \A e \in recording :
         /\ \A i \in DOMAIN historyCache : historyCache[i].id # e.id
         /\ e.id # page.session.id

(* "Connecting" ends: each attempt is answered by an event or a refusal.   *)
ConnectingEnds == page.state = "connecting" ~> page.state # "connecting"

(* A record names the server its time was spent on (renderer.ts:4538).     *)
RecordsNameTheirServer ==
    \A i \in 1..Len(historyCache) : historyCache[i].over \subseteq {historyCache[i].link}

(* A window at rest that says "off" has no tunnel behind it.               *)
OffMeansDown == AtRest /\ page.state = "off" => core = NoLink
=============================================================================
