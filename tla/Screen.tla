------------------------------- MODULE Screen -------------------------------
(***************************************************************************)
(* What the page does only while somebody looks at it (renderer.ts): the   *)
(* timers of a session, the polling of the core's connections, and how it  *)
(* learns whether it is on screen.                                         *)
(*                                                                         *)
(* Three parties have a word on that: Windows, which the user can turn to  *)
(* without telling the program; Go, which hides and shows the window from  *)
(* the tray (tray.go); and the page, which is told by events and by focus. *)
(* A handler of the page is one step.  A handler of Go acts on the window, *)
(* marks it, and sends its event, each in a step of its own.               *)
(***************************************************************************)
EXTENDS Naturals, Sequences, FiniteSets

CONSTANTS MaxSessions,   \* bound: cores started in one behaviour
          MaxMoves       \* bound: times the window is hidden, shown, left

ScreenAssumption == MaxSessions \in Nat /\ MaxMoves \in Nat

VARIABLES
    os,        \* what Windows shows
    goVisible, \* windowVisible, the tray's word for it
    procs,     \* handlers of Go that have not ended: what they do next
    view,      \* uiActive, backendThinksHidden, the class window-hidden
    leaving,   \* animateAndAction calls that wait for the animation
    mail,      \* window-hidden and window-restored on their way
    focus,     \* a focus event on its way
    moves,     \* bounded counter, and the names of handlers
    awake,     \* history: nothing but a focus event since all was quiet
    crossed,   \* history: two handlers of Go were at opposite events at once
    core,      \* the session of the core that runs, 0: none
    sessions,  \* sessions begun
    tabs,      \* the open tab; appState; the two timers; the polling and its
               \* request; the rows shown and the snapshot they are of
    answer,    \* what Go has answered to the request
    stirred    \* history: a sort order was chosen while nothing was polled

windowVars == <<os, goVisible, procs, view, leaving, mail, focus, moves, awake, crossed>>
vars == <<windowVars, core, sessions, tabs, answer, stirred>>

NoAnswer == MaxSessions + 1
Snapshots == 0..NoAnswer    \* the session read; 0: no connections; NoAnswer: none
Kinds == {"hidden", "restored"}

TypeOK ==
    /\ os \in {"shown", "minimised", "hidden"} /\ goVisible \in BOOLEAN
    /\ procs \subseteq [id: 1..MaxMoves, next: {"check", "mark", "emit"}, what: Kinds]
    /\ view \in [uiActive: BOOLEAN, thinksHidden: BOOLEAN, faded: BOOLEAN]
    /\ leaving \subseteq [id: 1..MaxMoves, to: {"minimised", "hidden"}]
    /\ mail \in Seq(Kinds) /\ focus \in BOOLEAN /\ moves \in 0..MaxMoves
    /\ awake \in BOOLEAN /\ crossed \in BOOLEAN /\ stirred \in BOOLEAN
    /\ core \in 0..MaxSessions /\ sessions \in 0..MaxSessions
    /\ tabs \in [tab: {"home", "connections"}, state: {"off", "connecting", "on"},
                 timer: BOOLEAN, tun: BOOLEAN, polling: BOOLEAN, inFlight: BOOLEAN,
                 rows: 0..MaxSessions, last: Snapshots]
    /\ answer \in Snapshots

(* The window may start in the tray; the page starts as if it were seen.   *)
Init ==
    /\ \E shown \in BOOLEAN :
         os = (IF shown THEN "shown" ELSE "hidden") /\ goVisible = shown
    /\ procs = {} /\ leaving = {} /\ mail = <<>> /\ focus = FALSE /\ moves = 0
    /\ view = [uiActive |-> TRUE, thinksHidden |-> FALSE, faded |-> FALSE]
    /\ awake = FALSE /\ crossed = FALSE /\ stirred = FALSE
    /\ core = 0 /\ sessions = 0 /\ answer = NoAnswer
    /\ tabs = [tab |-> "home", state |-> "off", timer |-> FALSE, tun |-> FALSE,
               polling |-> FALSE, inFlight |-> FALSE, rows |-> 0, last |-> NoAnswer]

(***************************************************************************)
(* Timers and polling follow the tab, the window and the connection.       *)
(***************************************************************************)
connectionsShouldPoll(t, active) == t.tab = "connections" /\ active /\ t.state = "on"
resetConnectionsView(t) == [t EXCEPT !.rows = 0]
syncConnectionsPolling(t, active) ==
    IF connectionsShouldPoll(t, active)
    THEN [t EXCEPT !.polling = TRUE, !.inFlight = @ \/ ~t.polling]
    ELSE LET quiet == [t EXCEPT !.polling = FALSE]
         IN IF t.tab = "connections" /\ t.state = "on" THEN quiet ELSE resetConnectionsView(quiet)
startLiveTimers(t, active) ==
    LET runs == active /\ t.state = "on" IN [t EXCEPT !.timer = runs, !.tun = runs]
stopLiveTimers(t) == [t EXCEPT !.timer = FALSE, !.tun = FALSE]

setUiActive(t, was, active) ==
    IF was = active THEN t
    ELSE syncConnectionsPolling(
           IF active THEN startLiveTimers(t, TRUE) ELSE stopLiveTimers(t), active)
updateAppInterface(t, active, state) ==
    LET s == [t EXCEPT !.state = state]
    IN syncConnectionsPolling(CASE state = "on" -> startLiveTimers(s, active)
                                [] state = "connecting" -> [s EXCEPT !.tun = FALSE]
                                [] state = "off" -> stopLiveTimers(s), active)

selectTab(tab) ==
    /\ tabs' = syncConnectionsPolling([tabs EXCEPT !.tab = tab], view.uiActive)
    /\ UNCHANGED <<windowVars, core, sessions, answer, stirred>>

(* setInterval's tick: a request, if none is out.                          *)
Tick ==
    /\ tabs.polling /\ ~tabs.inFlight
    /\ connectionsShouldPoll(tabs, view.uiActive)
    /\ tabs' = [tabs EXCEPT !.inFlight = TRUE]
    /\ UNCHANGED <<windowVars, core, sessions, answer, stirred>>
GetConnections ==
    /\ tabs.inFlight /\ answer = NoAnswer
    /\ answer' = core
    /\ UNCHANGED <<windowVars, core, sessions, tabs, stirred>>
renderConnections(t, snapshot) == [t EXCEPT !.rows = snapshot, !.last = snapshot]
Answered ==
    /\ tabs.inFlight /\ answer # NoAnswer
    /\ LET done == [tabs EXCEPT !.inFlight = FALSE]
       IN tabs' = IF connectionsShouldPoll(tabs, view.uiActive)
                  THEN renderConnections(done, answer) ELSE done
    /\ answer' = NoAnswer
    /\ UNCHANGED <<windowVars, core, sessions, stirred>>
setConnectionsSort ==
    /\ tabs.tab = "connections" /\ tabs.last # NoAnswer
    /\ tabs' = renderConnections(tabs, tabs.last)
    /\ stirred' = (stirred \/ ~tabs.polling)
    /\ UNCHANGED <<windowVars, core, sessions, answer>>

(* The connection, as far as these follow it.                              *)
Connect ==
    /\ tabs.state = "off" /\ core = 0 /\ sessions < MaxSessions
    /\ tabs' = updateAppInterface(tabs, view.uiActive, "connecting")
    /\ UNCHANGED <<windowVars, core, sessions, answer, stirred>>
CoreStarts ==
    /\ core = 0 /\ tabs.state # "off" /\ sessions < MaxSessions
    /\ sessions' = sessions + 1 /\ core' = sessions + 1
    /\ UNCHANGED <<windowVars, tabs, answer, stirred>>
CoreStops ==
    /\ core # 0 /\ core' = 0
    /\ UNCHANGED <<windowVars, sessions, tabs, answer, stirred>>
Told(state) ==
    /\ \/ state = "on" /\ core # 0
       \/ state = "off" /\ core = 0
       \/ state = "connecting" /\ tabs.state = "on"
    /\ tabs.state # "off" /\ tabs.state # state
    /\ tabs' = updateAppInterface(tabs, view.uiActive, state)
    /\ UNCHANGED <<windowVars, core, sessions, answer, stirred>>

(***************************************************************************)
(* The window goes and comes back.                                         *)
(***************************************************************************)
sessionVars == <<core, sessions, answer, stirred>>
Handler(next, what) == [id |-> moves + 1, next |-> next, what |-> what]
Quiet == procs = {} /\ leaving = {} /\ mail = <<>>
SetActive(active) ==
    /\ view' = [view EXCEPT !.uiActive = active, !.faded = FALSE]
    /\ tabs' = setUiActive(tabs, view.uiActive, active)

(* The tray's click: Windows is asked, then the window hidden or shown.    *)
TrayToggle ==
    /\ moves < MaxMoves /\ moves' = moves + 1 /\ awake' = FALSE
    /\ IF os = "shown"
       THEN os' = "hidden" /\ procs' = procs \cup {Handler("mark", "hidden")} /\ UNCHANGED focus
       ELSE os' = "shown" /\ procs' = procs \cup {Handler("mark", "restored")} /\ focus' = TRUE
    /\ UNCHANGED <<goVisible, view, leaving, mail, crossed, tabs, sessionVars>>

(* markWindowHidden, markWindowShown and the event; NotifyWindowShown asks *)
(* Windows first.                                                          *)
Step(p) ==
    /\ CASE p.next = "check" ->
              /\ procs' = (procs \ {p}) \cup IF os = "shown" THEN {[p EXCEPT !.next = "mark"]} ELSE {}
              /\ UNCHANGED <<goVisible, mail, crossed>>
         [] p.next = "mark" ->
              /\ goVisible' = (p.what = "restored")
              /\ procs' = (procs \ {p}) \cup {[p EXCEPT !.next = "emit"]}
              /\ crossed' = (crossed \/ \E q \in procs \ {p} : q.what # p.what)
              /\ UNCHANGED mail
         [] p.next = "emit" ->
              /\ mail' = Append(mail, p.what)
              /\ procs' = procs \ {p}
              /\ UNCHANGED <<goVisible, crossed>>
    /\ UNCHANGED <<os, view, leaving, focus, moves, awake, tabs, sessionVars>>

(* The page's own buttons: a quarter of a second for the animation, then   *)
(* the window goes and Go is told.                                         *)
animateAndAction(to) ==
    /\ os = "shown" /\ moves < MaxMoves /\ moves' = moves + 1 /\ awake' = FALSE
    /\ view' = [view EXCEPT !.faded = TRUE]
    /\ leaving' = leaving \cup {[id |-> moves + 1, to |-> to]}
    /\ UNCHANGED <<os, goVisible, procs, mail, focus, crossed, tabs, sessionVars>>
Left(l) ==
    /\ leaving' = leaving \ {l}
    /\ os' = l.to /\ awake' = FALSE
    /\ procs' = procs \cup {[id |-> l.id, next |-> "mark", what |-> "hidden"]}
    /\ SetActive(FALSE)
    /\ UNCHANGED <<goVisible, mail, focus, moves, crossed, sessionVars>>

(* What the user does with Windows alone.                                  *)
TaskbarMinimise ==
    /\ os = "shown" /\ os' = "minimised" /\ awake' = FALSE
    /\ moves < MaxMoves /\ moves' = moves + 1
    /\ UNCHANGED <<goVisible, procs, view, leaving, mail, focus, crossed, tabs, sessionVars>>
TaskbarRestore ==
    /\ os = "minimised" /\ os' = "shown" /\ focus' = TRUE
    /\ UNCHANGED <<goVisible, procs, view, leaving, mail, moves, awake, crossed, tabs, sessionVars>>
SwitchTo ==
    /\ os = "shown" /\ ~focus /\ focus' = TRUE
    /\ UNCHANGED <<os, goVisible, procs, view, leaving, mail, moves, awake, crossed, tabs, sessionVars>>

(* onWindowHidden, onWindowRestored.                                       *)
Notified ==
    /\ mail # <<>> /\ mail' = Tail(mail)
    /\ IF Head(mail) = "hidden"
       THEN /\ view' = [view EXCEPT !.thinksHidden = TRUE, !.uiActive = FALSE]
            /\ tabs' = setUiActive(tabs, view.uiActive, FALSE)
       ELSE /\ view' = [uiActive |-> TRUE, thinksHidden |-> FALSE, faded |-> FALSE]
            /\ tabs' = setUiActive(tabs, view.uiActive, TRUE)
    /\ UNCHANGED <<os, goVisible, procs, leaving, focus, moves, awake, crossed, sessionVars>>

(* focus, or visibilitychange.  Mutant: Go is told only by a page that was *)
(* asleep.                                                                 *)
onWindowBackOnScreenOnce ==
    /\ focus /\ focus' = FALSE
    /\ SetActive(TRUE) /\ awake' = (awake \/ (os = "shown" /\ Quiet))
    /\ IF view.thinksHidden /\ ~view.uiActive /\ moves < MaxMoves
       THEN procs' = procs \cup {Handler("check", "restored")} /\ moves' = moves + 1
       ELSE UNCHANGED <<procs, moves>>
    /\ UNCHANGED <<os, goVisible, leaving, mail, crossed, sessionVars>>
onWindowBackOnScreen ==
    /\ focus /\ focus' = FALSE
    /\ view.thinksHidden => moves < MaxMoves
    /\ SetActive(TRUE) /\ awake' = (awake \/ (os = "shown" /\ Quiet))
    /\ IF view.thinksHidden
       THEN procs' = procs \cup {Handler("check", "restored")} /\ moves' = moves + 1
       ELSE UNCHANGED <<procs, moves>>
    /\ UNCHANGED <<os, goVisible, leaving, mail, crossed, sessionVars>>

Next ==
    \/ \E tab \in {"home", "connections"} : tab # tabs.tab /\ selectTab(tab)
    \/ Tick \/ GetConnections \/ Answered \/ setConnectionsSort
    \/ Connect \/ CoreStarts \/ CoreStops
    \/ \E state \in {"off", "connecting", "on"} : Told(state)
    \/ TrayToggle \/ \E p \in procs : Step(p)
    \/ \E to \in {"minimised", "hidden"} : animateAndAction(to)
    \/ \E l \in leaving : Left(l)
    \/ TaskbarMinimise \/ TaskbarRestore \/ SwitchTo
    \/ Notified \/ onWindowBackOnScreen

Spec == Init /\ [][Next]_vars

(***************************************************************************)
(* Properties                                                              *)
(***************************************************************************)
(* However the window came back, one focus event that meets a quiet system *)
(* brings page and Go to the truth, and the page back from its animation:  *)
(* what the two halves of onWindowBackOnScreen are for.                    *)
WakesUp ==
    /\ awake /\ Quiet /\ ~crossed => view.uiActive /\ goVisible /\ ~view.thinksHidden
    /\ leaving = {} => ~view.faded

(* An unseen page does no work, and a seen one all of it: timers run while *)
(* connected, the core is asked while its tab is open, and never twice at  *)
(* once (setUiActive, updateAppInterface, selectTab).                      *)
OnlyWhileSeen ==
    /\ tabs.timer => view.uiActive /\ tabs.state # "off"
    /\ tabs.tun => view.uiActive /\ tabs.state = "on"
    /\ view.uiActive /\ tabs.state = "on" => tabs.timer /\ tabs.tun
    /\ tabs.polling = connectionsShouldPoll(tabs, view.uiActive)

(* Rows on the screen are rows of a connection: "these connections have    *)
(* long been closed" otherwise (syncConnectionsPolling), unless a sort     *)
(* order was chosen, which brings the last snapshot back.                  *)
NoGhosts == tabs.rows # 0 /\ ~stirred => tabs.state = "on" /\ tabs.tab = "connections"
(* Without that reservation.                                               *)
NoGhostsAtAll == tabs.rows # 0 => tabs.state = "on" /\ tabs.tab = "connections"
=============================================================================
