----------------------------- MODULE StatusBadges -----------------------------
(***************************************************************************)
(* What the page says of the kill switch (renderer.ts).  It is not told    *)
(* but asks the back end whether the rules stand, twice at each event of a *)
(* session; a call is a goroutine, so answers come in any order, and are   *)
(* written wherever the page has got to.                                   *)
(***************************************************************************)
EXTENDS Naturals, FiniteSets

CONSTANTS MaxSessions, MaxQuestions   \* bounds

StatusBadgesAssumption == MaxSessions \in Nat /\ MaxQuestions \in Nat \ {0, 1}

VARIABLES
    appState, sessions,   \* the page's state; sessions so far
    core,                 \* idle, starting, armed, running, stopping
    rules,                \* the marker of the firewall's rules
    stuck,                \* killSwitchStuck
    box,                  \* killSwitchCheckbox, and what is saved
    event,                \* xray-started or -stopped is on its way to the page
    questions, asked,     \* calls of GetKillSwitchState; their number
    pill,                 \* killSwitchStatusBadge of the settings
    badge, killSwitchArmed, killSwitchStuckReported,   \* of the home tab
    mishaps               \* history: of Mishap

session == <<appState, sessions, core, rules, stuck, box, event>>
badges == <<pill, badge, killSwitchArmed, killSwitchStuckReported>>
questioning == <<questions, asked>>
vars == <<session, badges, questioning, mishaps>>

Mishap == {"crossed",  \* the last reading of the rules to come was not the last to be taken
           "refused"}  \* a start that failed took rules away
Questions == [id: 1..MaxQuestions, of: {"pill", "badge"}, reading: {"none", "up", "down"}]

TypeOK ==
    /\ appState \in {"off", "connecting", "on"} /\ sessions \in 0..MaxSessions
    /\ core \in {"idle", "starting", "armed", "running", "stopping"}
    /\ rules \in BOOLEAN /\ stuck \in BOOLEAN /\ box \in BOOLEAN
    /\ event \in {"none", "started", "stopped"}
    /\ questions \subseteq Questions /\ asked \in 0..MaxQuestions
    /\ pill \in {"stuck", "off", "active", "pending", "standby"}
    /\ badge \in BOOLEAN /\ killSwitchArmed \in BOOLEAN /\ killSwitchStuckReported \in BOOLEAN
    /\ mishaps \in SUBSET Mishap

(* refreshKillSwitchBadge asks for itself and for the pill.                *)
Ask(kinds) ==
    /\ asked + Cardinality(kinds) <= MaxQuestions /\ asked' = asked + Cardinality(kinds)
    /\ questions' = questions \cup
           {[id |-> IF k = "pill" THEN asked + 1 ELSE asked', of |-> k, reading |-> "none"] : k \in kinds}
Both == {"pill", "badge"}

(* Rules that a crashed run left and that cannot be removed stay.          *)
Init ==
    /\ appState = "off" /\ sessions = 0 /\ core = "idle" /\ event = "none"
    /\ stuck \in BOOLEAN /\ rules = stuck /\ box \in BOOLEAN
    /\ questions = {[id |-> 1, of |-> "pill", reading |-> "none"],
                    [id |-> 2, of |-> "badge", reading |-> "none"]} /\ asked = 2
    /\ pill = "standby" /\ badge = FALSE /\ killSwitchArmed = FALSE /\ killSwitchStuckReported = FALSE
    /\ mishaps = {}

(* A session, as far as the page and the rules see it, one call at a time: *)
(* Session has the rest.                                                   *)
startConnection ==
    /\ appState = "off" /\ core = "idle" /\ event = "none" /\ sessions < MaxSessions
    /\ appState' = "connecting" /\ core' = "starting"
    /\ UNCHANGED <<sessions, rules, stuck, box, event, badges, questioning, mishaps>>
restartCore ==
    /\ appState = "on" /\ core = "running" /\ event = "none" /\ sessions < MaxSessions
    /\ appState' = "connecting" /\ core' = "starting" /\ event' = "stopped"
    /\ UNCHANGED <<sessions, rules, stuck, box, badges, questioning, mishaps>>
disconnect ==
    /\ appState # "off" /\ core = "running" /\ event = "none" /\ appState' = "off" /\ core' = "stopping"
    /\ UNCHANGED <<sessions, rules, stuck, box, event, badges, questioning, mishaps>>
(* StartXray sets the rules when the core runs; nobody is told when it     *)
(* fails but the caller, and a failure to set them takes away those there  *)
(* were.                                                                   *)
enableKillSwitch ==
    /\ core = "starting" /\ event = "none" /\ (stuck => ~box)
    /\ rules' = (rules \/ box) /\ core' = "armed"
    /\ UNCHANGED <<appState, sessions, stuck, box, event, badges, questioning, mishaps>>
Refused ==
    /\ core = "starting" /\ event = "none" /\ core' = "idle" /\ appState' = "off"
    /\ rules' \in {rules} \cup (IF box THEN {stuck} ELSE {})
    /\ mishaps' = IF rules' # rules THEN mishaps \cup {"refused"} ELSE mishaps
    /\ UNCHANGED <<sessions, stuck, box, event, badges, questioning>>
CoreIsUp ==
    /\ core = "armed" /\ core' = "running" /\ sessions' = sessions + 1 /\ event' = "started"
    /\ UNCHANGED <<appState, rules, stuck, box, badges, questioning, mishaps>>
(* The rules go, then the core, and then the page is told.                 *)
StopXray ==
    /\ core = "stopping" /\ event = "none" /\ rules' = stuck /\ core' = "idle" /\ event' = "stopped"
    /\ UNCHANGED <<appState, sessions, stuck, box, badges, questioning, mishaps>>

(* The page hears of it.                                                   *)
(* Mutant: it asks at the end of a session only.                           *)
AskNothing == UNCHANGED questioning
AskOfStart == Ask(Both)
onStarted ==
    /\ event = "started" /\ event' = "none" /\ appState' = "on" /\ AskOfStart
    /\ UNCHANGED <<sessions, core, rules, stuck, box, badges, mishaps>>
onStopped ==
    /\ event = "stopped" /\ event' = "none" /\ Ask(Both)
    /\ UNCHANGED <<appState, sessions, core, rules, stuck, box, badges, mishaps>>

(* The box, in the window or from the tray.                                *)
ToggleBox(kinds) ==
    /\ box' = ~box /\ Ask(kinds)
    /\ UNCHANGED <<appState, sessions, core, rules, stuck, event, badges, mishaps>>

(* GetKillSwitchState, and the page's answer to it.                        *)
GetKillSwitchState(q) ==
    /\ q.reading = "none"
    /\ questions' = (questions \ {q}) \cup {[q EXCEPT !.reading = IF rules THEN "up" ELSE "down"]}
    /\ UNCHANGED <<session, badges, asked, mishaps>>
PillOf(active) ==
    CASE stuck -> "stuck"
      [] ~stuck /\ ~box -> "off"
      [] ~stuck /\ box /\ appState = "on" -> IF active THEN "active" ELSE "pending"
      [] OTHER -> "standby"
(* A reading that is no longer true, and that no newer one will replace.   *)
Crossed(q) ==
    LET stale == (q.reading = "up") # rules
        settled == event = "none" /\ core \notin {"armed", "stopping"}
                   /\ \A p \in questions : p.of = q.of => p.id <= q.id
    IN  mishaps' = IF stale /\ settled THEN mishaps \cup {"crossed"} ELSE mishaps
refreshKillSwitchStatus(q) ==
    /\ q.of = "pill" /\ q.reading # "none" /\ questions' = questions \ {q}
    /\ pill' = PillOf(q.reading = "up") /\ Crossed(q)
    /\ UNCHANGED <<session, badge, killSwitchArmed, killSwitchStuckReported, asked>>
refreshKillSwitchBadge(q) ==
    /\ q.of = "badge" /\ q.reading # "none" /\ questions' = questions \ {q}
    /\ killSwitchArmed' = (q.reading = "up")
    /\ badge' = (q.reading = "up" \/ (stuck /\ ~killSwitchStuckReported))
    /\ killSwitchStuckReported' = (killSwitchStuckReported \/ stuck) /\ Crossed(q)
    /\ UNCHANGED <<session, pill, asked>>

Next ==
    \/ startConnection \/ restartCore \/ disconnect \/ enableKillSwitch \/ Refused \/ CoreIsUp
    \/ StopXray \/ onStarted \/ onStopped \/ ToggleBox(Both) \/ ToggleBox({"pill"})
    \/ \E q \in questions :
          GetKillSwitchState(q) \/ refreshKillSwitchStatus(q) \/ refreshKillSwitchBadge(q)

Spec == Init /\ [][Next]_vars

AtRest == questions = {} /\ event = "none" /\ core \in {"idle", "running"}
(* When nothing is under way, the badge of the home tab, and what the      *)
(* watchdog's message is worded by, say whether the rules stand, and the   *)
(* pill agrees with them and the box; unless readings crossed, or a start  *)
(* that failed took the rules of the session before it away.               *)
BadgeIsTrue ==
    AtRest /\ mishaps \cap {"crossed", "refused"} = {} =>
        badge = rules /\ killSwitchArmed = rules /\ pill = PillOf(rules)
(* ... and without the exceptions: a pill that says off while rules stand. *)
PillTellsOfRules == AtRest /\ pill = "off" => ~rules
=============================================================================
