---------------------------- MODULE OutsideAddress ----------------------------
(***************************************************************************)
(* The outside address the home tab shows (fetchIP in ui-utils.ts): asked  *)
(* for two seconds after a session has begun, in up to RetryCount attempts *)
(* with a limit and a pause each.  Nothing ends a search whose session is  *)
(* over, and it writes where the page has got to by then.                  *)
(***************************************************************************)
EXTENDS Naturals, FiniteSets

CONSTANTS MaxSessions, RetryCount

OutsideAddressAssumption == MaxSessions \in Nat /\ RetryCount \in Nat \ {0}

VARIABLES
    appState, sessions,  \* the page's state; a session's number is its name
    running,             \* the core runs
    currentIp,           \* none, wait, error, or an address: the session whose way it is
    fetches,             \* searches under way
    late                 \* history: a search wrote after its session

vars == <<appState, sessions, running, currentIp, fetches, late>>

Sessions == 1..MaxSessions
Provider == 0            \* the address there is without a session
Says == ({"none", "wait", "error"} \X {Provider}) \cup ({"address"} \X (0..MaxSessions))

TypeOK ==
    /\ appState \in {"off", "connecting", "on"} /\ sessions \in 0..MaxSessions
    /\ running \in BOOLEAN /\ currentIp \in Says /\ late \in BOOLEAN
    /\ fetches \subseteq [session: Sessions, left: 1..RetryCount, at: {"delay", "pause", "asking"},
                          route: 0..MaxSessions]

Init ==
    /\ appState = "off" /\ sessions = 0 /\ running = FALSE /\ currentIp = <<"none", Provider>>
    /\ fetches = {} /\ late = FALSE

(* updateAppInterface, as far as the address goes: it is unknown while a   *)
(* session begins and none when there is none; a session that has begun,   *)
(* and not one that is only drawn anew, has a search of its own.           *)
IpIn(state) ==
    CASE state = "connecting" -> <<"wait", Provider>>
      [] state = "off" -> <<"none", Provider>>
      [] OTHER -> currentIp
updateAppInterface(state) ==
    /\ appState' = state /\ currentIp' = IpIn(state)
    /\ fetches' = IF state = "on" /\ appState # "on"
                  THEN fetches \cup {[session |-> sessions, left |-> RetryCount, at |-> "delay",
                                      route |-> Provider]}
                  ELSE fetches

startConnection ==
    /\ appState = "off" /\ sessions < MaxSessions /\ sessions' = sessions + 1
    /\ updateAppInterface("connecting") /\ UNCHANGED <<running, late>>
(* A restart takes the core down and up behind the page's back.            *)
restartCore ==
    /\ appState = "on" /\ sessions < MaxSessions /\ sessions' = sessions + 1
    /\ running' = FALSE /\ updateAppInterface("connecting") /\ UNCHANGED late
onStarted ==
    /\ appState = "connecting" /\ running' = TRUE /\ updateAppInterface("on")
    /\ UNCHANGED <<sessions, late>>
disconnect ==
    /\ appState # "off" /\ running' = FALSE /\ updateAppInterface("off")
    /\ UNCHANGED <<sessions, late>>
applyLanguage ==
    /\ updateAppInterface(appState) /\ UNCHANGED <<sessions, running, late>>

(* A request goes the way of the traffic when it is made.                  *)
Late(f) == late' = (late \/ f.session # sessions \/ appState # "on")
Attempt(f) ==
    /\ f.at # "asking"
    /\ fetches' = (fetches \ {f}) \cup
           {[f EXCEPT !.at = "asking", !.route = IF running THEN sessions ELSE Provider]}
    /\ IF f.at = "delay" THEN currentIp' = <<"wait", Provider>> /\ Late(f)
       ELSE UNCHANGED <<currentIp, late>>
    /\ UNCHANGED <<appState, sessions, running>>
Answered(f) ==
    /\ f.at = "asking" /\ fetches' = fetches \ {f} /\ currentIp' = <<"address", f.route>> /\ Late(f)
    /\ UNCHANGED <<appState, sessions, running>>
Failed(f) ==
    /\ f.at = "asking"
    /\ IF f.left > 1
       THEN /\ fetches' = (fetches \ {f}) \cup {[f EXCEPT !.at = "pause", !.left = @ - 1]}
            /\ UNCHANGED <<currentIp, late>>
       ELSE fetches' = fetches \ {f} /\ currentIp' = <<"error", Provider>> /\ Late(f)
    /\ UNCHANGED <<appState, sessions, running>>

Next ==
    \/ startConnection \/ restartCore \/ onStarted \/ disconnect \/ applyLanguage
    \/ \E f \in fetches : Attempt(f) \/ Answered(f) \/ Failed(f)

Spec == Init /\ [][Next]_vars

(* The address shown to a session is its own, none is shown without one,   *)
(* and the page waits for one only while somebody looks for it; unless a   *)
(* search wrote after its session.                                         *)
AddressIsCurrent ==
    ~late =>
        /\ currentIp[1] = "address" => appState = "on" /\ currentIp[2] = sessions
        /\ appState = "off" => currentIp[1] = "none"
        /\ currentIp[1] = "wait" /\ appState = "on" =>
              \E f \in fetches : f.session = sessions
=============================================================================
