------------------------------ MODULE Traffic -------------------------------
(***************************************************************************)
(* The traffic totals of a session (service.go, vpn.go): the core reports  *)
(* what it carried in each second to whoever reads its stream, a monitor   *)
(* adds each report to the totals, and whoever starts, restarts, recovers  *)
(* or stops a session resets the totals and replaces the monitor.          *)
(*                                                                         *)
(* One of these calls runs at a time: how they meet is Session's.  What    *)
(* else a call sets up, and the pauses and log notices of a monitor, are   *)
(* left out.                                                               *)
(***************************************************************************)
EXTENDS Naturals

CONSTANTS MaxCalls, MaxSeconds   \* bounds

ASSUME TrafficAssumption == MaxCalls \in Nat /\ MaxSeconds \in Nat

VARIABLES
    call,          \* what runs, and the step it is before
    calls,         \* bounded counter; names calls, secrets, cores and monitors
    dog,           \* a watchdog looks after the session
    clashSecret,
    core,          \* the running core: its secret and the session it is for
    session,       \* the session as the user counts them
    monitors,      \* those that have not returned
    cancelMonitor, \* the monitor it cancels, 0: nil
    total,         \* sessionUp and sessionDown: the reports added
    second,        \* bounded counter
    counted,       \* history: every report ever added
    over,          \* history: a start ran while a monitor was not cancelled
    unreset        \* history: a switch to another server was refused before it reset

callVars == <<call, calls, dog>>
trafficVars == <<callVars, clashSecret, core, session, monitors, cancelMonitor, total, second,
          counted, over, unreset>>

Ids == 1..MaxCalls
Down == [secret |-> 0, session |-> 0]
Reports == [core: Ids, session: Ids, second: 1..MaxSeconds]
(* stream is the core whose answers a monitor reads, 0 while it waits;     *)
(* sent is what has come over it, read what is decoded and not yet added.  *)
Monitor == [id: Ids, cancelled: BOOLEAN, stream: 0..MaxCalls, sent: SUBSET Reports,
            read: {{}} \cup {{r} : r \in Reports}]

TrafficTypeOK ==
    /\ call \in [kind: {"none", "start", "restart", "recover", "switch", "stop"},
                 at: {"end", "cancel", "close", "secret", "config", "open", "monitor"}]
    /\ {calls, clashSecret, session, cancelMonitor} \subseteq 0..MaxCalls
    /\ second \in 0..MaxSeconds
    /\ core \in [secret: Ids, session: Ids] \cup {Down}
    /\ \A m \in monitors : m \in Monitor
    /\ \A r \in counted : r.of \in Reports /\ r.via \in Ids
    /\ total \subseteq counted
    /\ {dog, over, unreset} \subseteq BOOLEAN

NoCall == [kind |-> "none", at |-> "end"]
TrafficInit ==
    /\ call = NoCall /\ calls = 0 /\ dog = FALSE
    /\ clashSecret = 0 /\ core = Down /\ session = 0
    /\ monitors = {} /\ cancelMonitor = 0 /\ total = {} /\ second = 0
    /\ counted = {} /\ over = FALSE /\ unreset = FALSE

(***************************************************************************)
(* Calls                                                                   *)
(***************************************************************************)
Totals == UNCHANGED <<total, counted, second>>
Monitors == UNCHANGED <<monitors, cancelMonitor>>
History == UNCHANGED <<over, unreset>>

Begin(kind, step) ==
    /\ call = NoCall /\ calls < MaxCalls /\ calls' = calls + 1
    /\ call' = [kind |-> kind, at |-> step]
    /\ UNCHANGED <<clashSecret, core, unreset>> /\ Monitors /\ Totals
StartXray ==
    /\ Begin("start", "secret") /\ over' = (over \/ cancelMonitor # 0)
    /\ UNCHANGED <<dog, session>>
RestartXray == Begin("restart", "cancel") /\ dog' = FALSE /\ UNCHANGED <<session, over>>
StopXray == Begin("stop", "cancel") /\ dog' = FALSE /\ UNCHANGED <<session, over>>
(* The watchdog; the event of a switch has told the window of a new        *)
(* session before the core is restarted for it.                            *)
Recover == dog /\ Begin("recover", "close") /\ UNCHANGED <<dog, session, over>>
SwitchToLiveServer ==
    /\ dog /\ Begin("switch", "close") /\ session' = calls' /\ UNCHANGED <<dog, over>>

GoOn(step) == call' = [call EXCEPT !.at = step] /\ UNCHANGED <<calls, dog>>
Return == call' = NoCall /\ UNCHANGED calls

(* StopXray and RestartXray cancel the monitor and close the core, the     *)
(* watchdog does so the other way round.  Cancelled, a monitor returns     *)
(* unless it has a report to add.                                          *)
Cancelled(id) ==
    {m \in monitors : m.id # id} \cup
    {[m EXCEPT !.cancelled = TRUE, !.stream = 0, !.sent = {}] :
        m \in {n \in monitors : n.id = id /\ n.read # {}}}
Cancel ==
    /\ call.at = "cancel" /\ monitors' = Cancelled(cancelMonitor) /\ cancelMonitor' = 0
    /\ GoOn(IF call.kind \in {"stop", "restart"} THEN "close" ELSE "secret")
    /\ UNCHANGED <<clashSecret, core, session>> /\ Totals /\ History

Broken == {[m EXCEPT !.stream = 0] : m \in monitors}
Close ==
    /\ call.at = "close" /\ core' = Down /\ monitors' = Broken
    /\ CASE call.kind = "stop" -> Return /\ UNCHANGED dog
         [] call.kind = "restart" -> GoOn("secret")
         [] OTHER -> GoOn("cancel")
    /\ UNCHANGED <<clashSecret, session, cancelMonitor>> /\ Totals /\ History

(* startCore may refuse before the reset.  A switch refused there is not   *)
(* tried again as one: the next attempt is a recovery (watchdog.go:243).   *)
Refuse ==
    /\ call.at \in {"secret", "config"} /\ Return /\ UNCHANGED dog
    /\ unreset' = (unreset \/ call.kind = "switch")
    /\ UNCHANGED <<clashSecret, core, session, over>> /\ Monitors /\ Totals
NewSecret ==
    /\ call.at = "secret" /\ clashSecret' = calls /\ GoOn("config")
    /\ UNCHANGED <<core, session>> /\ Monitors /\ Totals /\ History

(* Only a recovery goes on with the session there is.                      *)
AlwaysNew(kind) == TRUE
NewSession(kind) == kind # "recover"
ResetSessionTraffic ==
    /\ call.at = "config" /\ GoOn("open")
    /\ IF NewSession(call.kind) THEN total' = {} ELSE UNCHANGED total
    /\ session' = (IF call.kind \in {"start", "restart"} THEN calls ELSE session)
    /\ UNCHANGED <<clashSecret, core, counted, second>> /\ Monitors /\ History

(* CoreManager.Start closes the core that runs.  Starting the new one, or  *)
(* arming the kill switch after it, may fail.                              *)
CoreFails ==
    /\ call.at = "open" /\ core' = Down /\ monitors' = Broken /\ Return
    /\ UNCHANGED <<dog, clashSecret, session, cancelMonitor>> /\ Totals /\ History
CoreStarts ==
    /\ call.at = "open" /\ core' = [secret |-> clashSecret, session |-> session]
    /\ monitors' = Broken /\ GoOn("monitor")
    /\ UNCHANGED <<clashSecret, session, cancelMonitor>> /\ Totals /\ History
Fresh(id) == [id |-> id, cancelled |-> FALSE, stream |-> 0, sent |-> {}, read |-> {}]
StartMonitor ==
    /\ call.at = "monitor" /\ Return /\ dog' = TRUE
    /\ monitors' = Cancelled(cancelMonitor) \cup {Fresh(calls)} /\ cancelMonitor' = calls
    /\ UNCHANGED <<clashSecret, core, session>> /\ Totals /\ History

(***************************************************************************)
(* startTrafficMonitor and streamTraffic, one monitor at a time            *)
(***************************************************************************)
CallsWait == UNCHANGED <<callVars, clashSecret, core, session, cancelMonitor>> /\ History
Becomes(m, n) == monitors' = (monitors \ {m}) \cup {n}

(* A second passes, and the core reports it to every open stream.          *)
Second ==
    /\ core # Down /\ second < MaxSeconds /\ second' = second + 1
    /\ LET report == [core |-> core.secret, session |-> core.session, second |-> second + 1]
       IN monitors' = {IF m.stream = core.secret THEN [m EXCEPT !.sent = @ \cup {report}]
                       ELSE m : m \in monitors}
    /\ CallsWait /\ UNCHANGED <<total, counted>>

(* The core answers whoever brings the secret it was given; what was left  *)
(* unread in a broken stream is lost.                                      *)
Connect(m) ==
    /\ ~m.cancelled /\ m.stream = 0 /\ m.read = {}
    /\ core # Down /\ clashSecret = core.secret
    /\ Becomes(m, [m EXCEPT !.stream = core.secret, !.sent = {}])
    /\ CallsWait /\ Totals
Decode(m) ==
    /\ m.read = {}
    /\ \E r \in m.sent : Becomes(m, [m EXCEPT !.sent = @ \ {r}, !.read = {r}])
    /\ CallsWait /\ Totals
(* The lock is taken only now, whatever has happened since; a cancelled    *)
(* monitor then looks at its context and returns.                          *)
AddSessionTraffic(m) ==
    /\ \E r \in m.read :
         LET added == [of |-> r, via |-> m.id]
         IN total' = total \cup {added} /\ counted' = counted \cup {added}
    /\ monitors' = (monitors \ {m}) \cup
                   (IF m.cancelled THEN {} ELSE {[m EXCEPT !.read = {}]})
    /\ CallsWait /\ UNCHANGED second

TrafficNext ==
    \/ StartXray \/ RestartXray \/ StopXray \/ Recover \/ SwitchToLiveServer
    \/ Cancel \/ Close \/ Refuse \/ NewSecret \/ ResetSessionTraffic
    \/ CoreFails \/ CoreStarts \/ StartMonitor \/ Second
    \/ \E m \in monitors : Connect(m) \/ Decode(m) \/ AddSessionTraffic(m)
TrafficSpec == TrafficInit /\ [][TrafficNext]_trafficVars

(* The totals are those of the session the user sees: a recovery loses     *)
(* nothing of it, no second is counted twice, and once its core runs there *)
(* is of earlier sessions at most the one report each monitor held when it *)
(* was cancelled.  The last is not so of a start over a session that was   *)
(* not taken down first, and of a switch refused and then tried again.     *)
TotalsAreTheSessions ==
    LET strays == {r \in total : r.of.session # session} IN
    /\ {r \in counted : r.of.session = session} \subseteq total
    /\ \A r, q \in total : r.of = q.of => r = q
    /\ core.session = session /\ ~over /\ ~unreset =>
           \A r, q \in strays : r.via = q.via => r = q
=============================================================================
