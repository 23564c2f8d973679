------------------------------ MODULE Session ------------------------------
(***************************************************************************)
(* The session lifecycle of NeoBox: AppService.startCore, StopXray,        *)
(* RestartXray, Quit and RequestAdmin (backend/service/vpn.go, service.go, *)
(* elevation.go), the embedded core they drive (backend/core/manager.go)   *)
(* and the watchdog goroutines that restart it (watchdog.go).              *)
(*                                                                         *)
(* Wails runs every bound method on a goroutine of its own and nothing in  *)
(* AppService serialises a whole call: the locks guard single fields.  So  *)
(* a thread advances by one critical section or one external call at a     *)
(* time, pc[t] names the next one, and threads interleave freely.          *)
(*                                                                         *)
(* Threads are the callers of the bound methods (the window, the tray) and *)
(* the watchdog goroutines.  What decides when a watchdog trips is in      *)
(* module Watchdog, the steps inside one firewall or proxy change in       *)
(* KillSwitch and SystemProxy, the buffered log lines in LogStream; the    *)
(* traffic totals are not modelled here.                                   *)
(***************************************************************************)
EXTENDS Naturals, FiniteSets

CONSTANTS
    Links,       \* proxy links the user owns
    NoLink,      \* no link: nothing running, no firewall exception
    Callers,     \* goroutines Wails may run bound methods on
    Watchdogs,   \* bound: goroutines startWatchdog may occupy at one time
    MaxCalls,    \* bound: calls of the user in one behaviour
    NoOne,       \* no thread
    Choices,     \* the settings the user may save
    ProxyModes,  \* what the window may pass for useSystemProxy
    Elevated     \* whether this process holds administrator rights

ASSUME SessionAssumption ==
    /\ Links # {} /\ NoLink \notin Links
    /\ Callers \cap Watchdogs = {}
    /\ NoOne \notin Callers \cup Watchdogs
    /\ Choices # {} /\ Choices \subseteq [tun: BOOLEAN, killSwitch: BOOLEAN]
    /\ ProxyModes # {} /\ ProxyModes \subseteq BOOLEAN
    /\ Elevated \in BOOLEAN
    /\ MaxCalls \in Nat

VARIABLES
    alive,          \* the process runs
    quitOnce,       \* quitOnce has fired
    settings,       \* settings.json, as far as startCore reads it
    core,           \* coreManager.instance: the job its config was built from
    secretBy,       \* thread that wrote clashSecret last and is still in its call
    secretOk,       \* clashSecret is the secret the running core was given
    firewall,       \* the server the kill switch rules exempt, NoLink: no rules
    proxy,          \* the system proxy points at NeoBox
    monitor,        \* cancelMonitor is set: a traffic monitor is live
    stream,         \* logStream is set
    stranded,       \* a streamer goroutine runs that logStream lost
    tray,           \* the tray says "connected"
    wd,             \* what each watchdog goroutine is
    cancelWatchdog, \* the watchdog that field would cancel
    watchdogLink, watchdogProxy,
    pc, job,        \* where each thread is, and on what
    calls,          \* bounded: calls the user has made
    overlapped,     \* history: two calls have run at the same time
    stopped,        \* history: StopXray returned, and no call since
    refused         \* history: a start got as far as a new secret, and no core since

Threads == Callers \cup Watchdogs

(* What one start of the core works on.  The two settings are read by the  *)
(* call itself, never taken from its arguments.                            *)
Job == [link: Links \cup {NoLink}, sys: BOOLEAN, tun: BOOLEAN, killSwitch: BOOLEAN]
Request(link, sys) == [link |-> link, sys |-> sys, tun |-> FALSE, killSwitch |-> FALSE]
NoJob == Request(NoLink, FALSE)

procVars == <<pc, job>>
coreVars == <<core, secretBy, secretOk>>
osVars   == <<firewall, proxy>>
uiVars   == <<monitor, stream, stranded, tray>>
dogVars  == <<wd, cancelWatchdog, watchdogLink, watchdogProxy>>
lifeVars == <<alive, quitOnce, settings>>
histVars == <<calls, overlapped, stopped, refused>>
vars == <<procVars, coreVars, osVars, uiVars, dogVars, lifeVars, histVars>>

StartLabels == {"check", "secret", "config", "stopStream", "newStream", "coreStart",
                "arm", "proxy", "monitor", "tray", "spawn",
                "failStream", "unarmCore", "unarmStream", "unarm"}
QuitLabels  == {"qWatchdog", "qCore", "qProxy", "qFirewall"}
AdminLabels == {"aWatchdog", "aCore", "aProxy", "aFirewall", "aExit"}
CallLabels  == {"xWatchdog", "xProxy", "xFirewall", "xMonitor", "xCore", "xStream", "xTray",
                "rWatchdog", "rMonitor", "rCore", "rStream"} \cup QuitLabels \cup AdminLabels
DogLabels   == {"switch", "read", "dogStop", "dogMonitor", "dogCheck"}

ProcOK ==
    /\ pc \in [Threads -> {"idle"} \cup StartLabels \cup CallLabels \cup DogLabels]
    /\ job \in [Threads -> Job]
CoreOK == core \in Job /\ secretBy \in Threads \cup {NoOne} /\ secretOk \in BOOLEAN
OsOK   == firewall \in Links \cup {NoLink} /\ proxy \in BOOLEAN
UiOK   == monitor \in BOOLEAN /\ stream \in BOOLEAN /\ stranded \in BOOLEAN /\ tray \in BOOLEAN
DogOK  ==
    /\ wd \in [Watchdogs -> {"free", "pending", "running", "cancelled"}]
    /\ cancelWatchdog \in Watchdogs \cup {NoOne}
    /\ watchdogLink \in Links \cup {NoLink} /\ watchdogProxy \in BOOLEAN
LifeOK == alive \in BOOLEAN /\ quitOnce \in BOOLEAN /\ settings \in Choices
HistOK ==
    /\ calls \in 0..MaxCalls
    /\ overlapped \in BOOLEAN /\ stopped \in BOOLEAN /\ refused \in BOOLEAN

TypeOK == ProcOK /\ CoreOK /\ OsOK /\ UiOK /\ DogOK /\ LifeOK /\ HistOK

Init ==
    /\ alive = TRUE /\ quitOnce = FALSE /\ settings \in Choices
    /\ core = NoJob /\ secretBy = NoOne /\ secretOk = FALSE
    /\ firewall = NoLink /\ proxy = FALSE
    /\ monitor = FALSE /\ stream = FALSE /\ stranded = FALSE /\ tray = FALSE
    /\ wd = [w \in Watchdogs |-> "free"] /\ cancelWatchdog = NoOne
    /\ watchdogLink = NoLink /\ watchdogProxy = FALSE
    /\ pc = [t \in Threads |-> "idle"] /\ job = [t \in Threads |-> NoJob]
    /\ calls = 0 /\ overlapped = FALSE /\ stopped = FALSE /\ refused = FALSE

(***************************************************************************)
(* Threads.                                                                *)
(***************************************************************************)
Quiet == /\ \A t \in Threads : pc[t] = "idle"
         /\ \A w \in Watchdogs : wd[w] # "pending"

At(t, label) == alive /\ pc[t] = label

Goto(t, label) == pc' = [pc EXCEPT ![t] = label] /\ UNCHANGED job

(* A thread takes up work, or a call of the user: either overlaps when it  *)
(* finds a call under way, a watchdog not registered yet or the process    *)
(* quitting.                                                               *)
Begin(t, label, j) ==
    /\ At(t, "idle")
    /\ pc' = [pc EXCEPT ![t] = label]
    /\ job' = [job EXCEPT ![t] = j]
    /\ overlapped' = (overlapped \/ ~Quiet \/ quitOnce)
    /\ UNCHANGED refused

BeginCall(t, label, j) ==
    /\ Begin(t, label, j)
    /\ calls < MaxCalls /\ calls' = calls + 1
    /\ stopped' = FALSE

Return(t) ==
    /\ pc' = [pc EXCEPT ![t] = "idle"]
    /\ job' = [job EXCEPT ![t] = NoJob]

ForgetSecret(t) == secretBy' = IF secretBy = t THEN NoOne ELSE secretBy

EndStart(t) == Return(t) /\ ForgetSecret(t)

StopCore == core' = NoJob /\ secretOk' = FALSE

(* cancelWatchdog(), then the field is cleared or taken over by w.         *)
CancelFor(w) ==
    /\ wd' = [v \in Watchdogs |->
                IF v = w THEN "running"
                ELSE IF v = cancelWatchdog /\ wd[v] = "running" THEN "cancelled"
                ELSE wd[v]]
    /\ cancelWatchdog' = w

StopWatchdog(t, here, next) ==
    /\ At(t, here)
    /\ CancelFor(NoOne)
    /\ Goto(t, next)
    /\ UNCHANGED <<watchdogLink, watchdogProxy, coreVars, osVars, uiVars, lifeVars, histVars>>

(***************************************************************************)
(* startCore.                                                              *)
(***************************************************************************)
StartXray(t, link, sys) ==
    /\ BeginCall(t, "check", Request(link, sys))
    /\ UNCHANGED <<coreVars, osVars, uiVars, dogVars, lifeVars>>

NeedsAdmin == settings.tun \/ settings.killSwitch

(* "admin_required", unreadable settings, a link that does not parse, no   *)
(* randomness for a secret: back before anything was touched.              *)
RefuseStart(t) ==
    /\ At(t, "check")
    /\ EndStart(t)
    /\ UNCHANGED <<core, secretOk, osVars, uiVars, dogVars, lifeVars, histVars>>

AdmitStart(t) ==
    /\ At(t, "check")
    /\ NeedsAdmin => Elevated
    /\ pc' = [pc EXCEPT ![t] = "secret"]
    /\ job' = [job EXCEPT ![t].tun = settings.tun, ![t].killSwitch = settings.killSwitch]
    /\ UNCHANGED <<coreVars, osVars, uiVars, dogVars, lifeVars, histVars>>

NewSecret(t) ==
    /\ At(t, "secret")
    /\ secretBy' = t /\ secretOk' = FALSE
    /\ Goto(t, "config")
    /\ UNCHANGED <<core, osVars, uiVars, dogVars, lifeVars, histVars>>

(* GenerateConfig rejects a custom DNS address it cannot use.              *)
ConfigFails(t) ==
    /\ At(t, "config")
    /\ refused' = TRUE
    /\ EndStart(t)
    /\ UNCHANGED <<core, secretOk, osVars, uiVars, dogVars, lifeVars, calls, overlapped, stopped>>

ConfigOk(t) ==
    /\ At(t, "config")
    /\ Goto(t, "stopStream")
    /\ UNCHANGED <<coreVars, osVars, uiVars, dogVars, lifeVars, histVars>>

(* Mutant: the field is read, nothing is stopped.                          *)
StopLogStreamSkipped(t, here, next) ==
    /\ At(t, here)
    /\ Goto(t, next)
    /\ UNCHANGED <<coreVars, osVars, uiVars, dogVars, lifeVars, histVars>>

StopLogStream(t, here, next) ==
    /\ At(t, here)
    /\ stream' = FALSE
    /\ Goto(t, next)
    /\ UNCHANGED <<coreVars, osVars, monitor, stranded, tray, dogVars, lifeVars, histVars>>

NewLogStream(t) ==
    /\ At(t, "newStream")
    /\ stranded' = (stranded \/ stream)
    /\ stream' = TRUE
    /\ Goto(t, "coreStart")
    /\ UNCHANGED <<coreVars, osVars, monitor, tray, dogVars, lifeVars, histVars>>

(* CoreManager.Start, under its mutex: a running instance is stopped first *)
(* and does not come back when the new one fails.                          *)
CoreStarts(t) ==
    /\ At(t, "coreStart")
    /\ core' = job[t]
    /\ secretOk' = (secretBy = t) /\ refused' = FALSE
    /\ Goto(t, "arm")
    /\ UNCHANGED <<secretBy, osVars, uiVars, dogVars, lifeVars, calls, overlapped, stopped>>

CoreFails(t) ==
    /\ At(t, "coreStart")
    /\ StopCore
    /\ Goto(t, "failStream")
    /\ UNCHANGED <<secretBy, osVars, uiVars, dogVars, lifeVars, histVars>>

EndFailedStart(t) ==
    /\ At(t, "failStream")
    /\ stream' = FALSE
    /\ EndStart(t)
    /\ UNCHANGED <<core, secretOk, osVars, monitor, stranded, tray, dogVars, lifeVars, histVars>>

(* enableKillSwitch replaces the rules of any earlier server; without the  *)
(* setting whatever rules there are stay.                                  *)
ArmKillSwitch(t) ==
    /\ At(t, "arm")
    /\ firewall' = IF job[t].killSwitch THEN job[t].link ELSE firewall
    /\ Goto(t, "proxy")
    /\ UNCHANGED <<coreVars, proxy, uiVars, dogVars, lifeVars, histVars>>

(* The server does not resolve (rules untouched) or netsh fails (rules     *)
(* gone): the start is undone, its kill switch included.                   *)
ArmFails(t) ==
    /\ At(t, "arm") /\ job[t].killSwitch
    /\ firewall' \in {firewall, NoLink}
    /\ Goto(t, "unarmCore")
    /\ UNCHANGED <<coreVars, proxy, uiVars, dogVars, lifeVars, histVars>>

UnarmCore(t) ==
    /\ At(t, "unarmCore")
    /\ StopCore
    /\ Goto(t, "unarmStream")
    /\ UNCHANGED <<secretBy, osVars, uiVars, dogVars, lifeVars, histVars>>

Unarm(t) ==
    /\ At(t, "unarm")
    /\ firewall' = NoLink
    /\ EndStart(t)
    /\ UNCHANGED <<core, secretOk, proxy, uiVars, dogVars, lifeVars, histVars>>

SetProxy(t) ==
    /\ At(t, "proxy")
    /\ proxy' = (job[t].sys /\ ~job[t].tun)
    /\ Goto(t, "monitor")
    /\ UNCHANGED <<coreVars, firewall, uiVars, dogVars, lifeVars, histVars>>

StartMonitor(t) ==
    /\ At(t, "monitor")
    /\ monitor' = TRUE
    /\ Goto(t, "tray")
    /\ UNCHANGED <<coreVars, osVars, stream, stranded, tray, dogVars, lifeVars, histVars>>

TrayConnected(t) ==
    /\ At(t, "tray")
    /\ tray' = TRUE
    /\ Goto(t, "spawn")
    /\ UNCHANGED <<coreVars, osVars, monitor, stream, stranded, dogVars, lifeVars, histVars>>

(* Mutant: the core is up and nobody watches it.                           *)
SpawnNothing(t) ==
    /\ At(t, "spawn")
    /\ EndStart(t)
    /\ UNCHANGED <<core, secretOk, osVars, uiVars, dogVars, lifeVars, histVars>>

(* go s.startWatchdog(...): the goroutine exists, but registers later.     *)
SpawnWatchdog(t) ==
    /\ At(t, "spawn")
    /\ \E w \in Watchdogs :
         /\ wd[w] = "free"
         /\ wd' = [wd EXCEPT ![w] = "pending"]
         /\ pc' = [pc EXCEPT ![t] = "idle"]
         /\ job' = [job EXCEPT ![t] = NoJob, ![w] = Request(job[t].link, job[t].sys)]
    /\ ForgetSecret(t)
    /\ UNCHANGED <<core, secretOk, osVars, uiVars, cancelWatchdog, watchdogLink,
                   watchdogProxy, lifeVars, histVars>>

StartCore(t) ==
    \/ RefuseStart(t)  \/ AdmitStart(t)
    \/ NewSecret(t)
    \/ ConfigFails(t)  \/ ConfigOk(t)
    \/ StopLogStream(t, "stopStream", "newStream") \/ NewLogStream(t)
    \/ CoreStarts(t)   \/ CoreFails(t) \/ EndFailedStart(t)
    \/ ArmKillSwitch(t) \/ ArmFails(t)
    \/ UnarmCore(t) \/ StopLogStream(t, "unarmStream", "unarm") \/ Unarm(t)
    \/ SetProxy(t) \/ StartMonitor(t) \/ TrayConnected(t) \/ SpawnWatchdog(t)

(***************************************************************************)
(* StopXray, RestartXray and Quit share their steps and differ in order.   *)
(***************************************************************************)
(* Mutant: StopXray and Quit forget the system proxy.                      *)
ProxyOffSkipped(t, here, next) ==
    /\ At(t, here)
    /\ Goto(t, next)
    /\ UNCHANGED <<coreVars, osVars, uiVars, dogVars, lifeVars, histVars>>

ProxyOff(t, here, next) ==
    /\ At(t, here)
    /\ proxy' = FALSE
    /\ Goto(t, next)
    /\ UNCHANGED <<coreVars, firewall, uiVars, dogVars, lifeVars, histVars>>

KillSwitchOff(t, here, next) ==
    /\ At(t, here)
    /\ firewall' = NoLink
    /\ Goto(t, next)
    /\ UNCHANGED <<coreVars, proxy, uiVars, dogVars, lifeVars, histVars>>

CancelMonitor(t, here, next) ==
    /\ At(t, here)
    /\ monitor' = FALSE
    /\ Goto(t, next)
    /\ UNCHANGED <<coreVars, osVars, stream, stranded, tray, dogVars, lifeVars, histVars>>

CoreStop(t, here, next) ==
    /\ At(t, here)
    /\ StopCore
    /\ Goto(t, next)
    /\ UNCHANGED <<secretBy, osVars, uiVars, dogVars, lifeVars, histVars>>

BeginStop(t) ==
    /\ BeginCall(t, "xWatchdog", NoJob)
    /\ UNCHANGED <<coreVars, osVars, uiVars, dogVars, lifeVars>>

TrayDisconnected(t) ==
    /\ At(t, "xTray")
    /\ tray' = FALSE
    /\ Return(t)
    /\ stopped' = TRUE
    /\ UNCHANGED <<coreVars, osVars, monitor, stream, stranded, dogVars, lifeVars, calls, overlapped, refused>>

StopXray(t) ==
    \/ BeginStop(t)
    \/ StopWatchdog(t, "xWatchdog", "xProxy")
    \/ ProxyOff(t, "xProxy", "xFirewall")
    \/ KillSwitchOff(t, "xFirewall", "xMonitor")
    \/ CancelMonitor(t, "xMonitor", "xCore")
    \/ CoreStop(t, "xCore", "xStream")
    \/ StopLogStream(t, "xStream", "xTray")
    \/ TrayDisconnected(t)

BeginRestart(t, link, sys) ==
    /\ BeginCall(t, "rWatchdog", Request(link, sys))
    /\ UNCHANGED <<coreVars, osVars, uiVars, dogVars, lifeVars>>

RestartXray(t) ==
    \/ \E link \in Links, sys \in ProxyModes : BeginRestart(t, link, sys)
    \/ StopWatchdog(t, "rWatchdog", "rMonitor")
    \/ CancelMonitor(t, "rMonitor", "rCore")
    \/ CoreStop(t, "rCore", "rStream")
    \/ StopLogStream(t, "rStream", "check")

(* Quit: sync.Once, and the process may end any time after it is done.     *)
BeginQuit(t) ==
    /\ ~quitOnce
    /\ BeginCall(t, "qWatchdog", NoJob)
    /\ quitOnce' = TRUE
    /\ UNCHANGED <<coreVars, osVars, uiVars, dogVars, alive, settings>>

(* Mutant: Quit leaves the firewall rules in place.                        *)
EndQuitKeepsRules(t) ==
    /\ At(t, "qFirewall")
    /\ Return(t)
    /\ UNCHANGED <<coreVars, osVars, uiVars, dogVars, lifeVars, histVars>>

EndQuit(t) ==
    /\ At(t, "qFirewall")
    /\ firewall' = NoLink
    /\ Return(t)
    /\ UNCHANGED <<coreVars, proxy, uiVars, dogVars, lifeVars, histVars>>

Exit ==
    /\ alive /\ quitOnce
    /\ \A t \in Callers : pc[t] \notin QuitLabels
    /\ alive' = FALSE
    /\ UNCHANGED <<procVars, coreVars, osVars, uiVars, dogVars, quitOnce, settings, histVars>>

QuitCall(t) ==
    \/ BeginQuit(t)
    \/ StopWatchdog(t, "qWatchdog", "qCore")
    \/ CoreStop(t, "qCore", "qProxy")
    \/ ProxyOff(t, "qProxy", "qFirewall")
    \/ EndQuit(t)

(* RequestAdmin, once the user has let the elevated process start: the     *)
(* same cleanup as Quit in the same order, and the process is gone.        *)
BeginRelaunch(t) ==
    /\ BeginCall(t, "aWatchdog", NoJob)
    /\ UNCHANGED <<coreVars, osVars, uiVars, dogVars, lifeVars>>

ExitNow(t) ==
    /\ At(t, "aExit")
    /\ alive' = FALSE
    /\ Return(t)
    /\ UNCHANGED <<coreVars, osVars, uiVars, dogVars, quitOnce, settings, histVars>>

RequestAdmin(t) ==
    \/ BeginRelaunch(t)
    \/ StopWatchdog(t, "aWatchdog", "aCore")
    \/ CoreStop(t, "aCore", "aProxy")
    \/ ProxyOff(t, "aProxy", "aFirewall")
    \/ KillSwitchOff(t, "aFirewall", "aExit")
    \/ ExitNow(t)

SaveSettings(s) ==
    /\ alive
    /\ settings' = s
    /\ UNCHANGED <<procVars, coreVars, osVars, uiVars, dogVars, alive, quitOnce, histVars>>

(***************************************************************************)
(* The watchdog goroutine.                                                 *)
(***************************************************************************)
(* Mutants: the target of the new session is not recorded; the previous    *)
(* watchdog is not cancelled.                                              *)
RegisterKeepsTarget(w) ==
    /\ alive /\ wd[w] = "pending"
    /\ CancelFor(w)
    /\ Return(w)
    /\ UNCHANGED <<watchdogLink, watchdogProxy, coreVars, osVars, uiVars, lifeVars, histVars>>

RegisterBesideOld(w) ==
    /\ alive /\ wd[w] = "pending"
    /\ wd' = [wd EXCEPT ![w] = "running"] /\ cancelWatchdog' = w
    /\ watchdogLink' = job[w].link /\ watchdogProxy' = job[w].sys
    /\ Return(w)
    /\ UNCHANGED <<coreVars, osVars, uiVars, lifeVars, histVars>>

Register(w) ==
    /\ alive /\ wd[w] = "pending"
    /\ CancelFor(w)
    /\ watchdogLink' = job[w].link /\ watchdogProxy' = job[w].sys
    /\ Return(w)
    /\ UNCHANGED <<coreVars, osVars, uiVars, lifeVars, histVars>>

(* The proxy port stayed silent and the server answered, or another server *)
(* of the subscriptions did: a restart is due.                             *)
Trip(w) ==
    /\ wd[w] = "running"
    /\ \/ Begin(w, "read", NoJob)
       \/ \E alt \in Links \ {watchdogLink} : Begin(w, "switch", Request(alt, FALSE))
    /\ UNCHANGED <<coreVars, osVars, uiVars, dogVars, lifeVars, calls, stopped>>

SwitchServer(w) ==
    /\ At(w, "switch")
    /\ watchdogLink' = job[w].link
    /\ Goto(w, "read")
    /\ UNCHANGED <<coreVars, osVars, uiVars, wd, cancelWatchdog, watchdogProxy, lifeVars, histVars>>

ReadTarget(w) ==
    /\ At(w, "read")
    /\ pc' = [pc EXCEPT ![w] = "dogStop"]
    /\ job' = [job EXCEPT ![w] = Request(watchdogLink, watchdogProxy)]
    /\ UNCHANGED <<coreVars, osVars, uiVars, dogVars, lifeVars, histVars>>

(* Mutant: every watchdog gives up here.                                   *)
CheckCancelledAlways(w) ==
    /\ At(w, "dogCheck")
    /\ Return(w)
    /\ UNCHANGED <<coreVars, osVars, uiVars, dogVars, lifeVars, histVars>>

(* ctx.Done is looked at once, here: the goroutine of a cancelled watchdog *)
(* ends, any other one goes into startCore.                                *)
CheckCancelled(w) ==
    /\ At(w, "dogCheck")
    /\ IF wd[w] = "cancelled"
         THEN Return(w)
         ELSE Goto(w, "check")
    /\ UNCHANGED <<coreVars, osVars, uiVars, dogVars, lifeVars, histVars>>

EndWatchdog(w) ==
    /\ At(w, "idle") /\ wd[w] = "cancelled"
    /\ wd' = [wd EXCEPT ![w] = "free"]
    /\ UNCHANGED <<procVars, coreVars, osVars, uiVars, cancelWatchdog, watchdogLink,
                   watchdogProxy, lifeVars, histVars>>

Watchdog(w) ==
    \/ Register(w) \/ Trip(w)
    \/ SwitchServer(w) \/ ReadTarget(w)
    \/ CoreStop(w, "dogStop", "dogMonitor")
    \/ CancelMonitor(w, "dogMonitor", "dogCheck")
    \/ CheckCancelled(w) \/ StartCore(w) \/ EndWatchdog(w)

Caller(t) ==
    \/ \E link \in Links, sys \in ProxyModes : StartXray(t, link, sys)
    \/ StartCore(t) \/ StopXray(t) \/ RestartXray(t) \/ QuitCall(t) \/ RequestAdmin(t)

Next ==
    \/ \E t \in Callers : Caller(t)
    \/ \E w \in Watchdogs : Watchdog(w)
    \/ \E s \in Choices : SaveSettings(s)
    \/ Exit

Spec == Init /\ [][Next]_vars

(***************************************************************************)
(* Safety.                                                                 *)
(***************************************************************************)
Live(w) == wd[w] = "running"

(* A running core is never left alone: some watchdog guards it or is about *)
(* to, the call that started it has not reached `go s.startWatchdog` yet,  *)
(* or a call that cancelled the watchdog has still to stop the core.  It   *)
(* holds however calls overlap, because every stop cancels before it stops *)
(* the core and every start spawns after it started one.                   *)
StillToSpawn(t) == pc[t] \in {"arm", "unarmCore", "proxy", "monitor", "tray", "spawn"}
StillToStop(t)  == pc[t] \in {"xProxy", "xFirewall", "xMonitor", "xCore",
                              "rMonitor", "rCore", "qCore", "aCore"}

RunningIsGuarded ==
    core # NoJob =>
        \/ \E w \in Watchdogs : wd[w] \in {"pending", "running"}
        \/ \E t \in Threads : StillToSpawn(t) \/ StillToStop(t)

(* A watchdog that may still restart the core is the one the next stop     *)
(* will cancel, so there is never a second one.                            *)
GuardIsCancellable == \A w \in Watchdogs : Live(w) => cancelWatchdog = w

(* Between calls that did not overlap, a running core is the one the       *)
(* watchdog would bring back, and everything around it was set up for it:  *)
(* the system proxy as its config asked, the monitor, the log stream and   *)
(* the tray, its server exempted from the kill switch it asked for, and    *)
(* the secret it was given the one NeoBox sends, unless a start was given  *)
(* up since for a configuration it could not generate.                     *)
CoherentWhenUp ==
    (Quiet /\ ~overlapped /\ core # NoJob) =>
        /\ \E w \in Watchdogs : Live(w)
        /\ watchdogLink = core.link /\ watchdogProxy = core.sys
        /\ proxy = (core.sys /\ ~core.tun)
        /\ core.killSwitch => firewall = core.link
        /\ monitor /\ stream /\ tray
        /\ ~refused => secretOk

(* After StopXray, with nothing else under way, nothing of the session is  *)
(* left: not in this process and not in the system.                        *)
AllOff ==
    /\ core = NoJob /\ ~proxy /\ firewall = NoLink
    /\ ~monitor /\ ~stream /\ ~tray
    /\ \A w \in Watchdogs : ~Live(w)

OffAfterStop == (Quiet /\ ~overlapped /\ stopped) => AllOff

(* A process that ended through Quit, or to come back elevated, leaves     *)
(* neither the proxy setting nor the firewall rules behind, both of which  *)
(* outlive it.                                                             *)
CleanExit == (~alive /\ ~overlapped) => ~proxy /\ firewall = NoLink

(* A streamer replaced by a new one has been stopped first.                *)
NoStrandedStream == ~overlapped => ~stranded

(***************************************************************************)
(* Liveness.                                                               *)
(***************************************************************************)
(* Goroutines are scheduled, and a watchdog whose core is down trips: its  *)
(* probe of the proxy port can only fail.                                  *)
TripWhenDown(w) == core = NoJob /\ Trip(w)

(* The strong fairness is an assumption on the world: a start tried again  *)
(* and again meets settings, a server and a resolver that work.            *)
Fairness ==
    /\ \A t \in Callers : WF_vars(Caller(t) /\ pc[t] # "idle")
    /\ \A w \in Watchdogs :
         /\ WF_vars(Watchdog(w) /\ pc[w] # "idle")
         /\ WF_vars(Register(w) \/ EndWatchdog(w))
         /\ WF_vars(TripWhenDown(w))
         /\ SF_vars(AdmitStart(w)) /\ SF_vars(ConfigOk(w))
         /\ SF_vars(CoreStarts(w)) /\ SF_vars(ArmKillSwitch(w))

FairSpec == Spec /\ Fairness

(* While somebody watches over a core that is down, a core comes up again, *)
(* unless the user stops watching or the process ends.                     *)
Guarded == \E w \in Watchdogs : wd[w] \in {"pending", "running"}

DroppedTunnelReturns ==
    (Guarded /\ core = NoJob) ~> (core # NoJob \/ ~Guarded \/ ~alive)

(***************************************************************************)
(* What the documents and comments say and the code does not do.           *)
(***************************************************************************)
(* vpn.go stops the watchdog first "so it doesn't try to restart while     *)
(* we're stopping": after StopXray, with nothing else asked for, no core   *)
(* runs.                                                                   *)
DisconnectHolds == (Quiet /\ stopped) => core = NoJob
=============================================================================
