--------------------------- MODULE SessionProofs ---------------------------
(***************************************************************************)
(* Type correctness of Session, the two invariants that hold however calls *)
(* overlap (a running core is guarded, and its guard can be stopped), and  *)
(* the four that hold between calls which did not.                         *)
(***************************************************************************)
EXTENDS Session, TLAPS

Labels == {"idle"} \cup StartLabels \cup CallLabels \cup DogLabels

(* The program points, spelled out for the provers.                        *)
LEMMA LabelsAre ==
    /\ {"idle", "check", "secret", "config", "stopStream", "newStream", "coreStart",
        "arm", "proxy", "monitor", "tray", "spawn",
        "failStream", "unarmCore", "unarmStream", "unarm"} \subseteq Labels
    /\ {"xWatchdog", "xProxy", "xFirewall", "xMonitor", "xCore", "xStream", "xTray",
        "rWatchdog", "rMonitor", "rCore", "rStream",
        "qWatchdog", "qCore", "qProxy", "qFirewall"} \subseteq Labels
    /\ {"aWatchdog", "aCore", "aProxy", "aFirewall", "aExit"} \subseteq Labels
    /\ {"switch", "read", "dogStop", "dogMonitor", "dogCheck"} \subseteq Labels
BY DEF Labels, StartLabels, CallLabels, DogLabels, QuitLabels, AdminLabels

(* What a call asks for is a job.                                          *)
LEMMA RequestIsJob ==
    ASSUME NEW link \in Links \cup {NoLink}, NEW sys \in BOOLEAN
    PROVE  Request(link, sys) \in Job
BY DEF Request, Job

(* So is having nothing to do.                                             *)
LEMMA NoJobIsJob == NoJob \in Job
BY RequestIsJob DEF NoJob

(* The initial state is well typed.                                        *)
LEMMA TypeInit == Init => TypeOK
<1> SUFFICES ASSUME Init PROVE TypeOK
  OBVIOUS
<1>1. CoreOK /\ ProcOK
  BY NoJobIsJob DEF Init, CoreOK, ProcOK
<1>2. OsOK /\ UiOK /\ DogOK /\ LifeOK
  BY DEF Init, OsOK, UiOK, DogOK, LifeOK
<1>3. HistOK
  <2>1. calls = 0 /\ 0 \in 0..MaxCalls
    BY SessionAssumption DEF Init
  <2>2. overlapped \in BOOLEAN /\ stopped \in BOOLEAN /\ refused \in BOOLEAN
    BY DEF Init
  <2> QED
    BY <2>1, <2>2 DEF HistOK
<1> QED
  BY <1>1, <1>2, <1>3 DEF TypeOK

(***************************************************************************)
(* A part of the state that a step leaves alone keeps its type, and so     *)
(* does what the helpers assign.                                           *)
(***************************************************************************)
LEMMA Untouched ==
    /\ ProcOK /\ UNCHANGED procVars => ProcOK'
    /\ CoreOK /\ UNCHANGED coreVars => CoreOK'
    /\ OsOK   /\ UNCHANGED osVars   => OsOK'
    /\ UiOK   /\ UNCHANGED uiVars   => UiOK'
    /\ DogOK  /\ UNCHANGED dogVars  => DogOK'
    /\ LifeOK /\ UNCHANGED lifeVars => LifeOK'
    /\ HistOK /\ UNCHANGED histVars => HistOK'
BY DEF ProcOK, CoreOK, OsOK, UiOK, DogOK, LifeOK, HistOK,
       procVars, coreVars, osVars, uiVars, dogVars, lifeVars, histVars

(* A thread that goes on to its next step keeps ProcOK.                    *)
LEMMA GotoType ==
    ASSUME ProcOK, NEW t \in Threads, NEW label \in Labels, Goto(t, label)
    PROVE  ProcOK'
BY DEF ProcOK, Goto, Labels

(* So does a thread that is done.                                          *)
LEMMA ReturnType ==
    ASSUME ProcOK, NEW t \in Threads, Return(t)
    PROVE  ProcOK'
BY NoJobIsJob DEF ProcOK, Return

(* So does a thread that takes up work.                                    *)
LEMMA BeginType ==
    ASSUME ProcOK, NEW t \in Threads, NEW label \in Labels, NEW j \in Job, Begin(t, label, j)
    PROVE  ProcOK' /\ overlapped' \in BOOLEAN /\ refused' = refused
BY DEF ProcOK, Begin, Labels

(* A call of the user is counted, up to the bound.                         *)
LEMMA BeginCallType ==
    ASSUME ProcOK, HistOK, NEW t \in Threads, NEW label \in Labels, NEW j \in Job,
           BeginCall(t, label, j)
    PROVE  ProcOK' /\ HistOK'
<1>1. ProcOK' /\ overlapped' \in BOOLEAN /\ refused' \in BOOLEAN
  BY BeginType DEF BeginCall, HistOK
<1>2. stopped' \in BOOLEAN
  BY DEF BeginCall
<1>3. calls' \in 0..MaxCalls
  <2>1. MaxCalls \in Nat
    BY SessionAssumption
  <2>2. calls \in 0..MaxCalls
    BY DEF HistOK
  <2>3. calls < MaxCalls /\ calls' = calls + 1
    BY DEF BeginCall
  <2> QED
    BY <2>1, <2>2, <2>3
<1> QED
  BY <1>1, <1>2, <1>3 DEF HistOK

(* A start that ends forgets its secret.                                   *)
LEMMA EndStartType ==
    ASSUME ProcOK, CoreOK, NEW t \in Threads, EndStart(t), UNCHANGED <<core, secretOk>>
    PROVE  ProcOK' /\ CoreOK'
<1>1. ProcOK'
  BY ReturnType DEF EndStart
<1>2. CoreOK'
  BY DEF CoreOK, EndStart, ForgetSecret
<1> QED
  BY <1>1, <1>2

(* CoreManager.Stop leaves no instance.                                    *)
LEMMA StopCoreType ==
    ASSUME CoreOK, StopCore, UNCHANGED secretBy
    PROVE  CoreOK'
BY NoJobIsJob DEF CoreOK, StopCore

(* Cancelling a watchdog, for another one or for none.                     *)
LEMMA CancelForType ==
    ASSUME DogOK, NEW w \in Watchdogs \cup {NoOne}, CancelFor(w),
           watchdogLink' \in Links \cup {NoLink}, watchdogProxy' \in BOOLEAN
    PROVE  DogOK'
BY DEF DogOK, CancelFor

(***************************************************************************)
(* Type correctness, one lemma per call.                                   *)
(***************************************************************************)
LEMMA SettingsType ==
    ASSUME LifeOK
    PROVE  settings.tun \in BOOLEAN /\ settings.killSwitch \in BOOLEAN
BY SessionAssumption DEF LifeOK

(* What a spawned watchdog is given is a job.                              *)
LEMMA SpawnedJob ==
    ASSUME ProcOK, NEW t \in Threads
    PROVE  Request(job[t].link, job[t].sys) \in Job
BY DEF ProcOK, Request, Job

(* The steps that the calls share, at whatever points they stand.          *)
LEMMA StepTypes ==
    ASSUME TypeOK, NEW t \in Threads, NEW here \in Labels, NEW next \in Labels
    PROVE  /\ StopWatchdog(t, here, next) => TypeOK'
           /\ StopLogStream(t, here, next) => TypeOK'
           /\ ProxyOff(t, here, next) => TypeOK'
           /\ KillSwitchOff(t, here, next) => TypeOK'
           /\ CancelMonitor(t, here, next) => TypeOK'
           /\ CoreStop(t, here, next) => TypeOK'
<1>1. ASSUME StopWatchdog(t, here, next) PROVE TypeOK'
  <2>1. ProcOK'
    BY <1>1, GotoType DEF StopWatchdog, TypeOK
  <2>2. DogOK'
    BY <1>1, CancelForType DEF StopWatchdog, TypeOK, DogOK
  <2>3. CoreOK' /\ OsOK' /\ UiOK' /\ LifeOK' /\ HistOK'
    BY <1>1, Untouched DEF StopWatchdog, TypeOK
  <2> QED
    BY <2>1, <2>2, <2>3 DEF TypeOK
<1>2. ASSUME StopLogStream(t, here, next) PROVE TypeOK'
  <2>1. ProcOK'
    BY <1>2, GotoType DEF StopLogStream, TypeOK
  <2>2. UiOK'
    BY <1>2 DEF StopLogStream, TypeOK, UiOK
  <2>3. CoreOK' /\ OsOK' /\ DogOK' /\ LifeOK' /\ HistOK'
    BY <1>2, Untouched DEF StopLogStream, TypeOK
  <2> QED
    BY <2>1, <2>2, <2>3 DEF TypeOK
<1>3. ASSUME ProxyOff(t, here, next) PROVE TypeOK'
  <2>1. ProcOK'
    BY <1>3, GotoType DEF ProxyOff, TypeOK
  <2>2. OsOK'
    BY <1>3 DEF ProxyOff, TypeOK, OsOK
  <2>3. CoreOK' /\ UiOK' /\ DogOK' /\ LifeOK' /\ HistOK'
    BY <1>3, Untouched DEF ProxyOff, TypeOK
  <2> QED
    BY <2>1, <2>2, <2>3 DEF TypeOK
<1>4. ASSUME KillSwitchOff(t, here, next) PROVE TypeOK'
  <2>1. ProcOK'
    BY <1>4, GotoType DEF KillSwitchOff, TypeOK
  <2>2. OsOK'
    BY <1>4 DEF KillSwitchOff, TypeOK, OsOK
  <2>3. CoreOK' /\ UiOK' /\ DogOK' /\ LifeOK' /\ HistOK'
    BY <1>4, Untouched DEF KillSwitchOff, TypeOK
  <2> QED
    BY <2>1, <2>2, <2>3 DEF TypeOK
<1>5. ASSUME CancelMonitor(t, here, next) PROVE TypeOK'
  <2>1. ProcOK'
    BY <1>5, GotoType DEF CancelMonitor, TypeOK
  <2>2. UiOK'
    BY <1>5 DEF CancelMonitor, TypeOK, UiOK
  <2>3. CoreOK' /\ OsOK' /\ DogOK' /\ LifeOK' /\ HistOK'
    BY <1>5, Untouched DEF CancelMonitor, TypeOK
  <2> QED
    BY <2>1, <2>2, <2>3 DEF TypeOK
<1>6. ASSUME CoreStop(t, here, next) PROVE TypeOK'
  <2>1. ProcOK'
    BY <1>6, GotoType DEF CoreStop, TypeOK
  <2>2. CoreOK'
    BY <1>6, StopCoreType DEF CoreStop, TypeOK
  <2>3. OsOK' /\ UiOK' /\ DogOK' /\ LifeOK' /\ HistOK'
    BY <1>6, Untouched DEF CoreStop, TypeOK
  <2> QED
    BY <2>1, <2>2, <2>3 DEF TypeOK
<1> QED
  BY <1>1, <1>2, <1>3, <1>4, <1>5, <1>6

(* startCore, one case per step.                                           *)
LEMMA StartCoreType == ASSUME TypeOK, NEW t \in Threads, StartCore(t) PROVE TypeOK'
<1>1. CASE RefuseStart(t)
  <2>1. ProcOK' /\ CoreOK'
    BY <1>1, EndStartType DEF RefuseStart, TypeOK
  <2>2. OsOK' /\ UiOK' /\ DogOK' /\ LifeOK' /\ HistOK'
    BY <1>1, Untouched DEF RefuseStart, TypeOK
  <2> QED
    BY <2>1, <2>2 DEF TypeOK
<1>2. CASE AdmitStart(t)
  <2>1. ProcOK'
    BY <1>2, LabelsAre, SettingsType DEF AdmitStart, TypeOK, ProcOK, LifeOK, Labels, Job
  <2>2. CoreOK' /\ OsOK' /\ UiOK' /\ DogOK' /\ LifeOK' /\ HistOK'
    BY <1>2, Untouched DEF AdmitStart, TypeOK
  <2> QED
    BY <2>1, <2>2 DEF TypeOK
<1>3. CASE NewSecret(t)
  <2>1. ProcOK'
    BY <1>3, GotoType, LabelsAre DEF NewSecret, TypeOK
  <2>2. CoreOK'
    BY <1>3 DEF NewSecret, TypeOK, CoreOK
  <2>3. OsOK' /\ UiOK' /\ DogOK' /\ LifeOK' /\ HistOK'
    BY <1>3, Untouched DEF NewSecret, TypeOK
  <2> QED
    BY <2>1, <2>2, <2>3 DEF TypeOK
<1>4. CASE ConfigFails(t)
  <2>1. ProcOK' /\ CoreOK'
    BY <1>4, EndStartType DEF ConfigFails, TypeOK
  <2>2. OsOK' /\ UiOK' /\ DogOK' /\ LifeOK'
    BY <1>4, Untouched DEF ConfigFails, TypeOK
  <2>3. HistOK'
    BY <1>4 DEF ConfigFails, TypeOK, HistOK
  <2> QED
    BY <2>1, <2>2, <2>3 DEF TypeOK
<1>5. CASE ConfigOk(t)
  <2>1. ProcOK'
    BY <1>5, GotoType, LabelsAre DEF ConfigOk, TypeOK
  <2>2. CoreOK' /\ OsOK' /\ UiOK' /\ DogOK' /\ LifeOK' /\ HistOK'
    BY <1>5, Untouched DEF ConfigOk, TypeOK
  <2> QED
    BY <2>1, <2>2 DEF TypeOK
<1>6. CASE StopLogStream(t, "stopStream", "newStream")
  BY <1>6, StepTypes, LabelsAre
<1>7. CASE NewLogStream(t)
  <2>1. ProcOK'
    BY <1>7, GotoType, LabelsAre DEF NewLogStream, TypeOK
  <2>2. UiOK'
    BY <1>7 DEF NewLogStream, TypeOK, UiOK
  <2>3. CoreOK' /\ OsOK' /\ DogOK' /\ LifeOK' /\ HistOK'
    BY <1>7, Untouched DEF NewLogStream, TypeOK
  <2> QED
    BY <2>1, <2>2, <2>3 DEF TypeOK
<1>8. CASE CoreStarts(t)
  <2>1. ProcOK'
    BY <1>8, GotoType, LabelsAre DEF CoreStarts, TypeOK
  <2>2. CoreOK'
    BY <1>8 DEF CoreStarts, TypeOK, CoreOK, ProcOK
  <2>3. OsOK' /\ UiOK' /\ DogOK' /\ LifeOK'
    BY <1>8, Untouched DEF CoreStarts, TypeOK
  <2>4. HistOK'
    BY <1>8 DEF CoreStarts, TypeOK, HistOK
  <2> QED
    BY <2>1, <2>2, <2>3, <2>4 DEF TypeOK
<1>9. CASE CoreFails(t)
  <2>1. ProcOK'
    BY <1>9, GotoType, LabelsAre DEF CoreFails, TypeOK
  <2>2. CoreOK'
    BY <1>9, StopCoreType DEF CoreFails, TypeOK
  <2>3. OsOK' /\ UiOK' /\ DogOK' /\ LifeOK' /\ HistOK'
    BY <1>9, Untouched DEF CoreFails, TypeOK
  <2> QED
    BY <2>1, <2>2, <2>3 DEF TypeOK
<1>10. CASE EndFailedStart(t)
  <2>1. ProcOK' /\ CoreOK'
    BY <1>10, EndStartType DEF EndFailedStart, TypeOK
  <2>2. UiOK'
    BY <1>10 DEF EndFailedStart, TypeOK, UiOK
  <2>3. OsOK' /\ DogOK' /\ LifeOK' /\ HistOK'
    BY <1>10, Untouched DEF EndFailedStart, TypeOK
  <2> QED
    BY <2>1, <2>2, <2>3 DEF TypeOK
<1>11. CASE ArmKillSwitch(t)
  <2>1. ProcOK'
    BY <1>11, GotoType, LabelsAre DEF ArmKillSwitch, TypeOK
  <2>2. OsOK'
    BY <1>11 DEF ArmKillSwitch, TypeOK, OsOK, ProcOK, Job
  <2>3. CoreOK' /\ UiOK' /\ DogOK' /\ LifeOK' /\ HistOK'
    BY <1>11, Untouched DEF ArmKillSwitch, TypeOK
  <2> QED
    BY <2>1, <2>2, <2>3 DEF TypeOK
<1>12. CASE ArmFails(t)
  <2>1. ProcOK'
    BY <1>12, GotoType, LabelsAre DEF ArmFails, TypeOK
  <2>2. OsOK'
    BY <1>12 DEF ArmFails, TypeOK, OsOK
  <2>3. CoreOK' /\ UiOK' /\ DogOK' /\ LifeOK' /\ HistOK'
    BY <1>12, Untouched DEF ArmFails, TypeOK
  <2> QED
    BY <2>1, <2>2, <2>3 DEF TypeOK
<1>13. CASE UnarmCore(t)
  <2>1. ProcOK'
    BY <1>13, GotoType, LabelsAre DEF UnarmCore, TypeOK
  <2>2. CoreOK'
    BY <1>13, StopCoreType DEF UnarmCore, TypeOK
  <2>3. OsOK' /\ UiOK' /\ DogOK' /\ LifeOK' /\ HistOK'
    BY <1>13, Untouched DEF UnarmCore, TypeOK
  <2> QED
    BY <2>1, <2>2, <2>3 DEF TypeOK
<1>14. CASE StopLogStream(t, "unarmStream", "unarm")
  BY <1>14, StepTypes, LabelsAre
<1>15. CASE Unarm(t)
  <2>1. ProcOK' /\ CoreOK'
    BY <1>15, EndStartType DEF Unarm, TypeOK
  <2>2. OsOK'
    BY <1>15 DEF Unarm, TypeOK, OsOK
  <2>3. UiOK' /\ DogOK' /\ LifeOK' /\ HistOK'
    BY <1>15, Untouched DEF Unarm, TypeOK
  <2> QED
    BY <2>1, <2>2, <2>3 DEF TypeOK
<1>16. CASE SetProxy(t)
  <2>1. ProcOK'
    BY <1>16, GotoType, LabelsAre DEF SetProxy, TypeOK
  <2>2. OsOK'
    BY <1>16 DEF SetProxy, TypeOK, OsOK, ProcOK, Job
  <2>3. CoreOK' /\ UiOK' /\ DogOK' /\ LifeOK' /\ HistOK'
    BY <1>16, Untouched DEF SetProxy, TypeOK
  <2> QED
    BY <2>1, <2>2, <2>3 DEF TypeOK
<1>17. CASE StartMonitor(t)
  <2>1. ProcOK'
    BY <1>17, GotoType, LabelsAre DEF StartMonitor, TypeOK
  <2>2. UiOK'
    BY <1>17 DEF StartMonitor, TypeOK, UiOK
  <2>3. CoreOK' /\ OsOK' /\ DogOK' /\ LifeOK' /\ HistOK'
    BY <1>17, Untouched DEF StartMonitor, TypeOK
  <2> QED
    BY <2>1, <2>2, <2>3 DEF TypeOK
<1>18. CASE TrayConnected(t)
  <2>1. ProcOK'
    BY <1>18, GotoType, LabelsAre DEF TrayConnected, TypeOK
  <2>2. UiOK'
    BY <1>18 DEF TrayConnected, TypeOK, UiOK
  <2>3. CoreOK' /\ OsOK' /\ DogOK' /\ LifeOK' /\ HistOK'
    BY <1>18, Untouched DEF TrayConnected, TypeOK
  <2> QED
    BY <2>1, <2>2, <2>3 DEF TypeOK
<1>19. CASE SpawnWatchdog(t)
  <2>1. ProcOK'
    BY <1>19, LabelsAre, NoJobIsJob, SpawnedJob DEF SpawnWatchdog, TypeOK, ProcOK, Labels
  <2>2. CoreOK'
    BY <1>19 DEF SpawnWatchdog, TypeOK, CoreOK, ForgetSecret
  <2>3. DogOK'
    BY <1>19 DEF SpawnWatchdog, TypeOK, DogOK
  <2>4. OsOK' /\ UiOK' /\ LifeOK' /\ HistOK'
    BY <1>19, Untouched DEF SpawnWatchdog, TypeOK
  <2> QED
    BY <2>1, <2>2, <2>3, <2>4 DEF TypeOK
<1> QED
  BY <1>1, <1>2, <1>3, <1>4, <1>5, <1>6, <1>7, <1>8, <1>9, <1>10, <1>11, <1>12, <1>13, <1>14, <1>15, <1>16, <1>17, <1>18, <1>19 DEF StartCore

(* StopXray.                                                               *)
LEMMA StopXrayType == ASSUME TypeOK, NEW t \in Threads, StopXray(t) PROVE TypeOK'
<1>1. CASE BeginStop(t)
  <2>1. ProcOK' /\ HistOK'
    BY <1>1, BeginCallType, LabelsAre, NoJobIsJob DEF BeginStop, TypeOK
  <2>2. CoreOK' /\ OsOK' /\ UiOK' /\ DogOK' /\ LifeOK'
    BY <1>1, Untouched DEF BeginStop, TypeOK
  <2> QED
    BY <2>1, <2>2 DEF TypeOK
<1>2. CASE StopWatchdog(t, "xWatchdog", "xProxy")
  BY <1>2, StepTypes, LabelsAre
<1>3. CASE ProxyOff(t, "xProxy", "xFirewall")
  BY <1>3, StepTypes, LabelsAre
<1>4. CASE KillSwitchOff(t, "xFirewall", "xMonitor")
  BY <1>4, StepTypes, LabelsAre
<1>5. CASE CancelMonitor(t, "xMonitor", "xCore")
  BY <1>5, StepTypes, LabelsAre
<1>6. CASE CoreStop(t, "xCore", "xStream")
  BY <1>6, StepTypes, LabelsAre
<1>7. CASE StopLogStream(t, "xStream", "xTray")
  BY <1>7, StepTypes, LabelsAre
<1>8. CASE TrayDisconnected(t)
  <2>1. ProcOK'
    BY <1>8, ReturnType DEF TrayDisconnected, TypeOK
  <2>2. UiOK'
    BY <1>8 DEF TrayDisconnected, TypeOK, UiOK
  <2>3. HistOK'
    BY <1>8 DEF TrayDisconnected, TypeOK, HistOK
  <2>4. CoreOK' /\ OsOK' /\ DogOK' /\ LifeOK'
    BY <1>8, Untouched DEF TrayDisconnected, TypeOK
  <2> QED
    BY <2>1, <2>2, <2>3, <2>4 DEF TypeOK
<1> QED
  BY <1>1, <1>2, <1>3, <1>4, <1>5, <1>6, <1>7, <1>8 DEF StopXray

(* What the window or the tray asks for is a job.                          *)
LEMMA RequestedJob ==
    ASSUME NEW link \in Links, NEW sys \in ProxyModes
    PROVE  Request(link, sys) \in Job
BY RequestIsJob, SessionAssumption

(* RestartXray, up to its call of StartXray.                               *)
LEMMA RestartXrayType == ASSUME TypeOK, NEW t \in Threads, RestartXray(t) PROVE TypeOK'
<1>0. ASSUME NEW link \in Links, NEW sys \in ProxyModes, BeginRestart(t, link, sys)
      PROVE  TypeOK'
  <2>1. ProcOK' /\ HistOK'
    BY <1>0, BeginCallType, LabelsAre, RequestedJob DEF BeginRestart, TypeOK
  <2>2. CoreOK' /\ OsOK' /\ UiOK' /\ DogOK' /\ LifeOK'
    BY <1>0, Untouched DEF BeginRestart, TypeOK
  <2> QED
    BY <2>1, <2>2 DEF TypeOK
<1>1. CASE StopWatchdog(t, "rWatchdog", "rMonitor")
  BY <1>1, StepTypes, LabelsAre
<1>2. CASE CancelMonitor(t, "rMonitor", "rCore")
  BY <1>2, StepTypes, LabelsAre
<1>3. CASE CoreStop(t, "rCore", "rStream")
  BY <1>3, StepTypes, LabelsAre
<1>4. CASE StopLogStream(t, "rStream", "check")
  BY <1>4, StepTypes, LabelsAre
<1> QED
  BY <1>0, <1>1, <1>2, <1>3, <1>4 DEF RestartXray

(* Quit.                                                                   *)
LEMMA QuitType == ASSUME TypeOK, NEW t \in Threads, QuitCall(t) PROVE TypeOK'
<1>1. CASE BeginQuit(t)
  <2>1. ProcOK' /\ HistOK'
    BY <1>1, BeginCallType, LabelsAre, NoJobIsJob DEF BeginQuit, TypeOK
  <2>2. LifeOK'
    BY <1>1 DEF BeginQuit, TypeOK, LifeOK
  <2>3. CoreOK' /\ OsOK' /\ UiOK' /\ DogOK'
    BY <1>1, Untouched DEF BeginQuit, TypeOK
  <2> QED
    BY <2>1, <2>2, <2>3 DEF TypeOK
<1>2. CASE StopWatchdog(t, "qWatchdog", "qCore")
  BY <1>2, StepTypes, LabelsAre
<1>3. CASE CoreStop(t, "qCore", "qProxy")
  BY <1>3, StepTypes, LabelsAre
<1>4. CASE ProxyOff(t, "qProxy", "qFirewall")
  BY <1>4, StepTypes, LabelsAre
<1>5. CASE EndQuit(t)
  <2>1. ProcOK'
    BY <1>5, ReturnType DEF EndQuit, TypeOK
  <2>2. OsOK'
    BY <1>5 DEF EndQuit, TypeOK, OsOK
  <2>3. CoreOK' /\ UiOK' /\ DogOK' /\ LifeOK' /\ HistOK'
    BY <1>5, Untouched DEF EndQuit, TypeOK
  <2> QED
    BY <2>1, <2>2, <2>3 DEF TypeOK
<1> QED
  BY <1>1, <1>2, <1>3, <1>4, <1>5 DEF QuitCall

(* RequestAdmin.                                                           *)
LEMMA RequestAdminType == ASSUME TypeOK, NEW t \in Threads, RequestAdmin(t) PROVE TypeOK'
<1>1. CASE BeginRelaunch(t)
  <2>1. ProcOK' /\ HistOK'
    BY <1>1, BeginCallType, LabelsAre, NoJobIsJob DEF BeginRelaunch, TypeOK
  <2>2. CoreOK' /\ OsOK' /\ UiOK' /\ DogOK' /\ LifeOK'
    BY <1>1, Untouched DEF BeginRelaunch, TypeOK
  <2> QED
    BY <2>1, <2>2 DEF TypeOK
<1>2. CASE StopWatchdog(t, "aWatchdog", "aCore")
  BY <1>2, StepTypes, LabelsAre
<1>3. CASE CoreStop(t, "aCore", "aProxy")
  BY <1>3, StepTypes, LabelsAre
<1>4. CASE ProxyOff(t, "aProxy", "aFirewall")
  BY <1>4, StepTypes, LabelsAre
<1>5. CASE KillSwitchOff(t, "aFirewall", "aExit")
  BY <1>5, StepTypes, LabelsAre
<1>6. CASE ExitNow(t)
  <2>1. ProcOK'
    BY <1>6, ReturnType DEF ExitNow, TypeOK
  <2>2. LifeOK'
    BY <1>6 DEF ExitNow, TypeOK, LifeOK
  <2>3. CoreOK' /\ OsOK' /\ UiOK' /\ DogOK' /\ HistOK'
    BY <1>6, Untouched DEF ExitNow, TypeOK
  <2> QED
    BY <2>1, <2>2, <2>3 DEF TypeOK
<1> QED
  BY <1>1, <1>2, <1>3, <1>4, <1>5, <1>6 DEF RequestAdmin

(* Another server to switch to is a job.                                   *)
LEMMA AltJob ==
    ASSUME NEW alt \in Links \ {watchdogLink}
    PROVE  Request(alt, FALSE) \in Job
BY RequestIsJob

(* A watchdog goroutine, from its registration to its end.                 *)
LEMMA WatchdogType == ASSUME TypeOK, NEW w \in Watchdogs, Watchdog(w) PROVE TypeOK'
<1> w \in Threads
  BY DEF Threads
<1>1. CASE Register(w)
  <2>1. ProcOK'
    BY <1>1, ReturnType DEF Register, TypeOK
  <2>2. DogOK'
    BY <1>1, CancelForType DEF Register, TypeOK, ProcOK, Job
  <2>3. CoreOK' /\ OsOK' /\ UiOK' /\ LifeOK' /\ HistOK'
    BY <1>1, Untouched DEF Register, TypeOK
  <2> QED
    BY <2>1, <2>2, <2>3 DEF TypeOK
<1>2. CASE Trip(w)
  <2>1. ProcOK'
    BY <1>2, BeginType, LabelsAre, NoJobIsJob, AltJob DEF Trip, TypeOK
  <2>2. HistOK'
    <3>1. overlapped' \in BOOLEAN /\ refused' = refused
      BY <1>2, BeginType, LabelsAre, NoJobIsJob, AltJob DEF Trip, TypeOK
    <3> QED
      BY <1>2, <3>1 DEF Trip, TypeOK, HistOK
  <2>3. CoreOK' /\ OsOK' /\ UiOK' /\ DogOK' /\ LifeOK'
    BY <1>2, Untouched DEF Trip, TypeOK
  <2> QED
    BY <2>1, <2>2, <2>3 DEF TypeOK
<1>3. CASE SwitchServer(w)
  <2>1. ProcOK'
    BY <1>3, GotoType, LabelsAre DEF SwitchServer, TypeOK
  <2>2. DogOK'
    BY <1>3 DEF SwitchServer, TypeOK, DogOK, ProcOK, Job
  <2>3. CoreOK' /\ OsOK' /\ UiOK' /\ LifeOK' /\ HistOK'
    BY <1>3, Untouched DEF SwitchServer, TypeOK
  <2> QED
    BY <2>1, <2>2, <2>3 DEF TypeOK
<1>4. CASE ReadTarget(w)
  <2>1. ProcOK'
    BY <1>4, LabelsAre, RequestIsJob DEF ReadTarget, TypeOK, ProcOK, DogOK, Labels
  <2>2. CoreOK' /\ OsOK' /\ UiOK' /\ DogOK' /\ LifeOK' /\ HistOK'
    BY <1>4, Untouched DEF ReadTarget, TypeOK
  <2> QED
    BY <2>1, <2>2 DEF TypeOK
<1>5. CASE CoreStop(w, "dogStop", "dogMonitor")
  BY <1>5, StepTypes, LabelsAre
<1>6. CASE CancelMonitor(w, "dogMonitor", "dogCheck")
  BY <1>6, StepTypes, LabelsAre
<1>7. CASE CheckCancelled(w)
  <2>1. ProcOK'
    BY <1>7, ReturnType, GotoType, LabelsAre DEF CheckCancelled, TypeOK
  <2>2. CoreOK' /\ OsOK' /\ UiOK' /\ DogOK' /\ LifeOK' /\ HistOK'
    BY <1>7, Untouched DEF CheckCancelled, TypeOK
  <2> QED
    BY <2>1, <2>2 DEF TypeOK
<1>8. CASE StartCore(w)
  BY <1>8, StartCoreType
<1>9. CASE EndWatchdog(w)
  <2>1. DogOK'
    BY <1>9 DEF EndWatchdog, TypeOK, DogOK
  <2>2. ProcOK' /\ CoreOK' /\ OsOK' /\ UiOK' /\ LifeOK' /\ HistOK'
    BY <1>9, Untouched DEF EndWatchdog, TypeOK
  <2> QED
    BY <2>1, <2>2 DEF TypeOK
<1> QED
  BY <1>1, <1>2, <1>3, <1>4, <1>5, <1>6, <1>7, <1>8, <1>9 DEF Watchdog

(* Any call of the user.                                                   *)
LEMMA CallerType == ASSUME TypeOK, NEW t \in Callers, Caller(t) PROVE TypeOK'
<1> t \in Threads
  BY DEF Threads
<1>1. ASSUME NEW link \in Links, NEW sys \in ProxyModes, StartXray(t, link, sys)
      PROVE  TypeOK'
  <2>1. ProcOK' /\ HistOK'
    BY <1>1, BeginCallType, LabelsAre, RequestedJob DEF StartXray, TypeOK
  <2>2. CoreOK' /\ OsOK' /\ UiOK' /\ DogOK' /\ LifeOK'
    BY <1>1, Untouched DEF StartXray, TypeOK
  <2> QED
    BY <2>1, <2>2 DEF TypeOK
<1> QED
  BY <1>1, StartCoreType, StopXrayType, RestartXrayType, QuitType, RequestAdminType
     DEF Caller

(* Every variable keeps its type.                                          *)
THEOREM TypeCorrect == Spec => []TypeOK
<1>1. ASSUME TypeOK, [Next]_vars PROVE TypeOK'
  <2>1. CASE \E t \in Callers : Caller(t)
    BY <1>1, <2>1, CallerType
  <2>2. CASE \E w \in Watchdogs : Watchdog(w)
    BY <1>1, <2>2, WatchdogType
  <2>3. ASSUME NEW s \in Choices, SaveSettings(s) PROVE TypeOK'
    <3>1. LifeOK'
      BY <1>1, <2>3 DEF SaveSettings, TypeOK, LifeOK
    <3> QED
      BY <1>1, <2>3, <3>1, Untouched DEF SaveSettings, TypeOK
  <2>4. CASE Exit
    <3>1. LifeOK'
      BY <1>1, <2>4 DEF Exit, TypeOK, LifeOK
    <3> QED
      BY <1>1, <2>4, <3>1, Untouched DEF Exit, TypeOK
  <2>5. CASE UNCHANGED vars
    BY <1>1, <2>5, Untouched DEF vars, TypeOK
  <2> QED
    BY <1>1, <2>1, <2>2, <2>3, <2>4, <2>5 DEF Next
<1> QED
  BY <1>1, TypeInit, PTL DEF Spec

(***************************************************************************)
(* There is never a second watchdog that may restart the core.  Only four  *)
(* kinds of step write the two variables the invariant is about.           *)
(***************************************************************************)
(* cancelWatchdog() leaves at most the one that took the field over.       *)
LEMMA CancelForKeepsGuard ==
    ASSUME GuardIsCancellable, NEW w \in Watchdogs \cup {NoOne}, CancelFor(w)
    PROVE  GuardIsCancellable'
BY DEF GuardIsCancellable, Live, CancelFor

(* `go s.startWatchdog` makes a goroutine that has not registered.         *)
LEMMA SpawnKeepsGuard ==
    ASSUME GuardIsCancellable, DogOK, NEW t \in Threads, SpawnWatchdog(t)
    PROVE  GuardIsCancellable'
BY DEF GuardIsCancellable, Live, SpawnWatchdog, DogOK

(* The end of a cancelled goroutine leaves the others as they were.        *)
LEMMA EndKeepsGuard ==
    ASSUME GuardIsCancellable, DogOK, NEW w \in Watchdogs, EndWatchdog(w)
    PROVE  GuardIsCancellable'
BY DEF GuardIsCancellable, Live, EndWatchdog, DogOK

(* A step of startCore other than the last leaves the watchdogs alone.     *)
LEMMA StartCoreDogs ==
    ASSUME NEW t \in Threads, StartCore(t), ~SpawnWatchdog(t)
    PROVE  UNCHANGED <<wd, cancelWatchdog>>
BY DEF StartCore, RefuseStart, AdmitStart, NewSecret, ConfigFails, ConfigOk, StopLogStream,
       NewLogStream, CoreStarts, CoreFails, EndFailedStart, ArmKillSwitch, ArmFails, UnarmCore,
       Unarm, SetProxy, StartMonitor, TrayConnected, dogVars

(* A call of the user cancels the watchdog, spawns one, or leaves both     *)
(* variables alone.                                                        *)
LEMMA CallerDogs ==
    ASSUME NEW t \in Callers, Caller(t), ~SpawnWatchdog(t)
    PROVE  UNCHANGED <<wd, cancelWatchdog>> \/ CancelFor(NoOne)
<1> t \in Threads
  BY DEF Threads
<1>1. CASE \E link \in Links, sys \in ProxyModes : StartXray(t, link, sys)
  BY <1>1 DEF StartXray, dogVars
<1>2. CASE StartCore(t)
  BY <1>2, StartCoreDogs
<1>3. CASE StopXray(t)
  BY <1>3 DEF StopXray, BeginStop, StopWatchdog, ProxyOff, KillSwitchOff, CancelMonitor,
              CoreStop, StopLogStream, TrayDisconnected, dogVars
<1>4. CASE RestartXray(t)
  BY <1>4 DEF RestartXray, BeginRestart, StopWatchdog, CancelMonitor, CoreStop,
              StopLogStream, dogVars
<1>5. CASE QuitCall(t)
  BY <1>5 DEF QuitCall, BeginQuit, StopWatchdog, CoreStop, ProxyOff, EndQuit, dogVars
<1>6. CASE RequestAdmin(t)
  BY <1>6 DEF RequestAdmin, BeginRelaunch, StopWatchdog, CoreStop, ProxyOff, KillSwitchOff,
              ExitNow, dogVars
<1> QED
  BY <1>1, <1>2, <1>3, <1>4, <1>5, <1>6 DEF Caller

(* So does a watchdog, which besides registers and ends.                   *)
LEMMA WatchdogDogs ==
    ASSUME NEW w \in Watchdogs, Watchdog(w), ~SpawnWatchdog(w), ~EndWatchdog(w)
    PROVE  UNCHANGED <<wd, cancelWatchdog>> \/ CancelFor(w)
<1> w \in Threads
  BY DEF Threads
<1>1. CASE StartCore(w)
  BY <1>1, StartCoreDogs
<1>2. CASE ~StartCore(w)
  BY <1>2 DEF Watchdog, Register, Trip, SwitchServer, ReadTarget, CoreStop, CancelMonitor,
              CheckCancelled, dogVars
<1> QED
  BY <1>1, <1>2

(* However calls and watchdogs overlap, a watchdog that may still restart  *)
(* the core is the one that the next stopWatchdog cancels.                 *)
THEOREM GuardCorrect == Spec => []GuardIsCancellable
<1>1. Init => GuardIsCancellable
  BY DEF Init, GuardIsCancellable, Live
<1>2. ASSUME TypeOK, GuardIsCancellable, [Next]_vars PROVE GuardIsCancellable'
  <2>0. DogOK
    BY <1>2 DEF TypeOK
  <2>1. ASSUME UNCHANGED <<wd, cancelWatchdog>> PROVE GuardIsCancellable'
    BY <1>2, <2>1 DEF GuardIsCancellable, Live
  <2>2. ASSUME NEW t \in Callers, Caller(t) PROVE GuardIsCancellable'
    <3> t \in Threads
      BY DEF Threads
    <3>1. CASE SpawnWatchdog(t)
      BY <1>2, <2>0, <3>1, SpawnKeepsGuard
    <3>2. CASE ~SpawnWatchdog(t)
      BY <1>2, <2>1, <2>2, <3>2, CallerDogs, CancelForKeepsGuard
    <3> QED
      BY <3>1, <3>2
  <2>3. ASSUME NEW w \in Watchdogs, Watchdog(w) PROVE GuardIsCancellable'
    <3> w \in Threads
      BY DEF Threads
    <3>1. CASE SpawnWatchdog(w)
      BY <1>2, <2>0, <3>1, SpawnKeepsGuard
    <3>2. CASE EndWatchdog(w)
      BY <1>2, <2>0, <3>2, EndKeepsGuard
    <3>3. CASE ~SpawnWatchdog(w) /\ ~EndWatchdog(w)
      BY <1>2, <2>1, <2>3, <3>3, WatchdogDogs, CancelForKeepsGuard
    <3> QED
      BY <3>1, <3>2, <3>3
  <2>4. CASE \E s \in Choices : SaveSettings(s)
    BY <2>1, <2>4 DEF SaveSettings, dogVars
  <2>5. CASE Exit
    BY <2>1, <2>5 DEF Exit, dogVars
  <2>6. CASE UNCHANGED vars
    BY <2>1, <2>6 DEF vars, dogVars
  <2> QED
    BY <1>2, <2>2, <2>3, <2>4, <2>5, <2>6 DEF Next
<1> QED
  BY <1>1, <1>2, TypeCorrect, PTL DEF Spec

(***************************************************************************)
(* A running core is guarded.  The invariant hands the duty on: from the   *)
(* call that started the core to the goroutine it spawns, and from a       *)
(* watchdog that is cancelled to the call that will stop the core.         *)
(***************************************************************************)
OnDuty == {"arm", "unarmCore", "proxy", "monitor", "tray", "spawn",
           "xProxy", "xFirewall", "xMonitor", "xCore", "rMonitor", "rCore", "qCore", "aCore"}

(* OnDuty is where StillToSpawn and StillToStop put a thread.              *)
LEMMA DutyIs == ASSUME NEW t PROVE (StillToSpawn(t) \/ StillToStop(t)) <=> pc[t] \in OnDuty
BY DEF StillToSpawn, StillToStop, OnDuty

(* A step on duty that goes on to a label on duty, or one off duty that    *)
(* goes anywhere, leaves a running core guarded.                           *)
LEMMA DutyGoesOn ==
    ASSUME ProcOK, RunningIsGuarded, NEW t \in Threads, NEW label,
           pc' = [pc EXCEPT ![t] = label], UNCHANGED <<core, wd>>,
           pc[t] \in OnDuty => label \in OnDuty
    PROVE  RunningIsGuarded'
<1> SUFFICES ASSUME core # NoJob, ~(\E w \in Watchdogs : wd[w] \in {"pending", "running"})
             PROVE  \E u \in Threads : pc'[u] \in OnDuty
  BY DEF RunningIsGuarded, StillToSpawn, StillToStop, OnDuty
<1>1. PICK u \in Threads : pc[u] \in OnDuty
  BY DutyIs DEF RunningIsGuarded
<1>2. pc'[u] \in OnDuty
  BY <1>1 DEF ProcOK
<1> QED
  BY <1>2

(* A step that takes duty up leaves a running core guarded, whatever it    *)
(* does to the core and the watchdogs.                                     *)
LEMMA DutyTaken ==
    ASSUME ProcOK, NEW t \in Threads, NEW label \in OnDuty, pc' = [pc EXCEPT ![t] = label]
    PROVE  RunningIsGuarded'
<1>1. pc'[t] \in OnDuty
  BY DEF ProcOK
<1> QED
  BY <1>1 DEF RunningIsGuarded, StillToSpawn, StillToStop, OnDuty

(* A core that does not run needs no guard.                                *)
LEMMA NothingToGuard == ASSUME core' = NoJob PROVE RunningIsGuarded'
BY DEF RunningIsGuarded, NoJob, Request

(* A watchdog that is about to register, or has, is a guard.               *)
LEMMA WatchdogGuards ==
    ASSUME NEW w \in Watchdogs, wd'[w] \in {"pending", "running"}
    PROVE  RunningIsGuarded'
BY DEF RunningIsGuarded

(* Steps that touch neither the core nor any thread nor a watchdog.        *)
LEMMA NobodyMoves ==
    ASSUME RunningIsGuarded, UNCHANGED <<core, wd, pc>>
    PROVE  RunningIsGuarded'
BY DEF RunningIsGuarded, StillToSpawn, StillToStop, NoJob, Request

(* startCore: on duty from the moment the core runs until the goroutine    *)
(* exists, or until the core is stopped again.                             *)
LEMMA StartCoreGuards ==
    ASSUME TypeOK, RunningIsGuarded, NEW t \in Threads, StartCore(t)
    PROVE  RunningIsGuarded'
<1>0. ProcOK /\ DogOK
  BY DEF TypeOK
<1>1. CASE RefuseStart(t) \/ AdmitStart(t) \/ NewSecret(t) \/ ConfigFails(t) \/ ConfigOk(t)
  <2>1. pc[t] \notin OnDuty /\ UNCHANGED <<core, wd>>
    BY <1>1 DEF RefuseStart, AdmitStart, NewSecret, ConfigFails, ConfigOk, At, OnDuty,
                dogVars, coreVars
  <2>2. PICK label : pc' = [pc EXCEPT ![t] = label]
    BY <1>1 DEF RefuseStart, AdmitStart, NewSecret, ConfigFails, ConfigOk, Goto, EndStart, Return
  <2> QED
    BY <1>0, <2>1, <2>2, DutyGoesOn
<1>2. CASE \/ StopLogStream(t, "stopStream", "newStream") \/ NewLogStream(t)
           \/ StopLogStream(t, "unarmStream", "unarm") \/ Unarm(t) \/ EndFailedStart(t)
  <2>1. pc[t] \notin OnDuty /\ UNCHANGED <<core, wd>>
    BY <1>2 DEF StopLogStream, NewLogStream, Unarm, EndFailedStart, At, OnDuty,
                dogVars, coreVars
  <2>2. PICK label : pc' = [pc EXCEPT ![t] = label]
    BY <1>2 DEF StopLogStream, NewLogStream, Unarm, EndFailedStart, Goto, EndStart, Return
  <2> QED
    BY <1>0, <2>1, <2>2, DutyGoesOn
<1>3. CASE CoreStarts(t)
  <2>1. pc' = [pc EXCEPT ![t] = "arm"]
    BY <1>3 DEF CoreStarts, Goto
  <2>2. "arm" \in OnDuty
    BY DEF OnDuty
  <2> QED
    BY <1>0, <2>1, <2>2, DutyTaken
<1>4. CASE CoreFails(t) \/ UnarmCore(t)
  BY <1>4, NothingToGuard DEF CoreFails, UnarmCore, StopCore
<1>5. CASE \/ ArmKillSwitch(t) \/ ArmFails(t) \/ SetProxy(t) \/ StartMonitor(t)
           \/ TrayConnected(t)
  <2>1. PICK label \in OnDuty : pc' = [pc EXCEPT ![t] = label]
    BY <1>5 DEF ArmKillSwitch, ArmFails, SetProxy, StartMonitor, TrayConnected, Goto, OnDuty
  <2> QED
    BY <1>0, <2>1, DutyTaken
<1>6. CASE SpawnWatchdog(t)
  <2>1. PICK w \in Watchdogs : wd' = [wd EXCEPT ![w] = "pending"]
    BY <1>6 DEF SpawnWatchdog
  <2>2. wd'[w] = "pending"
    BY <1>0, <2>1 DEF DogOK
  <2> QED
    BY <2>2, WatchdogGuards
<1> QED
  BY <1>1, <1>2, <1>3, <1>4, <1>5, <1>6 DEF StartCore

(* stopWatchdog is never the last step of a call: the caller is on duty    *)
(* until its CoreStop.                                                     *)
LEMMA StopGuards ==
    ASSUME ProcOK, NEW t \in Threads, NEW here, NEW next \in OnDuty,
           StopWatchdog(t, here, next)
    PROVE  RunningIsGuarded'
BY DutyTaken DEF StopWatchdog, Goto

(* A step between cancelling the watchdog and stopping the core, or one    *)
(* that comes after both.                                                  *)
LEMMA PassingGuards ==
    ASSUME ProcOK, RunningIsGuarded, NEW t \in Threads, NEW here, NEW next,
           here \in OnDuty => next \in OnDuty,
           \/ ProxyOff(t, here, next) \/ KillSwitchOff(t, here, next)
           \/ CancelMonitor(t, here, next) \/ StopLogStream(t, here, next)
    PROVE  RunningIsGuarded'
<1>1. pc[t] = here /\ pc' = [pc EXCEPT ![t] = next] /\ UNCHANGED <<core, wd>>
  BY DEF ProxyOff, KillSwitchOff, CancelMonitor, StopLogStream, At, Goto, coreVars, dogVars
<1> QED
  BY <1>1, DutyGoesOn

(* A call of the user begins on a thread that had nothing to do.           *)
LEMMA BeginGuards ==
    ASSUME ProcOK, RunningIsGuarded, NEW t \in Threads, NEW label, NEW j,
           Begin(t, label, j), UNCHANGED <<core, wd>>
    PROVE  RunningIsGuarded'
<1>1. pc[t] \notin OnDuty /\ pc' = [pc EXCEPT ![t] = label]
  BY DEF Begin, At, OnDuty
<1> QED
  BY <1>1, DutyGoesOn

(* A thread that is done with a call, or a goroutine that gives up, was    *)
(* off duty already.                                                       *)
LEMMA ReturnGuards ==
    ASSUME ProcOK, RunningIsGuarded, NEW t \in Threads, pc[t] \notin OnDuty,
           Return(t), UNCHANGED <<core, wd>>
    PROVE  RunningIsGuarded'
BY DutyGoesOn DEF Return

(* Every call that stops the core stops the watchdog first.                *)
LEMMA CallerGuards ==
    ASSUME TypeOK, RunningIsGuarded, NEW t \in Callers, Caller(t)
    PROVE  RunningIsGuarded'
<1>0. ProcOK /\ t \in Threads
  BY DEF TypeOK, Threads
<1>1. CASE \E link \in Links, sys \in ProxyModes : StartXray(t, link, sys)
  BY <1>0, <1>1, BeginGuards DEF StartXray, BeginCall, coreVars, dogVars
<1>2. CASE StartCore(t)
  BY <1>0, <1>2, StartCoreGuards
<1>3. CASE StopXray(t)
  <2>1. CASE BeginStop(t)
    BY <1>0, <2>1, BeginGuards DEF BeginStop, BeginCall, coreVars, dogVars
  <2>2. CASE StopWatchdog(t, "xWatchdog", "xProxy")
    BY <1>0, <2>2, StopGuards DEF OnDuty
  <2>3. CASE \/ ProxyOff(t, "xProxy", "xFirewall") \/ KillSwitchOff(t, "xFirewall", "xMonitor")
             \/ CancelMonitor(t, "xMonitor", "xCore") \/ StopLogStream(t, "xStream", "xTray")
    BY <1>0, <2>3, PassingGuards DEF OnDuty
  <2>4. CASE CoreStop(t, "xCore", "xStream")
    BY <2>4, NothingToGuard DEF CoreStop, StopCore
  <2>5. CASE TrayDisconnected(t)
    BY <1>0, <2>5, ReturnGuards DEF TrayDisconnected, At, OnDuty, coreVars, dogVars
  <2> QED
    BY <1>3, <2>1, <2>2, <2>3, <2>4, <2>5 DEF StopXray
<1>4. CASE RestartXray(t)
  <2>1. CASE \E link \in Links, sys \in ProxyModes : BeginRestart(t, link, sys)
    BY <1>0, <2>1, BeginGuards DEF BeginRestart, BeginCall, coreVars, dogVars
  <2>2. CASE StopWatchdog(t, "rWatchdog", "rMonitor")
    BY <1>0, <2>2, StopGuards DEF OnDuty
  <2>3. CASE CancelMonitor(t, "rMonitor", "rCore") \/ StopLogStream(t, "rStream", "check")
    BY <1>0, <2>3, PassingGuards DEF OnDuty
  <2>4. CASE CoreStop(t, "rCore", "rStream")
    BY <2>4, NothingToGuard DEF CoreStop, StopCore
  <2> QED
    BY <1>4, <2>1, <2>2, <2>3, <2>4 DEF RestartXray
<1>5. CASE QuitCall(t)
  <2>1. CASE BeginQuit(t)
    BY <1>0, <2>1, BeginGuards DEF BeginQuit, BeginCall, coreVars, dogVars
  <2>2. CASE StopWatchdog(t, "qWatchdog", "qCore")
    BY <1>0, <2>2, StopGuards DEF OnDuty
  <2>3. CASE CoreStop(t, "qCore", "qProxy")
    BY <2>3, NothingToGuard DEF CoreStop, StopCore
  <2>4. CASE ProxyOff(t, "qProxy", "qFirewall")
    BY <1>0, <2>4, PassingGuards DEF OnDuty
  <2>5. CASE EndQuit(t)
    BY <1>0, <2>5, ReturnGuards DEF EndQuit, At, OnDuty, coreVars, dogVars
  <2> QED
    BY <1>5, <2>1, <2>2, <2>3, <2>4, <2>5 DEF QuitCall
<1>6. CASE RequestAdmin(t)
  <2>1. CASE BeginRelaunch(t)
    BY <1>0, <2>1, BeginGuards DEF BeginRelaunch, BeginCall, coreVars, dogVars
  <2>2. CASE StopWatchdog(t, "aWatchdog", "aCore")
    BY <1>0, <2>2, StopGuards DEF OnDuty
  <2>3. CASE CoreStop(t, "aCore", "aProxy")
    BY <2>3, NothingToGuard DEF CoreStop, StopCore
  <2>4. CASE ProxyOff(t, "aProxy", "aFirewall") \/ KillSwitchOff(t, "aFirewall", "aExit")
    BY <1>0, <2>4, PassingGuards DEF OnDuty
  <2>5. CASE ExitNow(t)
    BY <1>0, <2>5, ReturnGuards DEF ExitNow, At, OnDuty, coreVars, dogVars
  <2> QED
    BY <1>6, <2>1, <2>2, <2>3, <2>4, <2>5 DEF RequestAdmin
<1> QED
  BY <1>1, <1>2, <1>3, <1>4, <1>5, <1>6 DEF Caller

(* A watchdog goes off duty only by dying, and dies only when cancelled:   *)
(* the duty is then with the call that cancelled it, or with a successor.  *)
LEMMA WatchdogKeepsGuard ==
    ASSUME TypeOK, RunningIsGuarded, NEW w \in Watchdogs, Watchdog(w)
    PROVE  RunningIsGuarded'
<1>0. ProcOK /\ DogOK /\ w \in Threads
  BY DEF TypeOK, Threads
<1>1. CASE Register(w)
  <2>1. wd'[w] = "running"
    BY <1>1 DEF Register, CancelFor
  <2> QED
    BY <2>1, WatchdogGuards
<1>2. CASE Trip(w)
  BY <1>0, <1>2, BeginGuards DEF Trip, coreVars, dogVars
<1>3. CASE SwitchServer(w) \/ ReadTarget(w) \/ CheckCancelled(w)
  <2>1. pc[w] \notin OnDuty /\ UNCHANGED <<core, wd>>
    BY <1>3 DEF SwitchServer, ReadTarget, CheckCancelled, At, OnDuty, coreVars, dogVars
  <2>2. PICK label : pc' = [pc EXCEPT ![w] = label]
    BY <1>3 DEF SwitchServer, ReadTarget, CheckCancelled, Goto, Return
  <2> QED
    BY <1>0, <2>1, <2>2, DutyGoesOn
<1>4. CASE CoreStop(w, "dogStop", "dogMonitor")
  BY <1>4, NothingToGuard DEF CoreStop, StopCore
<1>5. CASE CancelMonitor(w, "dogMonitor", "dogCheck")
  BY <1>0, <1>5, PassingGuards DEF OnDuty
<1>6. CASE StartCore(w)
  BY <1>0, <1>6, StartCoreGuards
<1>7. CASE EndWatchdog(w)
  <2>1. UNCHANGED <<core, pc>>
    BY <1>7 DEF EndWatchdog, coreVars, procVars
  <2>2. ASSUME NEW v \in Watchdogs, wd[v] \in {"pending", "running"}
        PROVE  wd'[v] \in {"pending", "running"}
    BY <1>0, <1>7, <2>2 DEF EndWatchdog, DogOK
  <2> QED
    BY <2>1, <2>2 DEF RunningIsGuarded, StillToSpawn, StillToStop, NoJob, Request
<1> QED
  BY <1>1, <1>2, <1>3, <1>4, <1>5, <1>6, <1>7 DEF Watchdog

(* However calls and watchdogs overlap, a core that runs is one somebody   *)
(* still has to guard or to stop.                                          *)
THEOREM RunningGuarded == Spec => []RunningIsGuarded
<1>1. Init => RunningIsGuarded
  BY DEF Init, RunningIsGuarded
<1>2. ASSUME TypeOK, RunningIsGuarded, [Next]_vars PROVE RunningIsGuarded'
  <2>1. CASE \E t \in Callers : Caller(t)
    BY <1>2, <2>1, CallerGuards
  <2>2. CASE \E w \in Watchdogs : Watchdog(w)
    BY <1>2, <2>2, WatchdogKeepsGuard
  <2>3. CASE \E s \in Choices : SaveSettings(s)
    BY <1>2, <2>3, NobodyMoves DEF SaveSettings, coreVars, dogVars, procVars
  <2>4. CASE Exit
    BY <1>2, <2>4, NobodyMoves DEF Exit, coreVars, dogVars, procVars
  <2>5. CASE UNCHANGED vars
    BY <1>2, <2>5, NobodyMoves DEF vars, coreVars, dogVars, procVars
  <2> QED
    BY <1>2, <2>1, <2>2, <2>3, <2>4, <2>5 DEF Next
<1> QED
  BY <1>1, <1>2, TypeCorrect, PTL DEF Spec

(***************************************************************************)
(* What a session looks like between calls that did not overlap: the four  *)
(* invariants of the run Session_serial, for every number of callers,      *)
(* watchdogs and calls.                                                    *)
(*                                                                         *)
(* None of them is inductive, because each speaks of the moments between   *)
(* calls and a call takes many steps.  The invariant SerialInv says        *)
(* what holds at every program point of the one call under way (Phase),    *)
(* so that each step only has to carry the facts of its own label to the   *)
(* next one; that nobody else moves meanwhile (Alone) is what ~overlapped  *)
(* buys.                                                                   *)
(***************************************************************************)
(* A thread with something under way: a call, a restart, or a goroutine    *)
(* that was spawned and has not registered.                                *)
Busy(t) == pc[t] # "idle" \/ (t \in Watchdogs /\ wd[t] = "pending")

Alone == \A t, u \in Threads : Busy(t) /\ Busy(u) => t = u

(* The machine as the start of core wants it.                              *)
ProxySet  == proxy = (core.sys /\ ~core.tun)
RulesSet  == core.killSwitch => firewall = core.link
Dressed   == ProxySet /\ RulesSet /\ monitor /\ stream /\ tray
Watched   == /\ \E w \in Watchdogs : Live(w)
             /\ watchdogLink = core.link /\ watchdogProxy = core.sys
WellServed   == core # NoJob => Watched /\ Dressed
SecretSet == core # NoJob /\ ~refused => secretOk
NoneLive  == \A w \in Watchdogs : ~Live(w)
Clean     == ~proxy /\ firewall = NoLink

(* What the single call under way has established at each program point.   *)
StartPhase(t) ==
    /\ pc[t] \in {"check", "secret", "config"} => WellServed
    /\ pc[t] \in {"check", "secret"} => SecretSet
    /\ pc[t] \in {"config", "stopStream", "newStream", "coreStart"} => secretBy = t
    /\ pc[t] = "newStream" => ~stream
    /\ pc[t] = "coreStart" => stream
    /\ pc[t] \in {"arm", "proxy", "monitor", "tray", "spawn"} =>
          core = job[t] /\ stream /\ secretOk
    /\ pc[t] \in {"proxy", "monitor", "tray", "spawn"} => RulesSet
    /\ pc[t] \in {"monitor", "tray", "spawn"} => ProxySet
    /\ pc[t] \in {"tray", "spawn"} => monitor
    /\ pc[t] = "spawn" => tray

CoreIsDown == {"failStream", "unarmStream", "unarm", "xStream", "xTray", "rStream",
               "qProxy", "qFirewall", "aProxy", "aFirewall", "aExit", "dogMonitor", "dogCheck"}

StopPhase(t) ==
    /\ pc[t] \in CoreIsDown => core = NoJob
    /\ pc[t] \in {"xProxy", "xFirewall", "xMonitor", "xCore", "xStream", "xTray"} => NoneLive
    /\ pc[t] \in {"xFirewall", "xMonitor", "xCore", "xStream", "xTray"} => ~proxy
    /\ pc[t] \in {"xMonitor", "xCore", "xStream", "xTray"} => firewall = NoLink
    /\ pc[t] \in {"xCore", "xStream", "xTray"} => ~monitor
    /\ pc[t] = "xTray" => ~stream
    /\ pc[t] \in {"qFirewall", "aFirewall", "aExit"} => ~proxy
    /\ pc[t] = "aExit" => firewall = NoLink

(* A goroutine spawned by a start holds what that start was for.           *)
SpawnPhase(w) ==
    wd[w] = "pending" =>
        /\ pc[w] = "idle"
        /\ Dressed /\ secretOk
        /\ job[w].link = core.link /\ job[w].sys = core.sys

Phase ==
    /\ \A t \in Threads : StartPhase(t) /\ StopPhase(t)
    /\ \A w \in Watchdogs : SpawnPhase(w)

(* Between calls.                                                          *)
AtRest ==
    /\ Quiet => WellServed /\ SecretSet
    /\ stopped => Quiet /\ AllOff
    /\ quitOnce => (\E t \in Callers : pc[t] \in QuitLabels) \/ (Quiet /\ Clean)
    /\ ~alive => Clean
    /\ ~stranded

SerialInv == ~overlapped => Alone /\ Phase /\ AtRest

(***************************************************************************)
(* The three ways a single call moves on.                                  *)
(***************************************************************************)
(* Whoever is busy is the only one, and it is not quitting unless it is at *)
(* a step of Quit.                                                         *)
LEMMA SoleWorker ==
    ASSUME Alone, AtRest, NEW t \in Threads, Busy(t)
    PROVE  /\ \A u \in Threads \ {t} : ~Busy(u)
           /\ ~stopped
           /\ quitOnce => t \in Callers /\ pc[t] \in QuitLabels
<1>1. \A u \in Threads \ {t} : ~Busy(u)
  BY DEF Alone
<1>2. ~Quiet
  BY DEF Quiet, Busy
<1>3. ASSUME quitOnce PROVE t \in Callers /\ pc[t] \in QuitLabels
  <2>1. PICK u \in Callers : pc[u] \in QuitLabels
    BY <1>2, <1>3 DEF AtRest
  <2>2. Busy(u) /\ u \in Threads
    BY <2>1 DEF Busy, QuitLabels, Threads
  <2> QED
    BY <2>1, <2>2, <1>1
<1> QED
  BY <1>1, <1>2, <1>3 DEF AtRest

(* A thread that has nothing under way meets every demand of its label.    *)
LEMMA IdlePhase ==
    ASSUME NEW t \in Threads, pc[t] = "idle"
    PROVE  StartPhase(t) /\ StopPhase(t)
BY DEF StartPhase, StopPhase, CoreIsDown

(* It goes on to its next program point.                                   *)
LEMMA CarriesOn ==
    ASSUME TypeOK, Alone, Phase, AtRest, NEW t \in Threads, pc[t] # "idle", alive,
           NEW next, next # "idle", pc[t] \in QuitLabels => next \in QuitLabels,
           pc' = [pc EXCEPT ![t] = next],
           \A w \in Watchdogs : wd'[w] = "pending" => wd[w] = "pending",
           StartPhase(t)', StopPhase(t)',
           UNCHANGED <<alive, quitOnce, stopped, stranded>>
    PROVE  SerialInv'
<1>0. Busy(t) /\ \A u \in Threads \ {t} : ~Busy(u)
  BY SoleWorker DEF Busy
<1>1. pc'[t] = next /\ \A u \in Threads \ {t} : pc'[u] = "idle"
  BY <1>0 DEF TypeOK, ProcOK, Busy
<1>2. \A w \in Watchdogs : wd'[w] # "pending"
  BY <1>0 DEF Busy, Threads, Phase, SpawnPhase
<1>3. Alone'
  BY <1>1, <1>2 DEF Alone, Busy
<1>4. Phase'
  <2>1. ASSUME NEW u \in Threads PROVE StartPhase(u)' /\ StopPhase(u)'
    BY <1>1 DEF StartPhase, StopPhase, CoreIsDown
  <2> QED
    BY <1>2, <2>1 DEF Phase, SpawnPhase
<1>5. AtRest'
  BY <1>0, <1>1, SoleWorker DEF AtRest, Quiet
<1> QED
  BY <1>3, <1>4, <1>5 DEF SerialInv

(* It is done.                                                             *)
LEMMA ComesToRest ==
    ASSUME TypeOK, Alone, Phase, AtRest, NEW t \in Threads, pc[t] # "idle",
           pc' = [pc EXCEPT ![t] = "idle"],
           \A w \in Watchdogs : wd'[w] = "pending" => wd[w] = "pending",
           WellServed', SecretSet', stopped' => AllOff',
           pc[t] \in QuitLabels \/ ~alive' => Clean',
           UNCHANGED <<quitOnce, stranded>>
    PROVE  SerialInv'
<1>0. Busy(t) /\ \A u \in Threads \ {t} : ~Busy(u)
  BY SoleWorker DEF Busy
<1>1. \A u \in Threads : pc'[u] = "idle"
  BY <1>0 DEF TypeOK, ProcOK, Busy
<1>2. \A w \in Watchdogs : wd'[w] # "pending"
  BY <1>0 DEF Busy, Threads, Phase, SpawnPhase
<1>3. Alone'
  BY <1>1, <1>2 DEF Alone, Busy
<1>4. Phase'
  <2>1. ASSUME NEW u \in Threads PROVE StartPhase(u)' /\ StopPhase(u)'
    BY <1>1 DEF StartPhase, StopPhase, CoreIsDown
  <2> QED
    BY <1>2, <2>1 DEF Phase, SpawnPhase
<1>5. AtRest'
  <2>1. Quiet'
    BY <1>1, <1>2 DEF Quiet
  <2>2. quitOnce' => Clean'
    BY <1>0, SoleWorker
  <2> QED
    BY <2>1, <2>2 DEF AtRest
<1> QED
  BY <1>3, <1>4, <1>5 DEF SerialInv

(* It takes up a call, or a restart.                                       *)
LEMMA TakesUp ==
    ASSUME TypeOK, SerialInv, NEW t \in Threads, NEW label, NEW j, label # "idle",
           Begin(t, label, j), UNCHANGED <<wd, alive, stranded>>,
           quitOnce' => quitOnce \/ (t \in Callers /\ label \in QuitLabels),
           ~overlapped /\ AtRest => ~stopped',
           ~overlapped /\ AtRest /\ Quiet => StartPhase(t)' /\ StopPhase(t)'
    PROVE  SerialInv'
<1> SUFFICES ASSUME ~overlapped' PROVE Alone' /\ Phase' /\ AtRest'
  BY DEF SerialInv
<1>1. ~overlapped /\ Quiet /\ ~quitOnce /\ alive /\ AtRest
  BY DEF Begin, At, SerialInv
<1>2. pc'[t] = label /\ \A u \in Threads \ {t} : pc'[u] = "idle"
  BY <1>1 DEF Begin, TypeOK, ProcOK, Quiet
<1>3. \A w \in Watchdogs : wd'[w] # "pending"
  BY <1>1 DEF Quiet
<1>4. Alone'
  BY <1>2, <1>3 DEF Alone, Busy
<1>5. Phase'
  <2>1. ASSUME NEW u \in Threads PROVE StartPhase(u)' /\ StopPhase(u)'
    BY <1>1, <1>2 DEF StartPhase, StopPhase, CoreIsDown
  <2> QED
    BY <1>3, <2>1 DEF Phase, SpawnPhase
<1>6. AtRest'
  BY <1>1, <1>2 DEF AtRest, Quiet
<1> QED
  BY <1>4, <1>5, <1>6

(* The last step of a start hands all of it to the goroutine it spawns.    *)
LEMMA SpawnSerial ==
    ASSUME TypeOK, ~overlapped, Alone, Phase, AtRest, NEW t \in Threads, SpawnWatchdog(t)
    PROVE  SerialInv'
<1>0. ProcOK /\ DogOK /\ ~stranded /\ StartPhase(t) /\ pc[t] = "spawn"
  BY DEF TypeOK, AtRest, Phase, SpawnWatchdog, At
<1>1. /\ \A u \in Threads \ {t} : ~Busy(u)
      /\ ~stopped /\ ~quitOnce
  BY <1>0, SoleWorker DEF Busy, QuitLabels
<1>2. PICK w \in Watchdogs :
        /\ wd' = [wd EXCEPT ![w] = "pending"]
        /\ pc' = [pc EXCEPT ![t] = "idle"]
        /\ job' = [job EXCEPT ![t] = NoJob, ![w] = Request(job[t].link, job[t].sys)]
  BY DEF SpawnWatchdog
<1>3. w \in Threads /\ \A u \in Threads : pc'[u] = "idle"
  BY <1>0, <1>1, <1>2 DEF Threads, ProcOK, Busy
<1>4. wd'[w] = "pending" /\ \A v \in Watchdogs \ {w} : wd'[v] # "pending"
  BY <1>0, <1>1, <1>2 DEF DogOK, Busy, Threads, Phase, SpawnPhase
<1>5. Alone'
  BY <1>3, <1>4 DEF Alone, Busy
<1>6. Phase'
  <2>1. ASSUME NEW u \in Threads PROVE StartPhase(u)' /\ StopPhase(u)'
    BY <1>3 DEF StartPhase, StopPhase, CoreIsDown
  <2>2. job'[w] = Request(core.link, core.sys)
    BY <1>0, <1>2, <1>3 DEF ProcOK, StartPhase
  <2>3. Dressed' /\ secretOk' /\ UNCHANGED core
    BY <1>0 DEF SpawnWatchdog, StartPhase, Dressed, ProxySet, RulesSet, osVars, uiVars
  <2>4. SpawnPhase(w)'
    BY <1>3, <2>2, <2>3 DEF SpawnPhase, Request
  <2> QED
    BY <1>4, <2>1, <2>4 DEF Phase, SpawnPhase
<1>7. AtRest'
  <2>1. ~Quiet'
    BY <1>4 DEF Quiet
  <2>2. ~stopped' /\ ~quitOnce' /\ alive' /\ ~stranded'
    BY <1>0, <1>1 DEF SpawnWatchdog, At, lifeVars, histVars, uiVars
  <2> QED
    BY <2>1, <2>2 DEF AtRest
<1> QED
  BY <1>5, <1>6, <1>7 DEF SerialInv

(***************************************************************************)
(* startCore, one case per step.                                           *)
(***************************************************************************)
LEMMA StartCoreSerial ==
    ASSUME TypeOK, ~overlapped, Alone, Phase, AtRest, NEW t \in Threads, StartCore(t)
    PROVE  SerialInv'
<1>0. ProcOK /\ ~stranded /\ StartPhase(t) /\ StopPhase(t)
  BY DEF TypeOK, AtRest, Phase
<1>1. CASE RefuseStart(t)
  <2>1. WellServed' /\ SecretSet'
    BY <1>0, <1>1
       DEF RefuseStart, At, StartPhase, WellServed, SecretSet, Watched, Dressed, Live,
       ProxySet, RulesSet, NoJob, Request, osVars, uiVars, dogVars, histVars
  <2>2. pc[t] = "check" /\ pc' = [pc EXCEPT ![t] = "idle"]
    BY <1>1 DEF RefuseStart, At, EndStart, Return
  <2>3. ~stopped /\ UNCHANGED <<wd, alive, quitOnce, stopped, stranded>> /\ alive
    BY <2>2, <1>1, SoleWorker DEF RefuseStart, At, Busy, dogVars, lifeVars, histVars, uiVars
  <2> QED
    BY <2>1, <2>2, <2>3, ComesToRest DEF QuitLabels
<1>2. CASE AdmitStart(t)
  <2>1. pc[t] = "check" /\ pc' = [pc EXCEPT ![t] = "secret"] /\ pc'[t] = "secret"
    BY <1>0, <1>2 DEF AdmitStart, At, ProcOK
  <2>2. alive /\ UNCHANGED <<wd, alive, quitOnce, stopped, stranded>>
    BY <1>2 DEF AdmitStart, At, dogVars, lifeVars, histVars, uiVars
  <2>3. StartPhase(t)' /\ StopPhase(t)'
    BY <1>0, <1>2, <2>1
       DEF AdmitStart, StartPhase, StopPhase, CoreIsDown, WellServed, SecretSet,
       Watched, Dressed, Live, ProxySet, RulesSet, NoJob, Request, coreVars, osVars, uiVars,
       dogVars, histVars
  <2> QED
    BY <2>1, <2>2, <2>3, CarriesOn DEF QuitLabels
<1>3. CASE NewSecret(t)
  <2>1. pc[t] = "secret" /\ pc'[t] = "config"
    BY <1>0, <1>3 DEF NewSecret, At, Goto, ProcOK
  <2>2. StartPhase(t)' /\ StopPhase(t)'
    BY <1>0, <1>3, <2>1 DEF NewSecret, StartPhase, StopPhase, CoreIsDown, WellServed,
       Watched, Dressed, Live, ProxySet, RulesSet, NoJob, Request, osVars, uiVars, dogVars,
       histVars
  <2> QED
    BY <1>3, <2>1, <2>2, CarriesOn
       DEF NewSecret, At, Goto, QuitLabels, dogVars, lifeVars, histVars, uiVars
<1>4. CASE ConfigFails(t)
  <2>1. pc[t] = "config" /\ pc' = [pc EXCEPT ![t] = "idle"]
    BY <1>4 DEF ConfigFails, At, EndStart, Return
  <2>2. WellServed' /\ SecretSet'
    BY <1>0, <1>4, <2>1
       DEF ConfigFails, StartPhase, StopPhase, CoreIsDown, WellServed, SecretSet,
       Watched, Dressed, Live, ProxySet, RulesSet, NoJob, Request,
       osVars, uiVars, dogVars, histVars
  <2>3. ~stopped /\ UNCHANGED <<wd, alive, quitOnce, stopped, stranded>> /\ alive
    BY <2>1, <1>4, SoleWorker DEF ConfigFails, At, Busy, dogVars, lifeVars, histVars, uiVars
  <2> QED
    BY <2>1, <2>2, <2>3, ComesToRest DEF QuitLabels
<1>5. CASE ConfigOk(t)
  <2>1. pc[t] = "config" /\ pc'[t] = "stopStream"
    BY <1>0, <1>5 DEF ConfigOk, At, Goto, ProcOK
  <2>2. StartPhase(t)' /\ StopPhase(t)'
    BY <1>0, <1>5, <2>1 DEF ConfigOk, StartPhase, StopPhase, CoreIsDown, coreVars
  <2> QED
    BY <1>5, <2>1, <2>2, CarriesOn
       DEF ConfigOk, At, Goto, QuitLabels, dogVars, lifeVars, histVars, uiVars
<1>6. CASE StopLogStream(t, "stopStream", "newStream")
  <2>1. pc[t] = "stopStream" /\ pc'[t] = "newStream"
    BY <1>0, <1>6 DEF StopLogStream, At, Goto, ProcOK
  <2>2. StartPhase(t)' /\ StopPhase(t)'
    BY <1>0, <1>6, <2>1 DEF StopLogStream, StartPhase, StopPhase, CoreIsDown, coreVars
  <2> QED
    BY <1>6, <2>1, <2>2, CarriesOn
       DEF StopLogStream, At, Goto, QuitLabels, dogVars, lifeVars, histVars, uiVars
<1>7. CASE NewLogStream(t)
  <2>1. pc[t] = "newStream" /\ pc'[t] = "coreStart"
    BY <1>0, <1>7 DEF NewLogStream, At, Goto, ProcOK
  <2>2. StartPhase(t)' /\ StopPhase(t)'
    BY <1>0, <1>7, <2>1 DEF NewLogStream, StartPhase, StopPhase, CoreIsDown, coreVars
  <2>3. ~stranded'
    BY <1>0, <1>7, <2>1 DEF NewLogStream, StartPhase
  <2>4. alive /\ UNCHANGED <<wd, alive, quitOnce, stopped>>
    BY <1>7 DEF NewLogStream, At, dogVars, lifeVars, histVars
  <2>5. Goto(t, "coreStart") /\ UNCHANGED stranded
    BY <1>0, <1>7, <2>3 DEF NewLogStream, AtRest, TypeOK, UiOK
  <2> QED
    BY <2>1, <2>2, <2>4, <2>5, CarriesOn DEF Goto, QuitLabels
<1>8. CASE CoreStarts(t)
  <2>1. pc[t] = "coreStart" /\ pc'[t] = "arm"
    BY <1>0, <1>8 DEF CoreStarts, At, Goto, ProcOK
  <2>2. secretBy = t /\ stream
    BY <1>0, <2>1 DEF StartPhase
  <2>3. core' = job'[t] /\ secretOk' /\ stream'
    BY <1>8, <2>2 DEF CoreStarts, Goto, uiVars
  <2>4. StartPhase(t)' /\ StopPhase(t)'
    BY <2>1, <2>3 DEF StartPhase, StopPhase, CoreIsDown
  <2> QED
    BY <1>8, <2>1, <2>4, CarriesOn
       DEF CoreStarts, At, Goto, QuitLabels, dogVars, lifeVars, histVars, uiVars
<1>9. CASE CoreFails(t)
  <2>1. pc[t] = "coreStart" /\ pc'[t] = "failStream"
    BY <1>0, <1>9 DEF CoreFails, At, Goto, ProcOK
  <2>2. StartPhase(t)' /\ StopPhase(t)'
    BY <1>0, <1>9, <2>1 DEF CoreFails, StartPhase, StopPhase, CoreIsDown, StopCore
  <2> QED
    BY <1>9, <2>1, <2>2, CarriesOn
       DEF CoreFails, At, Goto, QuitLabels, dogVars, lifeVars, histVars, uiVars
<1>10. CASE EndFailedStart(t)
  <2>1. pc[t] = "failStream" /\ pc' = [pc EXCEPT ![t] = "idle"]
    BY <1>10 DEF EndFailedStart, At, EndStart, Return
  <2>2. WellServed' /\ SecretSet'
    BY <1>0, <1>10, <2>1
       DEF EndFailedStart, StartPhase, StopPhase, CoreIsDown, WellServed, SecretSet,
       NoJob, Request
  <2>3. ~stopped /\ UNCHANGED <<wd, alive, quitOnce, stopped, stranded>> /\ alive
    BY <2>1, <1>10, SoleWorker DEF EndFailedStart, At, Busy, dogVars, lifeVars, histVars, uiVars
  <2> QED
    BY <2>1, <2>2, <2>3, ComesToRest DEF QuitLabels
<1>11. CASE ArmKillSwitch(t)
  <2>1. pc[t] = "arm" /\ pc'[t] = "proxy"
    BY <1>0, <1>11 DEF ArmKillSwitch, At, Goto, ProcOK
  <2>2. StartPhase(t)' /\ StopPhase(t)'
    BY <1>0, <1>11, <2>1
       DEF ArmKillSwitch, StartPhase, StopPhase, CoreIsDown, Goto, RulesSet, coreVars, uiVars
  <2> QED
    BY <1>11, <2>1, <2>2, CarriesOn
       DEF ArmKillSwitch, At, Goto, QuitLabels, dogVars, lifeVars, histVars, uiVars
<1>12. CASE ArmFails(t)
  <2>1. pc[t] = "arm" /\ pc'[t] = "unarmCore"
    BY <1>0, <1>12 DEF ArmFails, At, Goto, ProcOK
  <2>2. StartPhase(t)' /\ StopPhase(t)'
    BY <1>0, <1>12, <2>1 DEF ArmFails, StartPhase, StopPhase, CoreIsDown, coreVars
  <2> QED
    BY <1>12, <2>1, <2>2, CarriesOn
       DEF ArmFails, At, Goto, QuitLabels, dogVars, lifeVars, histVars, uiVars
<1>13. CASE UnarmCore(t)
  <2>1. pc[t] = "unarmCore" /\ pc'[t] = "unarmStream"
    BY <1>0, <1>13 DEF UnarmCore, At, Goto, ProcOK
  <2>2. StartPhase(t)' /\ StopPhase(t)'
    BY <1>0, <1>13, <2>1 DEF UnarmCore, StartPhase, StopPhase, CoreIsDown, StopCore
  <2> QED
    BY <1>13, <2>1, <2>2, CarriesOn
       DEF UnarmCore, At, Goto, QuitLabels, dogVars, lifeVars, histVars, uiVars
<1>14. CASE StopLogStream(t, "unarmStream", "unarm")
  <2>1. pc[t] = "unarmStream" /\ pc'[t] = "unarm"
    BY <1>0, <1>14 DEF StopLogStream, At, Goto, ProcOK
  <2>2. StartPhase(t)' /\ StopPhase(t)'
    BY <1>0, <1>14, <2>1 DEF StopLogStream, StartPhase, StopPhase, CoreIsDown, coreVars
  <2> QED
    BY <1>14, <2>1, <2>2, CarriesOn
       DEF StopLogStream, At, Goto, QuitLabels, dogVars, lifeVars, histVars, uiVars
<1>15. CASE Unarm(t)
  <2>1. pc[t] = "unarm" /\ pc' = [pc EXCEPT ![t] = "idle"]
    BY <1>15 DEF Unarm, At, EndStart, Return
  <2>2. WellServed' /\ SecretSet'
    BY <1>0, <1>15, <2>1 DEF Unarm, StartPhase, StopPhase, CoreIsDown, WellServed, SecretSet,
       NoJob, Request
  <2>3. ~stopped /\ UNCHANGED <<wd, alive, quitOnce, stopped, stranded>> /\ alive
    BY <2>1, <1>15, SoleWorker DEF Unarm, At, Busy, dogVars, lifeVars, histVars, uiVars
  <2> QED
    BY <2>1, <2>2, <2>3, ComesToRest DEF QuitLabels
<1>16. CASE SetProxy(t)
  <2>1. pc[t] = "proxy" /\ pc'[t] = "monitor"
    BY <1>0, <1>16 DEF SetProxy, At, Goto, ProcOK
  <2>2. StartPhase(t)' /\ StopPhase(t)'
    BY <1>0, <1>16, <2>1 DEF SetProxy, StartPhase, StopPhase, CoreIsDown, Goto, RulesSet,
       ProxySet, coreVars, uiVars
  <2> QED
    BY <1>16, <2>1, <2>2, CarriesOn
       DEF SetProxy, At, Goto, QuitLabels, dogVars, lifeVars, histVars, uiVars
<1>17. CASE StartMonitor(t)
  <2>1. pc[t] = "monitor" /\ pc'[t] = "tray"
    BY <1>0, <1>17 DEF StartMonitor, At, Goto, ProcOK
  <2>2. StartPhase(t)' /\ StopPhase(t)'
    BY <1>0, <1>17, <2>1 DEF StartMonitor, StartPhase, StopPhase, CoreIsDown, Goto, RulesSet,
       ProxySet, coreVars, osVars
  <2> QED
    BY <1>17, <2>1, <2>2, CarriesOn
       DEF StartMonitor, At, Goto, QuitLabels, dogVars, lifeVars, histVars, uiVars
<1>18. CASE TrayConnected(t)
  <2>1. pc[t] = "tray" /\ pc'[t] = "spawn"
    BY <1>0, <1>18 DEF TrayConnected, At, Goto, ProcOK
  <2>2. StartPhase(t)' /\ StopPhase(t)'
    BY <1>0, <1>18, <2>1 DEF TrayConnected, StartPhase, StopPhase, CoreIsDown, Goto, RulesSet,
       ProxySet, coreVars, osVars
  <2> QED
    BY <1>18, <2>1, <2>2, CarriesOn
       DEF TrayConnected, At, Goto, QuitLabels, dogVars, lifeVars, histVars, uiVars
<1>19. CASE SpawnWatchdog(t)
  BY <1>0, <1>19, SpawnSerial
<1> QED
  BY <1>1, <1>2, <1>3, <1>4, <1>5, <1>6, <1>7, <1>8, <1>9, <1>10, <1>11, <1>12, <1>13,
     <1>14, <1>15, <1>16, <1>17, <1>18, <1>19 DEF StartCore

(***************************************************************************)
(* The steps of the calls that stop the session.                           *)
(***************************************************************************)
(* cancelWatchdog() for good leaves no watchdog that may act, and makes    *)
(* none.                                                                   *)
LEMMA CancelForNone ==
    ASSUME GuardIsCancellable, CancelFor(NoOne)
    PROVE  NoneLive' /\ \A w \in Watchdogs : wd'[w] = "pending" => wd[w] = "pending"
BY SessionAssumption DEF GuardIsCancellable, CancelFor, NoneLive, Live

(* StopXray, after its first step: what it has taken down stays down until *)
(* it returns.                                                             *)
LEMMA StopSerial ==
    ASSUME TypeOK, GuardIsCancellable, ~overlapped, Alone, Phase, AtRest,
           NEW t \in Threads, StopXray(t), ~BeginStop(t)
    PROVE  SerialInv'
<1>0. ProcOK /\ ~stranded /\ StartPhase(t) /\ StopPhase(t)
  BY DEF TypeOK, AtRest, Phase
<1>1. CASE StopWatchdog(t, "xWatchdog", "xProxy")
  <2>1. pc[t] = "xWatchdog" /\ pc'[t] = "xProxy"
    BY <1>0, <1>1 DEF StopWatchdog, At, Goto, ProcOK
  <2>2. NoneLive' /\ \A w \in Watchdogs : wd'[w] = "pending" => wd[w] = "pending"
    BY <1>1, CancelForNone DEF StopWatchdog
  <2>3. StartPhase(t)' /\ StopPhase(t)'
    BY <2>1, <2>2 DEF StartPhase, StopPhase, CoreIsDown
  <2> QED
    BY <1>1, <2>1, <2>2, <2>3, CarriesOn
       DEF StopWatchdog, At, Goto, QuitLabels, lifeVars, histVars, uiVars
<1>2. CASE ProxyOff(t, "xProxy", "xFirewall")
  <2>1. pc[t] = "xProxy" /\ pc'[t] = "xFirewall"
    BY <1>0, <1>2 DEF ProxyOff, At, Goto, ProcOK
  <2>2. StartPhase(t)' /\ StopPhase(t)'
    BY <1>0, <1>2, <2>1 DEF ProxyOff, StartPhase, StopPhase, CoreIsDown, NoneLive, Live,
       dogVars, coreVars, uiVars, osVars
  <2> QED
    BY <1>2, <2>1, <2>2, CarriesOn
       DEF ProxyOff, At, Goto, QuitLabels, dogVars, lifeVars, histVars, uiVars
<1>3. CASE KillSwitchOff(t, "xFirewall", "xMonitor")
  <2>1. pc[t] = "xFirewall" /\ pc'[t] = "xMonitor"
    BY <1>0, <1>3 DEF KillSwitchOff, At, Goto, ProcOK
  <2>2. StartPhase(t)' /\ StopPhase(t)'
    BY <1>0, <1>3, <2>1 DEF KillSwitchOff, StartPhase, StopPhase, CoreIsDown, NoneLive, Live,
       dogVars, coreVars, uiVars, osVars
  <2> QED
    BY <1>3, <2>1, <2>2, CarriesOn
       DEF KillSwitchOff, At, Goto, QuitLabels, dogVars, lifeVars, histVars, uiVars
<1>4. CASE CancelMonitor(t, "xMonitor", "xCore")
  <2>1. pc[t] = "xMonitor" /\ pc'[t] = "xCore"
    BY <1>0, <1>4 DEF CancelMonitor, At, Goto, ProcOK
  <2>2. StartPhase(t)' /\ StopPhase(t)'
    BY <1>0, <1>4, <2>1 DEF CancelMonitor, StartPhase, StopPhase, CoreIsDown, NoneLive, Live,
       dogVars, coreVars, uiVars, osVars
  <2> QED
    BY <1>4, <2>1, <2>2, CarriesOn
       DEF CancelMonitor, At, Goto, QuitLabels, dogVars, lifeVars, histVars, uiVars
<1>5. CASE CoreStop(t, "xCore", "xStream")
  <2>1. pc[t] = "xCore" /\ pc'[t] = "xStream"
    BY <1>0, <1>5 DEF CoreStop, At, Goto, ProcOK
  <2>2. StartPhase(t)' /\ StopPhase(t)'
    BY <1>0, <1>5, <2>1 DEF CoreStop, StartPhase, StopPhase, CoreIsDown, StopCore, NoneLive,
       Live, dogVars, coreVars, uiVars, osVars
  <2> QED
    BY <1>5, <2>1, <2>2, CarriesOn
       DEF CoreStop, At, Goto, QuitLabels, dogVars, lifeVars, histVars, uiVars
<1>6. CASE StopLogStream(t, "xStream", "xTray")
  <2>1. pc[t] = "xStream" /\ pc'[t] = "xTray"
    BY <1>0, <1>6 DEF StopLogStream, At, Goto, ProcOK
  <2>2. StartPhase(t)' /\ StopPhase(t)'
    BY <1>0, <1>6, <2>1 DEF StopLogStream, StartPhase, StopPhase, CoreIsDown, NoneLive, Live,
       dogVars, coreVars, uiVars, osVars
  <2> QED
    BY <1>6, <2>1, <2>2, CarriesOn
       DEF StopLogStream, At, Goto, QuitLabels, dogVars, lifeVars, histVars, uiVars
<1>7. CASE TrayDisconnected(t)
  <2>1. pc[t] = "xTray" /\ pc' = [pc EXCEPT ![t] = "idle"]
    BY <1>7 DEF TrayDisconnected, At, Return
  <2>2. AllOff'
    BY <1>0, <1>7, <2>1 DEF TrayDisconnected, StopPhase, CoreIsDown, AllOff, NoneLive, Live,
       coreVars, osVars, dogVars
  <2>3. WellServed' /\ SecretSet'
    BY <2>2 DEF AllOff, WellServed, SecretSet
  <2>4. alive' /\ UNCHANGED <<wd, quitOnce, stranded>>
    BY <1>7 DEF TrayDisconnected, At, dogVars, lifeVars
  <2> QED
    BY <2>1, <2>2, <2>3, <2>4, ComesToRest DEF QuitLabels
<1> QED
  BY <1>1, <1>2, <1>3, <1>4, <1>5, <1>6, <1>7 DEF StopXray

(* RestartXray, up to where it goes into startCore.                        *)
LEMMA RestartSerial ==
    ASSUME TypeOK, GuardIsCancellable, ~overlapped, Alone, Phase, AtRest,
           NEW t \in Threads, RestartXray(t),
           ~(\E link \in Links, sys \in ProxyModes : BeginRestart(t, link, sys))
    PROVE  SerialInv'
<1>0. ProcOK /\ ~stranded /\ StartPhase(t) /\ StopPhase(t)
  BY DEF TypeOK, AtRest, Phase
<1>1. CASE StopWatchdog(t, "rWatchdog", "rMonitor")
  <2>1. pc[t] = "rWatchdog" /\ pc'[t] = "rMonitor"
    BY <1>0, <1>1 DEF StopWatchdog, At, Goto, ProcOK
  <2>2. NoneLive' /\ \A w \in Watchdogs : wd'[w] = "pending" => wd[w] = "pending"
    BY <1>1, CancelForNone DEF StopWatchdog
  <2>3. StartPhase(t)' /\ StopPhase(t)'
    BY <2>1, <2>2 DEF StartPhase, StopPhase, CoreIsDown
  <2> QED
    BY <1>1, <2>1, <2>2, <2>3, CarriesOn
       DEF StopWatchdog, At, Goto, QuitLabels, lifeVars, histVars, uiVars
<1>2. CASE CancelMonitor(t, "rMonitor", "rCore")
  <2>1. pc[t] = "rMonitor" /\ pc'[t] = "rCore"
    BY <1>0, <1>2 DEF CancelMonitor, At, Goto, ProcOK
  <2>2. StartPhase(t)' /\ StopPhase(t)'
    BY <1>0, <1>2, <2>1 DEF CancelMonitor, StartPhase, StopPhase, CoreIsDown, NoneLive, Live,
       dogVars, coreVars, uiVars, osVars
  <2> QED
    BY <1>2, <2>1, <2>2, CarriesOn
       DEF CancelMonitor, At, Goto, QuitLabels, dogVars, lifeVars, histVars, uiVars
<1>3. CASE CoreStop(t, "rCore", "rStream")
  <2>1. pc[t] = "rCore" /\ pc'[t] = "rStream"
    BY <1>0, <1>3 DEF CoreStop, At, Goto, ProcOK
  <2>2. StartPhase(t)' /\ StopPhase(t)'
    BY <1>0, <1>3, <2>1 DEF CoreStop, StartPhase, StopPhase, CoreIsDown, StopCore, NoneLive,
       Live, dogVars, coreVars, uiVars, osVars
  <2> QED
    BY <1>3, <2>1, <2>2, CarriesOn
       DEF CoreStop, At, Goto, QuitLabels, dogVars, lifeVars, histVars, uiVars
<1>4. CASE StopLogStream(t, "rStream", "check")
  <2>1. pc[t] = "rStream" /\ pc'[t] = "check"
    BY <1>0, <1>4 DEF StopLogStream, At, Goto, ProcOK
  <2>2. StartPhase(t)' /\ StopPhase(t)'
    BY <1>0, <1>4, <2>1 DEF StopLogStream, StartPhase, StopPhase, CoreIsDown, WellServed,
       SecretSet, NoneLive, Live, dogVars, coreVars, uiVars, osVars
  <2> QED
    BY <1>4, <2>1, <2>2, CarriesOn
       DEF StopLogStream, At, Goto, QuitLabels, dogVars, lifeVars, histVars, uiVars
<1> QED
  BY <1>1, <1>2, <1>3, <1>4 DEF RestartXray

(* Quit leaves a clean system when its last step is done.                  *)
LEMMA QuitSerial ==
    ASSUME TypeOK, GuardIsCancellable, ~overlapped, Alone, Phase, AtRest,
           NEW t \in Threads, QuitCall(t), ~BeginQuit(t)
    PROVE  SerialInv'
<1>0. ProcOK /\ ~stranded /\ StartPhase(t) /\ StopPhase(t)
  BY DEF TypeOK, AtRest, Phase
<1>1. CASE StopWatchdog(t, "qWatchdog", "qCore")
  <2>1. pc[t] = "qWatchdog" /\ pc'[t] = "qCore"
    BY <1>0, <1>1 DEF StopWatchdog, At, Goto, ProcOK
  <2>2. NoneLive' /\ \A w \in Watchdogs : wd'[w] = "pending" => wd[w] = "pending"
    BY <1>1, CancelForNone DEF StopWatchdog
  <2>3. StartPhase(t)' /\ StopPhase(t)'
    BY <2>1, <2>2 DEF StartPhase, StopPhase, CoreIsDown
  <2> QED
    BY <1>1, <2>1, <2>2, <2>3, CarriesOn
       DEF StopWatchdog, At, Goto, QuitLabels, lifeVars, histVars, uiVars
<1>2. CASE CoreStop(t, "qCore", "qProxy")
  <2>1. pc[t] = "qCore" /\ pc'[t] = "qProxy"
    BY <1>0, <1>2 DEF CoreStop, At, Goto, ProcOK
  <2>2. StartPhase(t)' /\ StopPhase(t)'
    BY <1>0, <1>2, <2>1 DEF CoreStop, StartPhase, StopPhase, CoreIsDown, StopCore, NoneLive,
       Live, dogVars, coreVars, uiVars, osVars
  <2> QED
    BY <1>2, <2>1, <2>2, CarriesOn
       DEF CoreStop, At, Goto, QuitLabels, dogVars, lifeVars, histVars, uiVars
<1>3. CASE ProxyOff(t, "qProxy", "qFirewall")
  <2>1. pc[t] = "qProxy" /\ pc'[t] = "qFirewall"
    BY <1>0, <1>3 DEF ProxyOff, At, Goto, ProcOK
  <2>2. StartPhase(t)' /\ StopPhase(t)'
    BY <1>0, <1>3, <2>1 DEF ProxyOff, StartPhase, StopPhase, CoreIsDown, NoneLive, Live,
       dogVars, coreVars, uiVars, osVars
  <2> QED
    BY <1>3, <2>1, <2>2, CarriesOn
       DEF ProxyOff, At, Goto, QuitLabels, dogVars, lifeVars, histVars, uiVars
<1>4. CASE EndQuit(t)
  <2>1. pc[t] = "qFirewall" /\ pc' = [pc EXCEPT ![t] = "idle"]
    BY <1>4 DEF EndQuit, At, Return
  <2>2. Clean' /\ WellServed' /\ SecretSet'
    BY <1>0, <1>4, <2>1
       DEF EndQuit, StopPhase, CoreIsDown, Clean, WellServed, SecretSet, coreVars
  <2>3. ~stopped /\ UNCHANGED <<wd, alive, quitOnce, stopped, stranded>>
    BY <1>4, <2>1, SoleWorker DEF EndQuit, Busy, dogVars, lifeVars, histVars, uiVars
  <2> QED
    BY <2>1, <2>2, <2>3, ComesToRest
<1> QED
  BY <1>1, <1>2, <1>3, <1>4 DEF QuitCall

(* So does RequestAdmin, and the process is gone.                          *)
LEMMA AdminSerial ==
    ASSUME TypeOK, GuardIsCancellable, ~overlapped, Alone, Phase, AtRest,
           NEW t \in Threads, RequestAdmin(t), ~BeginRelaunch(t)
    PROVE  SerialInv'
<1>0. ProcOK /\ ~stranded /\ StartPhase(t) /\ StopPhase(t)
  BY DEF TypeOK, AtRest, Phase
<1>1. CASE StopWatchdog(t, "aWatchdog", "aCore")
  <2>1. pc[t] = "aWatchdog" /\ pc'[t] = "aCore"
    BY <1>0, <1>1 DEF StopWatchdog, At, Goto, ProcOK
  <2>2. NoneLive' /\ \A w \in Watchdogs : wd'[w] = "pending" => wd[w] = "pending"
    BY <1>1, CancelForNone DEF StopWatchdog
  <2>3. StartPhase(t)' /\ StopPhase(t)'
    BY <2>1, <2>2 DEF StartPhase, StopPhase, CoreIsDown
  <2> QED
    BY <1>1, <2>1, <2>2, <2>3, CarriesOn
       DEF StopWatchdog, At, Goto, QuitLabels, lifeVars, histVars, uiVars
<1>2. CASE CoreStop(t, "aCore", "aProxy")
  <2>1. pc[t] = "aCore" /\ pc'[t] = "aProxy"
    BY <1>0, <1>2 DEF CoreStop, At, Goto, ProcOK
  <2>2. StartPhase(t)' /\ StopPhase(t)'
    BY <1>0, <1>2, <2>1 DEF CoreStop, StartPhase, StopPhase, CoreIsDown, StopCore, NoneLive,
       Live, dogVars, coreVars, uiVars, osVars
  <2> QED
    BY <1>2, <2>1, <2>2, CarriesOn
       DEF CoreStop, At, Goto, QuitLabels, dogVars, lifeVars, histVars, uiVars
<1>3. CASE ProxyOff(t, "aProxy", "aFirewall")
  <2>1. pc[t] = "aProxy" /\ pc'[t] = "aFirewall"
    BY <1>0, <1>3 DEF ProxyOff, At, Goto, ProcOK
  <2>2. StartPhase(t)' /\ StopPhase(t)'
    BY <1>0, <1>3, <2>1 DEF ProxyOff, StartPhase, StopPhase, CoreIsDown, NoneLive, Live,
       dogVars, coreVars, uiVars, osVars
  <2> QED
    BY <1>3, <2>1, <2>2, CarriesOn
       DEF ProxyOff, At, Goto, QuitLabels, dogVars, lifeVars, histVars, uiVars
<1>4. CASE KillSwitchOff(t, "aFirewall", "aExit")
  <2>1. pc[t] = "aFirewall" /\ pc'[t] = "aExit"
    BY <1>0, <1>4 DEF KillSwitchOff, At, Goto, ProcOK
  <2>2. StartPhase(t)' /\ StopPhase(t)'
    BY <1>0, <1>4, <2>1 DEF KillSwitchOff, StartPhase, StopPhase, CoreIsDown, NoneLive, Live,
       dogVars, coreVars, uiVars, osVars
  <2> QED
    BY <1>4, <2>1, <2>2, CarriesOn
       DEF KillSwitchOff, At, Goto, QuitLabels, dogVars, lifeVars, histVars, uiVars
<1>5. CASE ExitNow(t)
  <2>1. pc[t] = "aExit" /\ pc' = [pc EXCEPT ![t] = "idle"]
    BY <1>5 DEF ExitNow, At, Return
  <2>2. Clean' /\ WellServed' /\ SecretSet'
    BY <1>0, <1>5, <2>1 DEF ExitNow, StopPhase, CoreIsDown, Clean, WellServed, SecretSet,
       coreVars, osVars
  <2>3. ~stopped /\ UNCHANGED <<wd, quitOnce, stopped, stranded>>
    BY <1>5, <2>1, SoleWorker DEF ExitNow, Busy, dogVars, lifeVars, histVars, uiVars
  <2> QED
    BY <2>1, <2>2, <2>3, ComesToRest
<1> QED
  BY <1>1, <1>2, <1>3, <1>4, <1>5 DEF RequestAdmin

(***************************************************************************)
(* Calls begin, a goroutine registers, and what moves nobody.              *)
(***************************************************************************)
(* A call of the user, whatever it is, finds the session as the last one   *)
(* left it.                                                                *)
LEMMA CallBegins ==
    ASSUME TypeOK, SerialInv, NEW t \in Callers,
           NEW label \in {"check", "xWatchdog", "rWatchdog", "qWatchdog", "aWatchdog"}, NEW j,
           BeginCall(t, label, j), UNCHANGED <<coreVars, osVars, uiVars, dogVars, alive>>,
           quitOnce' => quitOnce \/ label = "qWatchdog"
    PROVE  SerialInv'
<1>0. t \in Threads /\ Begin(t, label, j) /\ ~stopped' /\ label # "idle"
  BY DEF Threads, BeginCall
<1>1. pc'[t] = label
  BY <1>0 DEF Begin, TypeOK, ProcOK
<1>2. ASSUME AtRest, Quiet PROVE StartPhase(t)' /\ StopPhase(t)'
  <2>1. WellServed /\ SecretSet /\ UNCHANGED refused
    BY <1>0, <1>2 DEF AtRest, Begin
  <2>2. WellServed' /\ SecretSet'
    BY <2>1
       DEF WellServed, SecretSet, Watched, Dressed, Live, ProxySet, RulesSet, NoJob, Request,
       coreVars, osVars, uiVars, dogVars
  <2> QED
    BY <1>1, <2>2 DEF StartPhase, StopPhase, CoreIsDown
<1>3. UNCHANGED <<wd, stranded>> /\ (quitOnce' => quitOnce \/ label \in QuitLabels)
  BY DEF uiVars, dogVars, QuitLabels
<1> QED
  BY <1>0, <1>2, <1>3, TakesUp

(* So does a watchdog that trips; a session that was stopped has none.     *)
LEMMA TripSerial ==
    ASSUME TypeOK, SerialInv, NEW w \in Watchdogs, Trip(w)
    PROVE  SerialInv'
<1>0. ASSUME NEW label \in {"read", "switch"}, NEW j, Begin(w, label, j) PROVE SerialInv'
  <2>1. w \in Threads /\ pc'[w] = label /\ label # "idle"
    BY <1>0 DEF Begin, TypeOK, ProcOK, Threads
  <2>2. StartPhase(w)' /\ StopPhase(w)'
    BY <2>1 DEF StartPhase, StopPhase, CoreIsDown
  <2>3. AtRest => ~stopped'
    BY DEF Trip, AtRest, AllOff, Live
  <2>4. UNCHANGED <<wd, alive, stranded, quitOnce>>
    BY DEF Trip, uiVars, dogVars, lifeVars
  <2> QED
    BY <1>0, <2>1, <2>2, <2>3, <2>4, TakesUp
<1>1. CASE Begin(w, "read", NoJob)
  BY <1>0, <1>1
<1>2. CASE \E alt \in Links \ {watchdogLink} : Begin(w, "switch", Request(alt, FALSE))
  BY <1>0, <1>2
<1> QED
  BY <1>1, <1>2 DEF Trip

(* The goroutine of a finished start takes over the watch, and the session *)
(* is in order.                                                            *)
LEMMA RegisterSerial ==
    ASSUME TypeOK, ~overlapped, Alone, Phase, AtRest, NEW w \in Watchdogs, Register(w)
    PROVE  SerialInv'
<1>0. w \in Threads /\ wd[w] = "pending" /\ Busy(w) /\ pc[w] = "idle" /\ alive /\ ~stranded
  BY DEF Register, Threads, Busy, Phase, SpawnPhase, AtRest
<1>1. (\A u \in Threads \ {w} : ~Busy(u)) /\ ~stopped /\ ~quitOnce
  BY <1>0, SoleWorker DEF QuitLabels
<1>2. \A u \in Threads : pc'[u] = "idle"
  BY <1>0, <1>1 DEF Register, Return, TypeOK, ProcOK, Busy
<1>3. wd'[w] = "running" /\ \A v \in Watchdogs : wd'[v] # "pending"
  BY <1>0, <1>1 DEF Register, CancelFor, Busy, Threads
<1>4. Alone'
  BY <1>2, <1>3 DEF Alone, Busy
<1>5. Phase'
  <2>1. ASSUME NEW u \in Threads PROVE StartPhase(u)' /\ StopPhase(u)'
    BY <1>2 DEF StartPhase, StopPhase, CoreIsDown
  <2> QED
    BY <1>3, <2>1 DEF Phase, SpawnPhase
<1>6. AtRest'
  <2>1. SpawnPhase(w)
    BY DEF Phase
  <2>2. WellServed' /\ SecretSet'
    BY <1>0, <1>3, <2>1 DEF SpawnPhase, Register, WellServed, SecretSet, Watched, Dressed, Live,
       ProxySet, RulesSet, coreVars, osVars, uiVars
  <2>3. ~stopped' /\ ~quitOnce' /\ alive' /\ ~stranded'
    BY <1>0, <1>1 DEF Register, uiVars, lifeVars, histVars
  <2> QED
    BY <2>2, <2>3 DEF AtRest
<1> QED
  BY <1>4, <1>5, <1>6 DEF SerialInv

(* The end of a cancelled goroutine, new settings and standing still       *)
(* change nothing a phase is about.                                        *)
LEMMA NobodyActs ==
    ASSUME SerialInv, UNCHANGED <<procVars, coreVars, osVars, uiVars, watchdogLink, watchdogProxy,
                                  quitOnce, histVars>>,
           alive' = alive,
           \A w \in Watchdogs : /\ (wd'[w] = "pending") = (wd[w] = "pending")
                                /\ Live(w)' = Live(w)
    PROVE  SerialInv'
<1> SUFFICES ASSUME ~overlapped PROVE Alone' /\ Phase' /\ AtRest'
  BY DEF SerialInv, histVars
<1>1. Alone /\ Phase /\ AtRest
  BY DEF SerialInv
<1>2. UNCHANGED <<WellServed, SecretSet, NoneLive, ProxySet, RulesSet, Dressed, Clean,
                  AllOff, Quiet>>
  BY DEF WellServed, SecretSet, NoneLive, ProxySet, RulesSet, Dressed, Clean, AllOff, Quiet,
     Watched,
     NoJob, Request, procVars, coreVars, osVars, uiVars, histVars
<1>3. Alone'
  BY <1>1 DEF Alone, Busy, procVars
<1>4. Phase'
  <2>1. ASSUME NEW u \in Threads PROVE StartPhase(u)' /\ StopPhase(u)'
    <3>1. StartPhase(u) /\ StopPhase(u)
      BY <1>1 DEF Phase
    <3> QED
      BY <1>2, <3>1
         DEF StartPhase, StopPhase, NoJob, Request, procVars, coreVars, osVars, uiVars
  <2>2. ASSUME NEW w \in Watchdogs PROVE SpawnPhase(w)'
    <3>1. SpawnPhase(w)
      BY <1>1 DEF Phase
    <3> QED
      BY <1>2, <3>1 DEF SpawnPhase, procVars, coreVars
  <2> QED
    BY <2>1, <2>2 DEF Phase
<1>5. AtRest'
  BY <1>1, <1>2 DEF AtRest, procVars, uiVars, histVars
<1> QED
  BY <1>3, <1>4, <1>5

(* A process that ends through Quit has nothing left to clean up.          *)
LEMMA ExitSerial == ASSUME SerialInv, Exit PROVE SerialInv'
<1> SUFFICES ASSUME ~overlapped PROVE Alone' /\ Phase' /\ AtRest'
  BY DEF SerialInv, Exit, histVars
<1>1. Alone /\ Phase /\ AtRest
  BY DEF SerialInv
<1>2. Clean
  BY <1>1 DEF AtRest, Exit
<1>3. Alone'
  BY <1>1 DEF Alone, Busy, Exit, procVars, dogVars
<1>4. Phase'
  BY <1>1
     DEF Phase, StartPhase, StopPhase, SpawnPhase, WellServed, SecretSet, NoneLive, ProxySet,
     RulesSet, Dressed, Watched, Live, NoJob, Request, Exit, procVars, coreVars, osVars,
     uiVars, dogVars, histVars
<1>5. AtRest'
  BY <1>1, <1>2 DEF AtRest, Quiet, WellServed, SecretSet, AllOff, Clean, ProxySet,
     RulesSet, Dressed, Watched, Live, NoJob, Request, Exit, procVars, coreVars, osVars,
     uiVars, dogVars, histVars
<1> QED
  BY <1>3, <1>4, <1>5

(***************************************************************************)
(* The invariant, and what follows from it.                                *)
(***************************************************************************)
(* Once two calls have overlapped the invariant says nothing more.         *)
LEMMA OverlapStays == ASSUME TypeOK, overlapped, [Next]_vars PROVE overlapped'
<1> USE DEF histVars
<1>1. ASSUME NEW t \in Threads, StartCore(t) PROVE overlapped'
  BY <1>1
     DEF StartCore, RefuseStart, AdmitStart, NewSecret, ConfigFails, ConfigOk, StopLogStream,
     NewLogStream, CoreStarts, CoreFails, EndFailedStart, ArmKillSwitch, ArmFails, UnarmCore,
     Unarm, SetProxy, StartMonitor, TrayConnected, SpawnWatchdog
<1>2. ASSUME NEW t \in Callers, Caller(t) PROVE overlapped'
  <2>1. t \in Threads
    BY DEF Threads
  <2>2. CASE StartCore(t)
    BY <1>1, <2>1, <2>2
  <2>3. CASE StopXray(t)
    BY <2>3 DEF StopXray, BeginStop, BeginCall, Begin, StopWatchdog, ProxyOff, KillSwitchOff,
       CancelMonitor, CoreStop, StopLogStream, TrayDisconnected
  <2>4. CASE RestartXray(t) \/ \E link \in Links, sys \in ProxyModes : StartXray(t, link, sys)
    BY <2>4
       DEF RestartXray, BeginRestart, StartXray, BeginCall, Begin, StopWatchdog, CancelMonitor,
       CoreStop, StopLogStream
  <2>5. CASE QuitCall(t)
    BY <2>5 DEF QuitCall, BeginQuit, BeginCall, Begin, StopWatchdog, CoreStop, ProxyOff, EndQuit
  <2>6. CASE RequestAdmin(t)
    BY <2>6 DEF RequestAdmin, BeginRelaunch, BeginCall, Begin, StopWatchdog, CoreStop, ProxyOff,
       KillSwitchOff, ExitNow
  <2> QED
    BY <1>2, <2>2, <2>3, <2>4, <2>5, <2>6 DEF Caller
<1>3. ASSUME NEW w \in Watchdogs, Watchdog(w) PROVE overlapped'
  <2>1. w \in Threads
    BY DEF Threads
  <2>2. CASE StartCore(w)
    BY <1>1, <2>1, <2>2
  <2>3. CASE ~StartCore(w)
    BY <1>3, <2>3 DEF Watchdog, Register, Trip, Begin, SwitchServer, ReadTarget, CoreStop,
       CancelMonitor, CheckCancelled, EndWatchdog
  <2> QED
    BY <2>2, <2>3
<1> QED
  BY <1>2, <1>3 DEF Next, SaveSettings, Exit, vars

(* A step of a caller keeps the invariant.                                 *)
LEMMA CallerSerial ==
    ASSUME TypeOK, GuardIsCancellable, SerialInv, ~overlapped, NEW t \in Callers, Caller(t)
    PROVE  SerialInv'
<1>0. t \in Threads /\ Alone /\ Phase /\ AtRest
  BY DEF Threads, SerialInv
<1>1. CASE \E link \in Links, sys \in ProxyModes : StartXray(t, link, sys)
  BY <1>1, CallBegins DEF StartXray, lifeVars
<1>2. CASE StartCore(t)
  BY <1>0, <1>2, StartCoreSerial
<1>3. CASE StopXray(t)
  <2>1. CASE BeginStop(t)
    BY <2>1, CallBegins DEF BeginStop, lifeVars
  <2> QED
    BY <1>0, <1>3, <2>1, StopSerial
<1>4. CASE RestartXray(t)
  <2>1. CASE \E link \in Links, sys \in ProxyModes : BeginRestart(t, link, sys)
    BY <2>1, CallBegins DEF BeginRestart, lifeVars
  <2> QED
    BY <1>0, <1>4, <2>1, RestartSerial
<1>5. CASE QuitCall(t)
  <2>1. CASE BeginQuit(t)
    BY <2>1, CallBegins DEF BeginQuit
  <2> QED
    BY <1>0, <1>5, <2>1, QuitSerial
<1>6. CASE RequestAdmin(t)
  <2>1. CASE BeginRelaunch(t)
    BY <2>1, CallBegins DEF BeginRelaunch, lifeVars
  <2> QED
    BY <1>0, <1>6, <2>1, AdminSerial
<1> QED
  BY <1>1, <1>2, <1>3, <1>4, <1>5, <1>6 DEF Caller

(* So does a step of a watchdog.                                           *)
LEMMA WatchdogSerial ==
    ASSUME TypeOK, SerialInv, ~overlapped, NEW w \in Watchdogs, Watchdog(w)
    PROVE  SerialInv'
<1>0. /\ ProcOK /\ w \in Threads /\ Alone /\ Phase /\ AtRest
      /\ ~stranded /\ StartPhase(w) /\ StopPhase(w)
  BY DEF TypeOK, Threads, SerialInv, Phase, AtRest
<1>1. CASE Register(w)
  BY <1>0, <1>1, RegisterSerial
<1>2. CASE Trip(w)
  BY <1>2, TripSerial
<1>3. CASE SwitchServer(w)
  <2>1. pc[w] = "switch" /\ pc'[w] = "read"
    BY <1>0, <1>3 DEF SwitchServer, At, Goto, ProcOK
  <2>2. StartPhase(w)' /\ StopPhase(w)'
    BY <2>1 DEF StartPhase, StopPhase, CoreIsDown
  <2> QED
    BY <1>0, <1>3, <2>1, <2>2, CarriesOn
       DEF SwitchServer, At, Goto, QuitLabels, lifeVars, histVars, uiVars
<1>4. CASE ReadTarget(w)
  <2>1. pc[w] = "read" /\ pc' = [pc EXCEPT ![w] = "dogStop"] /\ pc'[w] = "dogStop"
    BY <1>0, <1>4 DEF ReadTarget, At, ProcOK
  <2>2. StartPhase(w)' /\ StopPhase(w)'
    BY <2>1 DEF StartPhase, StopPhase, CoreIsDown
  <2> QED
    BY <1>0, <1>4, <2>1, <2>2, CarriesOn
       DEF ReadTarget, At, QuitLabels, dogVars, lifeVars, histVars, uiVars
<1>5. CASE CoreStop(w, "dogStop", "dogMonitor")
  <2>1. pc[w] = "dogStop" /\ pc'[w] = "dogMonitor"
    BY <1>0, <1>5 DEF CoreStop, At, Goto, ProcOK
  <2>2. StartPhase(w)' /\ StopPhase(w)'
    BY <1>5, <2>1 DEF CoreStop, StopCore, StartPhase, StopPhase, CoreIsDown, NoJob, Request
  <2> QED
    BY <1>0, <1>5, <2>1, <2>2, CarriesOn
       DEF CoreStop, At, Goto, QuitLabels, dogVars, lifeVars, histVars, uiVars
<1>6. CASE CancelMonitor(w, "dogMonitor", "dogCheck")
  <2>1. pc[w] = "dogMonitor" /\ pc'[w] = "dogCheck"
    BY <1>0, <1>6 DEF CancelMonitor, At, Goto, ProcOK
  <2>2. StartPhase(w)' /\ StopPhase(w)'
    BY <1>0, <1>6, <2>1
       DEF CancelMonitor, StartPhase, StopPhase, CoreIsDown, NoJob, Request, coreVars
  <2> QED
    BY <1>0, <1>6, <2>1, <2>2, CarriesOn
       DEF CancelMonitor, At, Goto, QuitLabels, dogVars, lifeVars, histVars, uiVars
<1>7. CASE CheckCancelled(w)
  <2>1. pc[w] = "dogCheck" /\ core' = NoJob /\ alive
    BY <1>0, <1>7 DEF CheckCancelled, At, StopPhase, CoreIsDown, NoJob, Request, coreVars
  <2>2. WellServed' /\ SecretSet'
    BY <2>1 DEF WellServed, SecretSet, NoJob, Request
  <2>3. ~stopped /\ UNCHANGED <<wd, alive, quitOnce, stopped, stranded>>
    BY <1>0, <1>7, <2>1, SoleWorker
       DEF CheckCancelled, Busy, dogVars, lifeVars, histVars, uiVars
  <2>4. CASE wd[w] = "cancelled"
    BY <1>0, <1>7, <2>1, <2>2, <2>3, <2>4, ComesToRest DEF CheckCancelled, Return, QuitLabels
  <2>5. CASE wd[w] # "cancelled"
    <3>1. pc' = [pc EXCEPT ![w] = "check"] /\ pc'[w] = "check"
      BY <1>0, <1>7, <2>5 DEF CheckCancelled, Goto, ProcOK
    <3>2. StartPhase(w)' /\ StopPhase(w)'
      BY <2>2, <3>1 DEF StartPhase, StopPhase, CoreIsDown
    <3> QED
      BY <1>0, <2>1, <2>3, <3>1, <3>2, CarriesOn DEF QuitLabels
  <2> QED
    BY <2>4, <2>5
<1>8. CASE StartCore(w)
  BY <1>0, <1>8, StartCoreSerial
<1>9. CASE EndWatchdog(w)
  <2>1. \A v \in Watchdogs : /\ (wd'[v] = "pending") = (wd[v] = "pending")
                             /\ (wd'[v] = "running") = (wd[v] = "running")
    BY <1>9 DEF EndWatchdog, TypeOK, DogOK
  <2> QED
    BY <1>9, <2>1, NobodyActs DEF EndWatchdog, Live, lifeVars
<1> QED
  BY <1>1, <1>2, <1>3, <1>4, <1>5, <1>6, <1>7, <1>8, <1>9 DEF Watchdog

(* As long as no two calls have overlapped, the call under way is where    *)
(* its program point says and the session is in order between calls.       *)
THEOREM SerialCorrect == Spec => []SerialInv
<1>1. Init => SerialInv
  <2> SUFFICES ASSUME Init PROVE Alone /\ Phase /\ AtRest
    BY DEF SerialInv
  <2>1. \A t \in Threads : pc[t] = "idle" /\ ~Busy(t)
    BY DEF Init, Busy
  <2>2. Alone
    BY <2>1 DEF Alone
  <2>3. Phase
    BY <2>1, IdlePhase DEF Phase, SpawnPhase, Init
  <2>4. AtRest
    BY DEF Init, AtRest, WellServed, SecretSet
  <2> QED
    BY <2>2, <2>3, <2>4
<1>2. ASSUME TypeOK, GuardIsCancellable, SerialInv, [Next]_vars PROVE SerialInv'
  <2>1. CASE overlapped
    BY <1>2, <2>1, OverlapStays DEF SerialInv
  <2>2. CASE ~overlapped
    <3>1. CASE \E t \in Callers : Caller(t)
      BY <1>2, <2>2, <3>1, CallerSerial
    <3>2. CASE \E w \in Watchdogs : Watchdog(w)
      BY <1>2, <2>2, <3>2, WatchdogSerial
    <3>3. CASE (\E s \in Choices : SaveSettings(s)) \/ UNCHANGED vars
      BY <1>2, <3>3, NobodyActs DEF SaveSettings, Live, vars, dogVars, lifeVars
    <3>4. CASE Exit
      BY <1>2, <3>4, ExitSerial
    <3> QED
      BY <1>2, <3>1, <3>2, <3>3, <3>4 DEF Next
  <2> QED
    BY <2>1, <2>2
<1> QED
  BY <1>1, <1>2, TypeCorrect, GuardCorrect, PTL DEF Spec

(* Between calls that did not overlap, a running core is watched by a      *)
(* watchdog that would bring back that very core, and the proxy setting,   *)
(* the firewall, the monitor, the log stream, the tray and the secret are  *)
(* the ones it was started for.                                            *)
THEOREM CoherentCorrect == Spec => []CoherentWhenUp
<1>1. SerialInv => CoherentWhenUp
  BY DEF SerialInv, AtRest, CoherentWhenUp, WellServed, SecretSet, Watched, Dressed, ProxySet,
     RulesSet
<1> QED
  BY <1>1, SerialCorrect, PTL

(* After StopXray nothing of the session is left, however many calls came  *)
(* before it and whether they succeeded.                                   *)
THEOREM OffCorrect == Spec => []OffAfterStop
<1>1. SerialInv => OffAfterStop
  BY DEF SerialInv, AtRest, OffAfterStop
<1> QED
  BY <1>1, SerialCorrect, PTL

(* A process that ended through Quit, or to come back elevated, left       *)
(* neither the proxy setting nor a firewall rule behind.                   *)
THEOREM ExitCorrect == Spec => []CleanExit
<1>1. SerialInv => CleanExit
  BY DEF SerialInv, AtRest, CleanExit, Clean
<1> QED
  BY <1>1, SerialCorrect, PTL

(* No streamer goroutine is ever replaced before it was stopped.           *)
THEOREM StreamCorrect == Spec => []NoStrandedStream
<1>1. SerialInv => NoStrandedStream
  BY DEF SerialInv, AtRest, NoStrandedStream
<1> QED
  BY <1>1, SerialCorrect, PTL
=============================================================================
