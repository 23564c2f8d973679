--------------------------- MODULE BackEndProofs ---------------------------
(***************************************************************************)
(* Theorems about the two smaller components of the back end, SystemProxy  *)
(* and Traffic, which share nothing.                                       *)
(***************************************************************************)
EXTENDS SystemProxy, Traffic, TLAPS

(***************************************************************************)
(* What NeoBox keeps to about the system proxy, whatever proxies users     *)
(* have and wherever the process dies: the user's own setting can always   *)
(* be recovered, and it is back whenever NeoBox has finished with it.      *)
(*                                                                         *)
(* Both need two things that the code does not enforce and the theorems    *)
(* therefore name: that one call of SetSystemProxy is done before the next *)
(* one begins (OneByOne), and that the user changes the setting in Windows *)
(* while NeoBox has nothing of it (EditTimes).                             *)
(***************************************************************************)
OneByOne == \A t, u \in Actors : step[t] # Idle /\ step[u] # Idle => t = u

Enabling  == {"capture", "keep", "setEnable", "setServer"}
Disabling == {"take", "putServer", "putEnable", "remove", "look", "clearEnable", "clearServer"}

(* Nothing of the user's is lost: the file is nobody else's, and the       *)
(* server is the user's or NeoBox's.                                       *)
Held ==
    /\ file \in {None, users}
    /\ registry.server \in {Ours, users.server}
    /\ Recoverable

(* What a goroutine relies on at each point of its call.                   *)
InPlace(t) ==
    /\ step[t].at = "idle" => step[t] = Idle
    /\ step[t].at \in Enabling => wanted
    /\ step[t].at \in Disabling => ~wanted
    /\ step[t].at \in Enabling \cup {"take"} => backup = file
    /\ step[t].at = "capture" => registry.server = Ours \/ Same(registry, users)
    /\ step[t].at = "keep" => step[t].with = users /\ users.server # Empty
    /\ step[t].at \in {"setEnable", "setServer"} => (users.server # Empty => file = users)
    /\ step[t].at \in Disabling \ {"take"} => backup = None
    /\ step[t].at \in {"putServer", "putEnable"} => step[t].with = users /\ file = users
    /\ step[t].at = "putEnable" => registry.server = users.server
    /\ step[t].at = "remove" => registry = users
    /\ step[t].at \in {"look", "clearEnable", "clearServer"} => file = None
    /\ step[t].at \in {"clearEnable", "clearServer"} => users.server = Empty

(* Between calls.                                                          *)
AtRest ==
    (alive /\ Settled) =>
        /\ backup = file
        /\ registry.server = Ours \/ Same(registry, users)
        /\ ~wanted => Same(registry, users)

DeadIsIdle == ~alive => Settled

Inv == Held /\ AtRest /\ DeadIsIdle /\ \A t \in Actors : InPlace(t)

(***************************************************************************)
(* Records.                                                                *)
(***************************************************************************)
(* The point of a call, taken apart.                                       *)
LEMMA PointIs == ASSUME NEW label, NEW with
                 PROVE  At(label, with).at = label /\ At(label, with).with = with
BY DEF At

(* A goroutine that goes on to its next point is there, and is the only    *)
(* one that moved.                                                         *)
LEMMA GotoIs ==
    ASSUME step \in [Actors -> [at: Labels, with: Own \cup {None}]], NEW t \in Actors,
           NEW label \in Labels, NEW with \in Own \cup {None}, Goto(t, label, with)
    PROVE  /\ step' \in [Actors -> [at: Labels, with: Own \cup {None}]]
           /\ step'[t] = At(label, with)
           /\ step'[t].at = label /\ step'[t].with = with
           /\ \A u \in Actors \ {t} : step'[u] = step[u]
BY PointIs DEF Goto, At

(* The setting a user without a proxy has.                                 *)
LEMMA NoneIs == /\ None \in Setting /\ None.server = Empty /\ None.enable = FALSE
                /\ None \notin Own
BY SystemProxyAssumption DEF None, Setting, Own

(* What the two kinds of write leave in the registry.                      *)
LEMMA RegistryIs ==
    ASSUME registry \in Setting
    PROVE  /\ \A server \in Servers \cup {Ours, Empty} :
                SetServer(server) => /\ registry' \in Setting /\ registry'.server = server
                                     /\ registry'.enable = registry.enable
           /\ \A enable \in BOOLEAN :
                SetEnable(enable) => /\ registry' \in Setting /\ registry'.enable = enable
                                     /\ registry'.server = registry.server
BY DEF Setting, SetServer, SetEnable

(* Two settings with the same server and flag are the same.                *)
LEMMA SettingsEqual ==
    ASSUME NEW r \in Setting, NEW s \in Setting, r.server = s.server, r.enable = s.enable
    PROVE  r = s
BY DEF Setting

(* What belongs to the user.                                               *)
LEMMA OwnIs ==
    ASSUME NEW s \in Own \cup {None}
    PROVE  /\ s \in Setting /\ s.server \in Servers \cup {Empty} /\ s.server # Ours
           /\ s.enable \in BOOLEAN
           /\ (s.server = Empty) <=> (s = None)
<1>1. CASE s \in Own
  BY <1>1, SystemProxyAssumption DEF Own, None, Setting
<1>2. CASE s = None
  BY <1>2, SystemProxyAssumption DEF None, Setting
<1> QED
  BY <1>1, <1>2

(* The idle goroutine.                                                     *)
LEMMA IdleIs == Idle \in [at: Labels, with: Own \cup {None}] /\ Idle.at = "idle"
BY DEF Idle, At, Labels

(***************************************************************************)
(* Type correctness.                                                       *)
(***************************************************************************)
(* Every variable keeps its type, however calls overlap and whenever the   *)
(* user changes the setting.                                               *)
LEMMA TypeStep == ASSUME TypeOK, [Next]_vars PROVE TypeOK'
<1> DEFINE Point == [at: Labels, with: Own \cup {None}]
<1>0. /\ step \in [Actors -> Point] /\ registry \in Setting
      /\ backup \in Own \cup {None} /\ file \in Own \cup {None}
      /\ \A t \in Threads : t \in Actors
      /\ Main \in Actors
  BY DEF TypeOK, Actors
<1>1. ASSUME NEW t \in Actors, NEW label \in Labels, NEW with \in Own \cup {None},
             Goto(t, label, with)
      PROVE  step' \in [Actors -> Point]
  BY <1>0, <1>1, GotoIs
<1>2. ASSUME NEW t \in Actors PROVE step[t].with \in Own \cup {None}
  BY <1>0, <1>2
<1>3. ASSUME NEW t \in Actors, Enable(t) \/ BeginDisable(t) PROVE TypeOK'
  <2>1. CASE BeginEnable(t) \/ BeginDisable(t)
    BY <1>1, <2>1 DEF BeginEnable, BeginDisable, TypeOK, Labels
  <2>2. CASE Capture(t)
    <3>1. registry.server \notin {Empty, Ours} => registry \in Own
      BY <1>0 DEF Setting, Own
    <3> QED
      BY <1>1, <2>2, <3>1 DEF Capture, TypeOK, Labels
  <2>3. CASE Keep(t)
    BY <1>1, <1>2, <2>3 DEF Keep, TypeOK, Labels
  <2>4. CASE WriteEnable(t) \/ WriteServer(t)
    BY <1>0, <1>1, <2>4, RegistryIs DEF WriteEnable, WriteServer, TypeOK, Labels
  <2> QED
    BY <1>3, <2>1, <2>2, <2>3, <2>4 DEF Enable
<1>4. ASSUME NEW t \in Actors, Restore(t) PROVE TypeOK'
  <2>1. CASE Take(t) \/ Look(t) \/ RemoveFile(t)
    BY <1>0, <1>1, <2>1 DEF Take, Look, RemoveFile, TypeOK, Labels
  <2>2. CASE PutServer(t) \/ PutEnable(t)
    BY <1>0, <1>1, <1>2, <2>2, RegistryIs, OwnIs DEF PutServer, PutEnable, TypeOK, Labels
  <2>3. CASE ClearEnable(t) \/ ClearServer(t)
    BY <1>0, <1>1, <2>3, RegistryIs DEF ClearEnable, ClearServer, TypeOK, Labels
  <2> QED
    BY <1>4, <2>1, <2>2, <2>3 DEF Restore
<1>5. CASE Crash
  BY <1>5, IdleIs DEF Crash, TypeOK
<1>6. CASE Launch
  BY <1>0, <1>1, <1>6 DEF Launch, TypeOK, Labels
<1>7. ASSUME NEW setting \in Own \cup {None}, UserEdits(setting) PROVE TypeOK'
  BY <1>7, OwnIs, SystemProxyAssumption DEF UserEdits, TypeOK
<1>8. CASE UNCHANGED vars
  BY <1>8 DEF vars, TypeOK
<1> QED
  BY <1>0, <1>3, <1>4, <1>5, <1>6, <1>7, <1>8 DEF Next

(* Every variable keeps its type.                                          *)
THEOREM TypeCorrect == Spec => []TypeOK
<1>1. Init => TypeOK
  <2> SUFFICES ASSUME Init PROVE TypeOK
    OBVIOUS
  <2>1. registry \in Setting /\ users \in Own \cup {None}
    BY OwnIs DEF Init
  <2>2. edits \in 0..MaxEdits
    BY SystemProxyAssumption DEF Init
  <2>3. step \in [Actors -> [at: Labels, with: Own \cup {None}]]
    BY IdleIs DEF Init
  <2> QED
    BY <2>1, <2>2, <2>3 DEF Init, TypeOK
<1> QED
  BY <1>1, TypeStep, PTL DEF Spec

(***************************************************************************)
(* How the one call under way moves.                                       *)
(***************************************************************************)
(* An idle goroutine relies on nothing.                                    *)
LEMMA IdleInPlace == ASSUME NEW t, step[t] = Idle PROVE InPlace(t)
BY IdleIs DEF InPlace, Enabling, Disabling

(* Whoever is busy before or after a step of t is t.                       *)
LEMMA Sole ==
    ASSUME TypeOK, OneByOne, OneByOne', NEW t \in Actors, NEW label \in Labels,
           NEW with \in Own \cup {None}, Goto(t, label, with),
           step[t] # Idle \/ label # "idle"
    PROVE  \A u \in Actors \ {t} : step[u] = Idle /\ step'[u] = Idle
<1>1. step'[t].at = label /\ \A u \in Actors \ {t} : step'[u] = step[u]
  BY GotoIs DEF TypeOK
<1>2. CASE step[t] # Idle
  BY <1>1, <1>2 DEF OneByOne
<1>3. CASE label # "idle"
  <2>1. step'[t] # Idle
    BY <1>1, <1>3, IdleIs
  <2> QED
    BY <1>1, <2>1 DEF OneByOne
<1> QED
  BY <1>2, <1>3

(* It goes on.                                                             *)
LEMMA GoesOn ==
    ASSUME TypeOK, OneByOne, OneByOne', NEW t \in Actors, NEW label \in Labels \ {"idle"},
           NEW with \in Own \cup {None}, Goto(t, label, with), alive', Held', InPlace(t)'
    PROVE  Inv'
<1>1. \A u \in Actors \ {t} : step'[u] = Idle
  BY Sole
<1>2. \A u \in Actors : InPlace(u)'
  BY <1>1, IdleInPlace DEF InPlace, Idle, At, Enabling, Disabling
<1>3. step'[t] # Idle
  BY GotoIs, IdleIs DEF TypeOK
<1> QED
  BY <1>2, <1>3 DEF Inv, AtRest, DeadIsIdle, Settled

(* It returns.                                                             *)
LEMMA Returns ==
    ASSUME TypeOK, OneByOne, OneByOne', NEW t \in Actors, step[t] # Idle,
           Goto(t, "idle", None), alive', Held', backup' = file',
           registry'.server = Ours \/ Same(registry', users'),
           ~wanted' => Same(registry', users')
    PROVE  Inv'
<1>1. \A u \in Actors \ {t} : step'[u] = Idle
  BY Sole DEF Labels
<1>2. step'[t] = Idle
  BY GotoIs DEF TypeOK, Labels, Idle
<1>3. \A u \in Actors : InPlace(u)'
  BY <1>1, <1>2, IdleIs DEF InPlace, Enabling, Disabling
<1> QED
  BY <1>3 DEF Inv, AtRest, DeadIsIdle

(***************************************************************************)
(* The steps.                                                              *)
(***************************************************************************)
(* The user's setting and the registry, as far as the steps rely on them.  *)
LEMMA Facts ==
    ASSUME TypeOK, Inv
    PROVE  /\ registry \in Setting /\ users \in Own \cup {None} /\ users \in Setting
           /\ users.server \in Servers \cup {Empty} /\ users.server # Ours
           /\ (users.server = Empty) <=> (users = None)
           /\ file \in {None, users} /\ registry.server \in {Ours, users.server}
           /\ users.server # Empty => registry = users \/ file = users
           /\ Ours # Empty
BY OwnIs, SystemProxyAssumption DEF TypeOK, Inv, Held, Recoverable

(* A call that has something to do finds the process alive and its own     *)
(* point in order.                                                         *)
LEMMA DoingIs ==
    ASSUME TypeOK, Inv, NEW t \in Actors, NEW label \in Labels, Doing(t, label)
    PROVE  alive /\ InPlace(t) /\ step[t].at = label /\ (label # "idle" => step[t] # Idle)
BY IdleIs DEF Doing, Inv

(* SetSystemProxy(true).                                                   *)
LEMMA EnableStep ==
    ASSUME TypeOK, Inv, OneByOne, OneByOne', NEW t \in Actors, Enable(t)
    PROVE  Inv'
<1>0. /\ step \in [Actors -> [at: Labels, with: Own \cup {None}]]
      /\ Held /\ AtRest /\ InPlace(t) /\ step[t].with \in Own \cup {None}
  BY DEF TypeOK, Inv
<1>1. CASE BeginEnable(t)
  <2>1. Goto(t, "capture", None) /\ alive /\ alive' /\ "capture" \in Labels \ {"idle"}
    BY <1>1 DEF BeginEnable, Doing, Labels
  <2>2. step[t] = Idle
    BY <1>0, <1>1 DEF BeginEnable, Doing, InPlace
  <2>3. Settled
    BY <2>1, <2>2, Sole DEF Settled
  <2>4. Held'
    BY <1>0, <1>1 DEF BeginEnable, Held, Recoverable
  <2>5. InPlace(t)'
    BY <1>0, <1>1, <2>1, <2>3, GotoIs
       DEF BeginEnable, InPlace, Enabling, Disabling, AtRest, Same
  <2> QED
    BY <2>1, <2>4, <2>5, GoesOn
<1>2. CASE Capture(t)
  <2>0. alive /\ alive' /\ step[t].at = "capture" /\ wanted' /\ backup' = file'
        /\ UNCHANGED <<registry, file, users>>
    BY <1>0, <1>2 DEF Capture, Doing, InPlace, Enabling
  <2>1. Held'
    BY <1>0, <2>0 DEF Held, Recoverable
  <2>2. CASE registry.server \in {Empty, Ours}
    <3>1. Goto(t, "setEnable", None) /\ "setEnable" \in Labels \ {"idle"}
      BY <1>2, <2>2 DEF Capture, Labels
    <3>2. users.server # Empty => file = users
      BY <2>2, Facts
    <3>3. InPlace(t)'
      BY <1>0, <2>0, <3>1, <3>2, GotoIs DEF InPlace, Enabling, Disabling
    <3> QED
      BY <2>0, <2>1, <3>1, <3>3, GoesOn
  <2>3. CASE registry.server \notin {Empty, Ours}
    <3>1. registry = users /\ users.server # Empty
      BY <1>0, <2>0, <2>3, Facts, SettingsEqual DEF InPlace, Same
    <3>2. /\ Goto(t, "keep", registry) /\ "keep" \in Labels \ {"idle"}
          /\ registry \in Own \cup {None}
      BY <1>2, <2>3, <3>1, Facts DEF Capture, Labels
    <3>3. InPlace(t)'
      BY <1>0, <2>0, <3>1, <3>2, GotoIs DEF InPlace, Enabling, Disabling
    <3> QED
      BY <2>0, <2>1, <3>2, <3>3, GoesOn
  <2> QED
    BY <2>2, <2>3
<1>3. CASE Keep(t)
  <2>1. Goto(t, "setEnable", None) /\ alive /\ alive' /\ "setEnable" \in Labels \ {"idle"}
    BY <1>3 DEF Keep, Doing, Labels
  <2>2. step[t].at = "keep" /\ wanted /\ backup = file /\ step[t].with = users
    BY <1>0, <1>3 DEF Keep, Doing, InPlace, Enabling
  <2>3. backup' = users /\ file' = users /\ UNCHANGED <<registry, users, wanted>>
    BY <1>3, <2>2, Facts DEF Keep
  <2>4. Held'
    BY <1>0, <2>3 DEF Held, Recoverable
  <2>5. InPlace(t)'
    BY <1>0, <2>1, <2>2, <2>3, GotoIs DEF InPlace, Enabling, Disabling
  <2> QED
    BY <2>1, <2>4, <2>5, GoesOn
<1>4. CASE WriteEnable(t)
  <2>1. Goto(t, "setServer", None) /\ alive /\ alive' /\ "setServer" \in Labels \ {"idle"}
    BY <1>4 DEF WriteEnable, Doing, Labels
  <2>2. /\ step[t].at = "setEnable" /\ wanted /\ backup = file
        /\ users.server # Empty => file = users
    BY <1>0, <1>4 DEF WriteEnable, Doing, InPlace, Enabling
  <2>3. registry'.server = registry.server /\ UNCHANGED <<backup, file, users, wanted>>
    BY <1>4, Facts, RegistryIs DEF WriteEnable
  <2>4. Held'
    BY <1>0, <2>2, <2>3 DEF Held, Recoverable
  <2>5. InPlace(t)'
    BY <1>0, <2>1, <2>2, <2>3, GotoIs DEF InPlace, Enabling, Disabling
  <2> QED
    BY <2>1, <2>4, <2>5, GoesOn
<1>5. CASE WriteServer(t)
  <2>1. Goto(t, "idle", None) /\ alive /\ alive' /\ step[t] # Idle
    BY <1>5, IdleIs DEF WriteServer, Doing
  <2>2. /\ step[t].at = "setServer" /\ wanted /\ backup = file
        /\ users.server # Empty => file = users
    BY <1>0, <1>5 DEF WriteServer, Doing, InPlace, Enabling
  <2>3. registry'.server = Ours /\ UNCHANGED <<backup, file, users, wanted>>
    BY <1>5, Facts, RegistryIs DEF WriteServer
  <2>4. Held'
    BY <1>0, <2>2, <2>3 DEF Held, Recoverable
  <2> QED
    BY <2>1, <2>2, <2>3, <2>4, Returns
<1> QED
  BY <1>1, <1>2, <1>3, <1>4, <1>5 DEF Enable

(* SetSystemProxy(false), once it is under way.                            *)
LEMMA RestoreStep ==
    ASSUME TypeOK, Inv, OneByOne, OneByOne', NEW t \in Actors, Restore(t)
    PROVE  Inv'
<1>0. /\ step \in [Actors -> [at: Labels, with: Own \cup {None}]]
      /\ Held /\ AtRest /\ InPlace(t) /\ step[t].with \in Own \cup {None}
  BY DEF TypeOK, Inv
<1>1. CASE Take(t)
  <2>1. step[t].at = "take" /\ ~wanted /\ backup = file /\ alive
    BY <1>0, <1>1 DEF Take, Doing, InPlace, Enabling, Disabling
  <2>2. alive' /\ ~wanted' /\ backup' = None /\ UNCHANGED <<registry, file, users>>
    BY <1>1, <2>1 DEF Take
  <2>3. Held'
    BY <1>0, <2>2 DEF Held, Recoverable
  <2>4. CASE backup = None
    <3>1. Goto(t, "look", None) /\ "look" \in Labels \ {"idle"}
      BY <1>1, <2>4 DEF Take, Labels
    <3>2. InPlace(t)'
      BY <1>0, <2>1, <2>2, <2>4, <3>1, GotoIs DEF InPlace, Enabling, Disabling
    <3> QED
      BY <2>2, <2>3, <3>1, <3>2, GoesOn
  <2>5. CASE backup # None
    <3>1. Goto(t, "putServer", backup) /\ "putServer" \in Labels \ {"idle"}
      BY <1>1, <2>5 DEF Take, Labels
    <3>2. backup = users /\ file = users /\ backup \in Own \cup {None}
      BY <2>1, <2>5, Facts
    <3>3. InPlace(t)'
      BY <1>0, <2>2, <3>1, <3>2, GotoIs DEF InPlace, Enabling, Disabling
    <3> QED
      BY <2>2, <2>3, <3>1, <3>2, <3>3, GoesOn
  <2> QED
    BY <2>4, <2>5
<1>2. CASE PutServer(t)
  <2>1. /\ step[t].at = "putServer" /\ ~wanted /\ backup = None
        /\ step[t].with = users /\ file = users /\ alive
    BY <1>0, <1>2 DEF PutServer, Doing, InPlace, Disabling
  <2>2. /\ Goto(t, "putEnable", users) /\ "putEnable" \in Labels \ {"idle"}
        /\ users \in Own \cup {None}
    BY <1>2, <2>1, Facts DEF PutServer, Labels
  <2>3. registry'.server = users'.server /\ alive' /\ UNCHANGED <<backup, file, users, wanted>>
    BY <1>2, <2>1, Facts, RegistryIs DEF PutServer
  <2>4. Held'
    BY <1>0, <2>1, <2>3 DEF Held, Recoverable
  <2>5. InPlace(t)'
    BY <1>0, <2>1, <2>2, <2>3, GotoIs DEF InPlace, Enabling, Disabling
  <2> QED
    BY <2>2, <2>3, <2>4, <2>5, GoesOn
<1>3. CASE PutEnable(t)
  <2>1. /\ step[t].at = "putEnable" /\ ~wanted /\ backup = None
        /\ step[t].with = users /\ file = users /\ registry.server = users.server /\ alive
    BY <1>0, <1>3 DEF PutEnable, Doing, InPlace, Disabling
  <2>2. Goto(t, "remove", None) /\ "remove" \in Labels \ {"idle"}
    BY <1>3 DEF PutEnable, Labels
  <2>3. registry' = users' /\ alive' /\ UNCHANGED <<backup, file, users, wanted>>
    <3>1. users.enable \in BOOLEAN
      BY Facts, OwnIs
    <3>2. /\ registry' \in Setting /\ registry'.server = users.server
          /\ registry'.enable = users.enable
      BY <1>3, <2>1, <3>1, Facts, RegistryIs DEF PutEnable
    <3> QED
      BY <1>3, <2>1, <3>2, Facts, SettingsEqual DEF PutEnable
  <2>4. Held'
    BY <1>0, <2>1, <2>3 DEF Held, Recoverable
  <2>5. InPlace(t)'
    BY <1>0, <2>1, <2>2, <2>3, GotoIs DEF InPlace, Enabling, Disabling
  <2> QED
    BY <2>2, <2>3, <2>4, <2>5, GoesOn
<1>4. CASE RemoveFile(t)
  <2>1. step[t].at = "remove" /\ ~wanted /\ backup = None /\ registry = users /\ alive
    BY <1>0, <1>4 DEF RemoveFile, Doing, InPlace, Disabling
  <2>2. Goto(t, "idle", None) /\ step[t] # Idle
    BY <1>4, <2>1, IdleIs DEF RemoveFile
  <2>3. file' = None /\ alive' /\ UNCHANGED <<registry, backup, users, wanted>>
    BY <1>4, <2>1 DEF RemoveFile
  <2>4. Held' /\ Same(registry', users')
    BY <1>0, <2>1, <2>3 DEF Held, Recoverable, Same
  <2> QED
    BY <2>1, <2>2, <2>3, <2>4, Returns
<1>5. CASE Look(t)
  <2>1. step[t].at = "look" /\ ~wanted /\ backup = None /\ file = None /\ alive
    BY <1>0, <1>5 DEF Look, Doing, InPlace, Disabling
  <2>2. alive' /\ UNCHANGED <<registry, backup, file, users, wanted>>
    BY <1>5, <2>1 DEF Look
  <2>3. Held'
    BY <1>0, <2>2 DEF Held, Recoverable
  <2>4. CASE registry.server = Ours
    <3>1. Goto(t, "clearEnable", None) /\ "clearEnable" \in Labels \ {"idle"}
      BY <1>5, <2>4 DEF Look, Labels
    <3>2. users.server = Empty
      BY <2>1, <2>4, Facts
    <3>3. InPlace(t)'
      BY <1>0, <2>1, <2>2, <3>1, <3>2, GotoIs DEF InPlace, Enabling, Disabling
    <3> QED
      BY <2>2, <2>3, <3>1, <3>3, GoesOn
  <2>5. CASE registry.server # Ours
    <3>1. Goto(t, "idle", None) /\ step[t] # Idle
      BY <1>5, <2>1, <2>5, IdleIs DEF Look
    <3>2. Same(registry', users')
      BY <2>1, <2>2, <2>5, Facts DEF Same
    <3> QED
      BY <2>1, <2>2, <2>3, <3>1, <3>2, Returns
  <2> QED
    BY <2>4, <2>5
<1>6. CASE ClearEnable(t)
  <2>1. /\ step[t].at = "clearEnable" /\ ~wanted /\ alive
        /\ backup = None /\ file = None /\ users.server = Empty
    BY <1>0, <1>6 DEF ClearEnable, Doing, InPlace, Disabling
  <2>2. Goto(t, "clearServer", None) /\ "clearServer" \in Labels \ {"idle"}
    BY <1>6 DEF ClearEnable, Labels
  <2>3. registry'.server = registry.server /\ alive' /\ UNCHANGED <<backup, file, users, wanted>>
    BY <1>6, <2>1, Facts, RegistryIs DEF ClearEnable
  <2>4. Held'
    BY <1>0, <2>1, <2>3 DEF Held, Recoverable
  <2>5. InPlace(t)'
    BY <1>0, <2>1, <2>2, <2>3, GotoIs DEF InPlace, Enabling, Disabling
  <2> QED
    BY <2>2, <2>3, <2>4, <2>5, GoesOn
<1>7. CASE ClearServer(t)
  <2>1. /\ step[t].at = "clearServer" /\ ~wanted /\ alive
        /\ backup = None /\ file = None /\ users.server = Empty
    BY <1>0, <1>7 DEF ClearServer, Doing, InPlace, Disabling
  <2>2. Goto(t, "idle", None) /\ step[t] # Idle
    BY <1>7, <2>1, IdleIs DEF ClearServer
  <2>3. registry'.server = Empty /\ alive' /\ UNCHANGED <<backup, file, users, wanted>>
    BY <1>7, <2>1, Facts, RegistryIs DEF ClearServer
  <2>4. Held' /\ Same(registry', users')
    BY <1>0, <2>1, <2>3 DEF Held, Recoverable, Same
  <2> QED
    BY <2>1, <2>2, <2>3, <2>4, Returns
<1> QED
  BY <1>1, <1>2, <1>3, <1>4, <1>5, <1>6, <1>7 DEF Restore

(* A call that turns the proxy off begins with what the last one left.     *)
LEMMA DisableBegins ==
    ASSUME TypeOK, Inv, OneByOne, OneByOne', NEW t \in Actors, BeginDisable(t)
    PROVE  Inv'
<1>0. Held /\ AtRest /\ InPlace(t) /\ step \in [Actors -> [at: Labels, with: Own \cup {None}]]
  BY DEF TypeOK, Inv
<1>1. Goto(t, "take", None) /\ alive /\ alive' /\ "take" \in Labels \ {"idle"}
  BY DEF BeginDisable, Doing, Labels
<1>2. step[t] = Idle
  BY <1>0 DEF BeginDisable, Doing, InPlace
<1>3. Settled
  BY <1>1, <1>2, Sole DEF Settled
<1>4. Held'
  BY <1>0 DEF BeginDisable, Held, Recoverable
<1>5. InPlace(t)'
  BY <1>0, <1>1, <1>3, GotoIs DEF BeginDisable, InPlace, Enabling, Disabling, AtRest
<1> QED
  BY <1>1, <1>4, <1>5, GoesOn

(* A crash takes the fields, the file and the registry stay: what was true *)
(* of them at that point is all that the next launch needs.                *)
LEMMA CrashStep == ASSUME Inv, Crash PROVE Inv'
<1>1. \A t \in Actors : step'[t] = Idle
  BY DEF Crash
<1>2. \A t \in Actors : InPlace(t)'
  BY <1>1, IdleIs DEF InPlace, Enabling, Disabling
<1>3. Held'
  BY DEF Crash, Inv, Held, Recoverable
<1> QED
  BY <1>1, <1>2, <1>3 DEF Crash, Inv, AtRest, DeadIsIdle, Settled

(* The launch reads the file back and gives the setting back from it.      *)
LEMMA LaunchStep ==
    ASSUME TypeOK, Inv, OneByOne, OneByOne', Launch
    PROVE  Inv'
<1>0. Held /\ step \in [Actors -> [at: Labels, with: Own \cup {None}]] /\ Main \in Actors
  BY DEF TypeOK, Inv, Actors
<1>1. Goto(Main, "take", None) /\ alive' /\ "take" \in Labels \ {"idle"}
  BY DEF Launch, Labels
<1>2. Held'
  BY <1>0 DEF Launch, Held, Recoverable
<1>3. InPlace(Main)'
  BY <1>0, <1>1, GotoIs DEF Launch, InPlace, Enabling, Disabling
<1> QED
  BY <1>0, <1>1, <1>2, <1>3, GoesOn

(* The user's change, made while NeoBox has nothing of the setting.        *)
LEMMA EditStep ==
    ASSUME EditTimes \subseteq {"off"}, Inv,
           NEW setting \in Own \cup {None}, UserEdits(setting)
    PROVE  Inv'
<1>1. alive /\ Off
  BY DEF UserEdits, EditTime
<1>2. /\ registry' = setting /\ users' = setting /\ file' = None /\ backup' = None
      /\ UNCHANGED <<step, alive, wanted>>
  BY <1>1 DEF UserEdits, Off
<1>3. Held'
  BY <1>2 DEF Held, Recoverable
<1>4. AtRest'
  BY <1>2 DEF AtRest, Same
<1>5. \A t \in Actors : step'[t] = Idle
  BY <1>1, <1>2 DEF Off, Settled
<1>6. \A t \in Actors : InPlace(t)'
  BY <1>5, IdleIs DEF InPlace, Enabling, Disabling
<1> QED
  BY <1>3, <1>4, <1>5, <1>6 DEF Inv, DeadIsIdle, Settled

(* Nothing happens.                                                        *)
LEMMA Stutter == ASSUME Inv, UNCHANGED vars PROVE Inv'
<1>1. Held' /\ AtRest' /\ DeadIsIdle'
  BY DEF Inv, vars, Held, Recoverable, AtRest, Same, DeadIsIdle, Settled
<1>2. ASSUME NEW t \in Actors PROVE InPlace(t)'
  <2>1. InPlace(t)
    BY DEF Inv
  <2> QED
    BY <2>1 DEF vars, InPlace, Same
<1> QED
  BY <1>1, <1>2 DEF Inv

(***************************************************************************)
(* The invariant, and what follows from it.                                *)
(***************************************************************************)
(* As long as no call meets another, the strengthening holds through any   *)
(* number of crashes and launches.                                         *)
THEOREM InvCorrect ==
    ASSUME EditTimes \subseteq {"off"}
    PROVE  Spec /\ []OneByOne => []Inv
<1>1. Init => Inv
  <2> SUFFICES ASSUME Init PROVE Inv
    OBVIOUS
  <2>1. Held /\ AtRest
    BY DEF Init, Held, Recoverable, AtRest, Same
  <2>2. \A t \in Actors : InPlace(t)
    BY IdleInPlace DEF Init
  <2> QED
    BY <2>1, <2>2 DEF Init, Inv, DeadIsIdle
<1>2. ASSUME TypeOK, Inv, OneByOne, OneByOne', [Next]_vars PROVE Inv'
  <2>0. Threads \subseteq Actors
    BY DEF Actors
  <2>1. CASE \E t \in Threads : Enable(t) \/ BeginDisable(t)
    BY <1>2, <2>0, <2>1, EnableStep, DisableBegins
  <2>2. CASE \E t \in Actors : Restore(t)
    BY <1>2, <2>2, RestoreStep
  <2>3. CASE Crash
    BY <1>2, <2>3, CrashStep
  <2>4. CASE Launch
    BY <1>2, <2>4, LaunchStep
  <2>5. CASE \E setting \in Own \cup {None} : UserEdits(setting)
    BY <1>2, <2>5, EditStep
  <2>6. CASE UNCHANGED vars
    BY <1>2, <2>6, Stutter
  <2> QED
    BY <1>2, <2>1, <2>2, <2>3, <2>4, <2>5, <2>6 DEF Next
<1> QED
  BY <1>1, <1>2, TypeCorrect, PTL DEF Spec

(* Wherever the process dies, the user's own proxy is in the registry or   *)
(* in the file that the next launch restores it from.                      *)
THEOREM RecoverableCorrect ==
    ASSUME EditTimes \subseteq {"off"}
    PROVE  Spec /\ []OneByOne => []Recoverable
<1>1. Inv => Recoverable
  BY DEF Inv, Held
<1> QED
  BY <1>1, InvCorrect, PTL

(* Whenever NeoBox has finished with the setting, by a disconnect or by    *)
(* the launch after a crash, it is as the user left it.                    *)
THEOREM GivenBackCorrect ==
    ASSUME EditTimes \subseteq {"off"}
    PROVE  Spec /\ []OneByOne => []GivenBack
<1>1. Inv => GivenBack
  BY DEF Inv, AtRest, GivenBack
<1> QED
  BY <1>1, InvCorrect, PTL

(* The two together, which is what the run checks: wherever the process    *)
(* dies, the user gets his own proxy back (SetSystemProxy,                 *)
(* loadProxyBackup).                                                       *)
THEOREM ComesBackCorrect ==
    ASSUME EditTimes \subseteq {"off"}
    PROVE  Spec /\ []OneByOne => []ProxyComesBack
BY RecoverableCorrect, GivenBackCorrect, PTL DEF ProxyComesBack

(* Between calls the file and the fields of AppService tell the same, so   *)
(* what a crash would bring back is what a disconnect would.               *)
THEOREM FileCorrect ==
    ASSUME EditTimes \subseteq {"off"}
    PROVE  Spec /\ []OneByOne => []FileIsBackup
<1>1. Inv => FileIsBackup
  BY DEF Inv, AtRest, FileIsBackup
<1> QED
  BY <1>1, InvCorrect, PTL

(* Every later step of a call is one of a busy goroutine in a live process *)
(* and leaves it at a point of the call, or idle.                          *)
LEMMA StepIs ==
    ASSUME NEW t, (Enable(t) /\ ~BeginEnable(t)) \/ Restore(t)
    PROVE  /\ step[t] # Idle /\ alive'
           /\ \E label, with : Goto(t, label, with) /\ (label = "idle" => with = None)
<1>1. CASE Capture(t)
  BY <1>1, IdleIs DEF Capture, Doing
<1>2. CASE Keep(t)
  BY <1>2, IdleIs DEF Keep, Doing
<1>3. CASE WriteEnable(t)
  BY <1>3, IdleIs DEF WriteEnable, Doing
<1>4. CASE WriteServer(t)
  BY <1>4, IdleIs DEF WriteServer, Doing
<1>5. CASE Take(t)
  BY <1>5, IdleIs DEF Take, Doing
<1>6. CASE PutServer(t)
  BY <1>6, IdleIs DEF PutServer, Doing
<1>7. CASE PutEnable(t)
  BY <1>7, IdleIs DEF PutEnable, Doing
<1>8. CASE RemoveFile(t)
  BY <1>8, IdleIs DEF RemoveFile, Doing
<1>9. CASE Look(t)
  BY <1>9, IdleIs DEF Look, Doing
<1>10. CASE ClearEnable(t)
  BY <1>10, IdleIs DEF ClearEnable, Doing
<1>11. CASE ClearServer(t)
  BY <1>11, IdleIs DEF ClearServer, Doing
<1> QED
  BY <1>1, <1>2, <1>3, <1>4, <1>5, <1>6, <1>7, <1>8, <1>9, <1>10, <1>11 DEF Enable, Restore

(* A single goroutine cannot meet itself: main() calls SetSystemProxy      *)
(* before the window is up, and only after the process was gone.           *)
LEMMA SingleCaller ==
    ASSUME NEW caller, Threads = {caller}
    PROVE  Spec => []OneByOne
<1> DEFINE IInv == /\ (~alive => Settled) /\ (step[Main] = Idle \/ step[caller] = Idle)
                   /\ \A t \in Actors : step[t].at = "idle" => step[t] = Idle
<1>0. Actors = {caller, Main} /\ caller # Main
  BY SystemProxyAssumption DEF Actors
<1>1. Init => IInv
  BY <1>0 DEF Init, Settled
<1>2. ASSUME TypeOK, IInv, [Next]_vars PROVE IInv'
  <2>0. step \in [Actors -> [at: Labels, with: Own \cup {None}]]
    BY <1>2 DEF TypeOK
  <2>1. ASSUME NEW t \in Actors, NEW label, NEW with, Goto(t, label, with), alive',
               label = "idle" => with = None,
               \A u \in Actors \ {t} : step[u] = Idle
        PROVE  IInv'
    BY <1>0, <2>0, <2>1, PointIs, IdleIs DEF Goto, Idle
  <2>2. ASSUME NEW t \in Actors, step[t] # Idle PROVE \A u \in Actors \ {t} : step[u] = Idle
    BY <1>0, <1>2, <2>2
  <2>3. ASSUME BeginEnable(caller) \/ BeginDisable(caller) PROVE IInv'
    BY <1>0, <2>1, <2>3 DEF BeginEnable, BeginDisable, Doing
  <2>4. ASSUME Enable(caller) PROVE IInv'
    <3>1. CASE BeginEnable(caller)
      BY <2>3, <3>1
    <3>2. CASE ~BeginEnable(caller)
      <4>1. PICK label, with : Goto(caller, label, with) /\ (label = "idle" => with = None)
        BY <2>4, <3>2, StepIs
      <4> QED
        BY <1>0, <2>1, <2>2, <2>4, <3>2, <4>1, StepIs
    <3> QED
      BY <3>1, <3>2
  <2>5. ASSUME NEW t \in Actors, Restore(t) PROVE IInv'
    <3>1. PICK label, with : Goto(t, label, with) /\ (label = "idle" => with = None)
      BY <2>5, StepIs
    <3> QED
      BY <2>1, <2>2, <2>5, <3>1, StepIs
  <2>6. CASE Crash
    BY <1>0, <2>6 DEF Crash, Settled
  <2>7. CASE Launch
    <3>1. Goto(Main, "take", None) /\ alive' /\ Settled
      BY <1>2, <2>7 DEF Launch
    <3> QED
      BY <1>0, <2>1, <3>1 DEF Settled
  <2>8. CASE (\E setting \in Own \cup {None} : UserEdits(setting)) \/ UNCHANGED vars
    BY <1>2, <2>8 DEF UserEdits, vars, Settled
  <2> QED
    BY <1>0, <1>2, <2>3, <2>4, <2>5, <2>6, <2>7, <2>8 DEF Next
<1>3. IInv => OneByOne
  BY <1>0 DEF OneByOne
<1> QED
  BY <1>1, <1>2, <1>3, TypeCorrect, PTL DEF Spec

(* So with one goroutine at a time nothing need be assumed of the calls.   *)
COROLLARY SingleGivenBack ==
    ASSUME EditTimes \subseteq {"off"}, NEW caller, Threads = {caller}
    PROVE  Spec => []ProxyComesBack
BY SingleCaller, ComesBackCorrect, PTL

(***************************************************************************)
(* Theorems about Traffic, for any number of calls and seconds: the totals *)
(* are those of the session the user sees (service.go:160, vpn.go:122).    *)
(*                                                                         *)
(* A report of the core is in one place at a time: in the stream of the    *)
(* one monitor that is not cancelled, in the hands of a monitor, or in the *)
(* totals.  A monitor that is cancelled keeps the one report it may hold,  *)
(* which is all that can come of an earlier session, for by the time the   *)
(* totals are reset every monitor is cancelled.                            *)
(***************************************************************************)
(***************************************************************************)
(* The inductive invariant.                                                *)
(***************************************************************************)
(* A call that has not reset the totals, and the one that has already told *)
(* the window of another session.                                          *)
Early     == call.at \in {"cancel", "close", "secret", "config"}
Switching == call.kind = "switch" /\ Early

(* Which steps a call of each kind takes, and what is known at each.       *)
CallOK ==
    /\ call.kind = "none" => call = NoCall
    /\ call.at = "end" => call = NoCall
    /\ call # NoCall => calls # 0
    /\ call.kind = "start" => call.at \notin {"cancel", "close"}
    /\ call.kind = "stop" => call.at \in {"cancel", "close"}
    /\ dog => session # 0
    /\ call.kind \in {"recover", "switch"} => session # 0
    /\ call.at \in {"open", "monitor"} => session # 0
    /\ call.at \in {"config", "open"} => clashSecret # 0
    /\ call.at = "monitor" => core.session = session

(* Who has not been cancelled is the one that can be.                      *)
TrafficHeld(m) == m.sent \cup m.read
MonitorsOK ==
    /\ \A m \in monitors : /\ m.id <= calls /\ (call # NoCall => m.id # calls)
                           /\ m.cancelled => m.stream = 0 /\ m.sent = {}
                           /\ ~m.cancelled => m.id = cancelMonitor
    /\ \A m, n \in monitors : m.id = n.id => m = n

(* Reports are of this session or an earlier one, and the session that is  *)
(* about to begin has none.                                                *)
Past(r) == r.session <= session /\ r.second <= second /\ (Switching => r.session # session)
PastOK ==
    /\ session <= calls
    /\ call.kind \in {"start", "restart"} /\ Early => session # calls
    /\ core.session <= session
    /\ Switching => core.session # session
    /\ \A r \in counted : Past(r.of)
    /\ \A m \in monitors : \A r \in TrafficHeld(m) : Past(r)

(* No report is in two places.                                             *)
OnceOK ==
    /\ \A m \in monitors : /\ m.sent \cap m.read = {}
                           /\ \A r \in counted : r.of \notin TrafficHeld(m)
                           /\ \A n \in monitors : m # n => TrafficHeld(m) \cap TrafficHeld(n) = {}
    /\ \A r, q \in counted : r.of = q.of => r = q

(* Nothing of the session is missing.                                      *)
WholeOK == \A r \in counted : r.of.session = session => r \in total

(* When the totals are reset all monitors are cancelled.                   *)
ResetsAlone ==
    /\ call.at \in {"secret", "config"} => cancelMonitor = 0 \/ (call.kind = "start" /\ over)
    /\ call.kind = "restart" /\ call.at = "close" => cancelMonitor = 0

(* Only what was in the hands of a cancelled monitor is of an earlier      *)
(* session.                                                                *)
Stray(r) == r.session # session
StraysOK ==
    /\ cancelMonitor # 0 /\ core # Down => core.session = session
    /\ \A m \in monitors : ~m.cancelled => \A r \in TrafficHeld(m) : ~Stray(r)
    /\ \A m \in monitors : \A r \in m.read : \A q \in total :
           Stray(r) /\ Stray(q.of) => q.via # m.id
    /\ \A r, q \in total : Stray(r.of) /\ Stray(q.of) /\ r.via = q.via => r = q
CleanOK == ~over /\ ~unreset /\ ~Switching => StraysOK

IInv == /\ TrafficTypeOK /\ CallOK /\ MonitorsOK /\ PastOK /\ OnceOK
        /\ WholeOK /\ ResetsAlone /\ CleanOK

(***************************************************************************)
(* Types.                                                                  *)
(***************************************************************************)
LEMMA TypesAre ==
    ASSUME TrafficTypeOK
    PROVE  /\ calls \in Nat /\ calls \in 0..MaxCalls
           /\ clashSecret \in 0..MaxCalls /\ session \in 0..MaxCalls
           /\ cancelMonitor \in 0..MaxCalls /\ second \in 0..MaxSeconds
           /\ core.secret \in 0..MaxCalls /\ core.session \in 0..MaxCalls
           /\ (core # Down) => core.secret \in Ids /\ core.session \in Ids
BY TrafficAssumption DEF TrafficTypeOK, Down, Ids

(* What the fields of a monitor hold.                                      *)
LEMMA FieldsAre ==
    ASSUME NEW m \in Monitor
    PROVE  /\ m.id \in Ids /\ m.id \in Nat /\ m.cancelled \in BOOLEAN /\ m.stream \in 0..MaxCalls
           /\ m.sent \subseteq Reports /\ m.read \subseteq Reports
           /\ m.read # {} => \E r \in Reports : m.read = {r}
BY TrafficAssumption DEF Monitor, Ids

LEMMA ReportIs ==
    ASSUME NEW r \in Reports
    PROVE  r.session \in Nat /\ r.second \in Nat /\ r.core \in Nat /\ r.session # 0
BY TrafficAssumption DEF Reports, Ids

(* What becomes of a monitor when it is cancelled, when its stream breaks, *)
(* and when it is new.                                                     *)
Stopped(m) == [m EXCEPT !.cancelled = TRUE, !.stream = 0, !.sent = {}]

LEMMA StoppedIs ==
    ASSUME NEW m \in Monitor
    PROVE  /\ Stopped(m) \in Monitor /\ Stopped(m).id = m.id /\ Stopped(m).read = m.read
           /\ Stopped(m).cancelled /\ Stopped(m).stream = 0 /\ Stopped(m).sent = {}
<1> DEFINE Reads == {{}} \cup {{r} : r \in Reports}
           Sents == SUBSET Reports
<1>1. m \in [id: Ids, cancelled: BOOLEAN, stream: 0..MaxCalls, sent: Sents, read: Reads]
  BY DEF Monitor
<1>2. 0 \in 0..MaxCalls /\ {} \in Sents
  BY TrafficAssumption
<1> HIDE DEF Reads, Sents
<1>3. Stopped(m) \in [id: Ids, cancelled: BOOLEAN, stream: 0..MaxCalls, sent: Sents, read: Reads]
  BY <1>1, <1>2 DEF Stopped
<1> QED
  BY <1>1, <1>3 DEF Stopped, Monitor, Reads, Sents

LEMMA BrokenIs ==
    ASSUME NEW m \in Monitor, NEW stream \in 0..MaxCalls
    PROVE  LET x == [m EXCEPT !.stream = stream] IN
           /\ x \in Monitor /\ x.id = m.id /\ x.read = m.read
           /\ x.cancelled = m.cancelled /\ x.stream = stream /\ x.sent = m.sent
BY DEF Monitor

LEMMA FreshIs ==
    ASSUME NEW id \in Ids
    PROVE  /\ Fresh(id) \in Monitor /\ Fresh(id).id = id /\ ~Fresh(id).cancelled
           /\ Fresh(id).read = {} /\ Fresh(id).sent = {}
BY TrafficAssumption DEF Fresh, Monitor

(***************************************************************************)
(* What the steps of a call and a new connection make of the monitors.     *)
(***************************************************************************)
(* x is what has become of m, which still holds no more than it did.       *)
From(x, m) ==
    /\ x \in Monitor /\ x.id = m.id /\ x.read = m.read /\ x.sent \subseteq m.sent
    /\ x.cancelled => x.stream = 0 /\ x.sent = {}
    /\ m.cancelled => x.cancelled

HandedOn(M) ==
    /\ \A x \in M : \E m \in monitors : From(x, m)
    /\ \A x, y \in M : x.id = y.id => x = y

LEMMA SameMonitors ==
    ASSUME TrafficTypeOK, MonitorsOK
    PROVE  HandedOn(monitors)
BY DEF TrafficTypeOK, MonitorsOK, HandedOn, From

LEMMA BrokenMonitors ==
    ASSUME TrafficTypeOK, MonitorsOK
    PROVE  HandedOn(Broken)
<1>0. 0 \in 0..MaxCalls
  BY TrafficAssumption
<1>1. ASSUME NEW m \in monitors PROVE From([m EXCEPT !.stream = 0], m)
  BY <1>0, <1>1, BrokenIs DEF TrafficTypeOK, MonitorsOK, From
<1>2. ASSUME NEW x \in Broken
      PROVE  \E m \in monitors : x = [m EXCEPT !.stream = 0] /\ From(x, m)
  BY <1>1 DEF Broken
<1>3. ASSUME NEW x \in Broken, NEW y \in Broken, x.id = y.id PROVE x = y
  <2>1. PICK m \in monitors : x = [m EXCEPT !.stream = 0] /\ x.id = m.id
    BY <1>2 DEF From
  <2>2. PICK n \in monitors : y = [n EXCEPT !.stream = 0] /\ y.id = n.id
    BY <1>2 DEF From
  <2> QED
    BY <1>3, <2>1, <2>2 DEF MonitorsOK
<1> QED
  BY <1>2, <1>3 DEF HandedOn

LEMMA CancelledMonitors ==
    ASSUME TrafficTypeOK, MonitorsOK
    PROVE  HandedOn(Cancelled(cancelMonitor)) /\ \A x \in Cancelled(cancelMonitor) : x.cancelled
<1> DEFINE id == cancelMonitor
<1>1. ASSUME NEW x \in Cancelled(id)
      PROVE  \E m \in monitors : \/ m.id # id /\ x = m
                                 \/ m.id = id /\ x = Stopped(m)
  BY DEF Cancelled, Stopped
<1>2. ASSUME NEW m \in monitors
      PROVE  /\ From(Stopped(m), m) /\ Stopped(m).cancelled
             /\ m.id # id => From(m, m) /\ m.cancelled
  BY StoppedIs DEF TrafficTypeOK, MonitorsOK, From
<1>3. ASSUME NEW x \in Cancelled(id)
      PROVE  x.cancelled /\ \E m \in monitors : From(x, m)
  BY <1>1, <1>2
<1>4. ASSUME NEW x \in Cancelled(id), NEW y \in Cancelled(id), x.id = y.id PROVE x = y
  <2>1. PICK m \in monitors : (m.id # id /\ x = m) \/ (m.id = id /\ x = Stopped(m))
    BY <1>1
  <2>2. PICK n \in monitors : (n.id # id /\ y = n) \/ (n.id = id /\ y = Stopped(n))
    BY <1>1
  <2>3. m.id = n.id
    BY <1>2, <1>4, <2>1, <2>2 DEF From
  <2> QED
    BY <2>1, <2>2, <2>3 DEF MonitorsOK
<1> QED
  BY <1>3, <1>4 DEF HandedOn

(* The steps of a call but the last, by the monitors they leave.           *)
CallStep ==
    \/ StartXray \/ RestartXray \/ StopXray \/ Recover \/ SwitchToLiveServer
    \/ Cancel \/ Close \/ Refuse \/ NewSecret \/ ResetSessionTraffic
    \/ CoreFails \/ CoreStarts

LEMMA CallStepMonitors ==
    ASSUME TrafficTypeOK, MonitorsOK, CallStep
    PROVE  HandedOn(monitors')
<1>1. CASE UNCHANGED monitors
  BY <1>1, SameMonitors
<1>2. CASE Cancel
  BY <1>2, CancelledMonitors DEF Cancel
<1>3. CASE Close \/ CoreFails \/ CoreStarts
  BY <1>3, BrokenMonitors DEF Close, CoreFails, CoreStarts
<1> QED
  BY <1>1, <1>2, <1>3 DEF CallStep, StartXray, RestartXray, StopXray, Recover,
     SwitchToLiveServer, Begin, Refuse, NewSecret, ResetSessionTraffic, Monitors

LEMMA ConnectMonitors ==
    ASSUME TrafficTypeOK, MonitorsOK, NEW m \in monitors, Connect(m)
    PROVE  HandedOn(monitors') /\ core.secret # 0 /\ core.session # 0
<1> DEFINE n == [m EXCEPT !.stream = core.secret, !.sent = {}]
<1>0. m \in Monitor /\ core.secret \in 0..MaxCalls /\ core.secret # 0 /\ core.session # 0
  BY TypesAre DEF TrafficTypeOK, Connect, Ids
<1>1. n \in Monitor /\ n.id = m.id /\ n.read = m.read /\ n.sent = {} /\ n.cancelled = m.cancelled
  <2> DEFINE Reads == {{}} \cup {{r} : r \in Reports}
             Sents == SUBSET Reports
  <2>1. m \in [id: Ids, cancelled: BOOLEAN, stream: 0..MaxCalls, sent: Sents, read: Reads]
    BY <1>0 DEF Monitor
  <2>2. {} \in Sents
    OBVIOUS
  <2> HIDE DEF Reads, Sents
  <2>3. n \in [id: Ids, cancelled: BOOLEAN, stream: 0..MaxCalls, sent: Sents, read: Reads]
    BY <1>0, <2>1, <2>2
  <2> QED
    BY <2>1, <2>3 DEF Monitor, Reads, Sents
<1> HIDE DEF n
<1>2. From(n, m) /\ monitors' = (monitors \ {m}) \cup {n}
  BY <1>1 DEF From, Connect, Becomes, n
<1>3. \A x \in monitors : From(x, x)
  BY DEF TrafficTypeOK, MonitorsOK, From
<1>4. \A x, y \in monitors' : x.id = y.id => x = y
  BY <1>1, <1>2 DEF MonitorsOK
<1> QED
  BY <1>0, <1>2, <1>3, <1>4 DEF HandedOn

(***************************************************************************)
(* Every step keeps the types and the shape of calls.                      *)
(***************************************************************************)
Shape == TrafficTypeOK /\ CallOK /\ MonitorsOK

(* The variables of a call: what a step must show of them.                 *)
Typed ==
    /\ call \in [kind: {"none", "start", "restart", "recover", "switch", "stop"},
                 at: {"end", "cancel", "close", "secret", "config", "open", "monitor"}]
    /\ {calls, clashSecret, session, cancelMonitor} \subseteq 0..MaxCalls
    /\ core \in [secret: Ids, session: Ids] \cup {Down}
    /\ {dog, over, unreset} \subseteq BOOLEAN

LEMMA TypedIs ==
    /\ TrafficTypeOK => Typed
    /\ TrafficTypeOK' <=>
           /\ Typed' /\ second' \in 0..MaxSeconds /\ total' \subseteq counted'
           /\ \A m \in monitors' : m \in Monitor
           /\ \A r \in counted' : r.of \in Reports /\ r.via \in Ids
BY DEF TrafficTypeOK, Typed, Ids, Monitor, Reports, Down

LEMMA BeginTyped ==
    ASSUME Shape,
           NEW kind \in {"start", "restart", "recover", "switch", "stop"},
           NEW first \in {"cancel", "close", "secret"}, Begin(kind, first)
    PROVE  /\ call' \in [kind: {"none", "start", "restart", "recover", "switch", "stop"},
                 at: {"end", "cancel", "close", "secret", "config", "open", "monitor"}]
           /\ call'.kind = kind /\ call'.at = first /\ calls' \in 0..MaxCalls /\ calls' # 0
           /\ {clashSecret', session, cancelMonitor'} \subseteq 0..MaxCalls
           /\ core' \in [secret: Ids, session: Ids] \cup {Down}
           /\ unreset' \in BOOLEAN
<1>1. /\ call' = [kind |-> kind, at |-> first] /\ calls < MaxCalls /\ calls' = calls + 1
      /\ UNCHANGED <<clashSecret, core, unreset, cancelMonitor>> /\ TrafficTypeOK
  BY DEF Begin, Monitors, Shape
<1>2. calls' \in 0..MaxCalls /\ calls' # 0
  BY <1>1, TypesAre, TrafficAssumption
<1>3. {clashSecret', session, cancelMonitor'} \subseteq 0..MaxCalls
  BY <1>1, TypesAre
<1>4. core' \in [secret: Ids, session: Ids] \cup {Down} /\ unreset' \in BOOLEAN
  BY <1>1 DEF TrafficTypeOK
<1> QED
  BY <1>1, <1>2, <1>3, <1>4

LEMMA CallStepTyped ==
    ASSUME Shape, CallStep
    PROVE  Typed' /\ CallOK'
<1>0. TrafficTypeOK /\ CallOK
      /\ call.kind \in {"none", "start", "restart", "recover", "switch", "stop"}
      /\ call.at \in {"end", "cancel", "close", "secret", "config", "open", "monitor"}
      /\ {dog, over, unreset} \subseteq BOOLEAN
  BY DEF Shape, TrafficTypeOK
<1>1. CASE StartXray
  BY <1>0, <1>1, BeginTyped DEF StartXray, Typed, CallOK, Begin, NoCall
<1>2. CASE RestartXray
  BY <1>0, <1>2, BeginTyped DEF RestartXray, Typed, CallOK, Begin, NoCall
<1>3. CASE StopXray
  BY <1>0, <1>3, BeginTyped DEF StopXray, Typed, CallOK, Begin, NoCall
<1>4. CASE Recover
  BY <1>0, <1>4, BeginTyped DEF Recover, Typed, CallOK, Begin, NoCall
<1>5. CASE SwitchToLiveServer
  BY <1>0, <1>5, BeginTyped DEF SwitchToLiveServer, Typed, CallOK, Begin, NoCall
<1>6. CASE Cancel
  <2>1. call.kind # "start" /\ call # NoCall /\ calls # 0
    BY <1>0, <1>6 DEF Cancel, CallOK, NoCall
  <2>2. /\ call' = [call EXCEPT !.at = IF call.kind \in {"stop", "restart"} THEN "close"
                                     ELSE "secret"]
        /\ cancelMonitor' = 0
        /\ UNCHANGED <<calls, dog, clashSecret, core, session, over, unreset>>
    BY <1>6 DEF Cancel, GoOn, History
  <2>3. Typed'
    BY <1>0, <2>2, TypesAre, TrafficAssumption DEF Typed, TrafficTypeOK
  <2> QED
    BY <1>0, <2>1, <2>2, <2>3 DEF CallOK, TrafficTypeOK, NoCall
<1>7. CASE Close
  BY <1>0, <1>7, TypesAre DEF Close, GoOn, Return, Typed, TrafficTypeOK, CallOK, NoCall, History
<1>8. CASE Refuse
  BY <1>0, <1>8, TypesAre DEF Refuse, Return, Typed, TrafficTypeOK, CallOK, NoCall, Monitors
<1>9. CASE NewSecret
  BY <1>0, <1>9, TypesAre DEF NewSecret, GoOn, Typed, TrafficTypeOK, CallOK, NoCall,
     Monitors, History
<1>10. CASE ResetSessionTraffic
  BY <1>0, <1>10, TypesAre DEF ResetSessionTraffic, GoOn, Typed, TrafficTypeOK, CallOK, NoCall,
     Monitors, History
<1>11. CASE CoreFails
  BY <1>0, <1>11, TypesAre DEF CoreFails, Return, Typed, TrafficTypeOK, CallOK, NoCall, History
<1>12. CASE CoreStarts
  BY <1>0, <1>12, TypesAre DEF CoreStarts, GoOn, Typed, TrafficTypeOK, CallOK, NoCall, History, Ids
<1> QED
  BY <1>1, <1>2, <1>3, <1>4, <1>5, <1>6, <1>7, <1>8, <1>9, <1>10, <1>11, <1>12 DEF CallStep

(***************************************************************************)
(* Steps that go on with the session: all of a call but the reset and the  *)
(* news of another server, and a connection.                               *)
(***************************************************************************)
Quiet ==
    /\ UNCHANGED <<session, total, counted, second>>
    /\ HandedOn(monitors')
    /\ (Switching' => Switching) /\ (over => over') /\ (unreset => unreset')
    /\ Switching => Switching' \/ unreset'
    /\ core' \in {core, Down} \/ (core'.session = session /\ ~Early')
    /\ \/ cancelMonitor' = cancelMonitor
       \/ cancelMonitor' = 0 /\ \A x \in monitors' : x.cancelled
    /\ \/ calls' = calls + 1
       \/ /\ calls' = calls /\ (call' # NoCall => call # NoCall)
          /\ call'.kind \in {"start", "restart"} /\ Early' =>
                 call.kind \in {"start", "restart"} /\ Early

LEMMA CallIsQuiet ==
    ASSUME Shape, CallStep, ~ResetSessionTraffic, ~SwitchToLiveServer
    PROVE  Quiet
<1>0. HandedOn(monitors') /\ TrafficTypeOK /\ CallOK /\ MonitorsOK
  BY CallStepMonitors DEF Shape
<1>1. CASE StartXray
  BY <1>0, <1>1 DEF StartXray, Begin, Monitors, Totals, Quiet, Switching, Early, NoCall
<1>2. CASE RestartXray
  BY <1>0, <1>2 DEF RestartXray, Begin, Monitors, Totals, Quiet, Switching, Early, NoCall
<1>3. CASE StopXray
  BY <1>0, <1>3 DEF StopXray, Begin, Monitors, Totals, Quiet, Switching, Early, NoCall
<1>4. CASE Recover
  BY <1>0, <1>4 DEF Recover, Begin, Monitors, Totals, Quiet, Switching, Early, NoCall
<1>6. CASE Cancel
  <2>1. \A x \in monitors' : x.cancelled
    BY <1>0, <1>6, CancelledMonitors DEF Cancel
  <2>2. call.kind # "start" /\ call # NoCall
    BY <1>0, <1>6 DEF Cancel, CallOK, NoCall
  <2> QED
    BY <1>0, <1>6, <2>1, <2>2 DEF Cancel, GoOn, Totals, History, Quiet, Switching, Early,
       TrafficTypeOK
<1>7. CASE Close
  BY <1>0, <1>7 DEF Close, GoOn, Return, Totals, History, Quiet, Switching, Early, TrafficTypeOK,
     NoCall, CallOK
<1>8. CASE Refuse
  BY <1>0, <1>8 DEF Refuse, Return, Monitors, Totals, Quiet, Switching, Early, NoCall
<1>9. CASE NewSecret
  BY <1>0, <1>9 DEF NewSecret, GoOn, Monitors, Totals, History, Quiet, Switching, Early,
     TrafficTypeOK, NoCall
<1>11. CASE CoreFails
  BY <1>0, <1>11 DEF CoreFails, Return, Totals, History, Quiet, Switching, Early, NoCall
<1>12. CASE CoreStarts
  BY <1>0, <1>12 DEF CoreStarts, GoOn, Totals, History, Quiet, Switching, Early,
     TrafficTypeOK, NoCall
<1> QED
  BY <1>1, <1>2, <1>3, <1>4, <1>6, <1>7, <1>8, <1>9, <1>11, <1>12 DEF CallStep

LEMMA ConnectIsQuiet ==
    ASSUME Shape, NEW m \in monitors, Connect(m)
    PROVE  Quiet
<1>1. HandedOn(monitors') /\ UNCHANGED <<call, calls, core, session, cancelMonitor, over, unreset,
                                         total, counted, second>>
  BY ConnectMonitors DEF Shape, Connect, CallsWait, Totals, History, callVars
<1> QED
  BY <1>1 DEF Quiet, Switching, Early

LEMMA StutterIsQuiet ==
    ASSUME Shape, UNCHANGED trafficVars
    PROVE  Quiet
<1>1. HandedOn(monitors')
  BY SameMonitors DEF Shape, trafficVars
<1> QED
  BY <1>1 DEF Quiet, Switching, Early, trafficVars, callVars

(* They keep the invariant, as far as it speaks of monitors and reports.   *)
Rest == MonitorsOK /\ PastOK /\ OnceOK /\ WholeOK /\ CleanOK

LEMMA HandedKeepsMonitors ==
    ASSUME IInv, HandedOn(monitors'), calls' \in Nat, calls' >= calls,
           calls' = calls /\ call' # NoCall => call # NoCall,
           \A x \in monitors' : ~x.cancelled => cancelMonitor' = cancelMonitor
    PROVE  MonitorsOK'
<1>1. ASSUME NEW x \in monitors'
      PROVE  /\ x.id <= calls' /\ (call' # NoCall => x.id # calls')
             /\ x.cancelled => x.stream = 0 /\ x.sent = {}
             /\ ~x.cancelled => x.id = cancelMonitor'
  <2>1. PICK m \in monitors : From(x, m)
    BY DEF HandedOn
  <2>2. m.id \in Nat /\ m.id <= calls /\ (call # NoCall => m.id # calls) /\ calls \in Nat
    BY TypesAre, FieldsAre DEF IInv, TrafficTypeOK, MonitorsOK
  <2> QED
    BY <1>1, <2>1, <2>2 DEF From, IInv, MonitorsOK
<1> QED
  BY <1>1 DEF HandedOn, MonitorsOK

LEMMA HandedKeepsOnce ==
    ASSUME IInv, HandedOn(monitors'), UNCHANGED counted
    PROVE  OnceOK'
<1>1. ASSUME NEW x \in monitors'
      PROVE  \E m \in monitors : x.id = m.id /\ TrafficHeld(x) \subseteq TrafficHeld(m)
                                 /\ x.sent \subseteq m.sent /\ x.read = m.read
  BY DEF HandedOn, From, TrafficHeld
<1>2. ASSUME NEW x \in monitors'
      PROVE  x.sent \cap x.read = {} /\ \A r \in counted : r.of \notin TrafficHeld(x)
  BY <1>1 DEF IInv, OnceOK
<1>3. ASSUME NEW x \in monitors', NEW y \in monitors', x # y
      PROVE  TrafficHeld(x) \cap TrafficHeld(y) = {}
  <2>1. PICK m \in monitors : x.id = m.id /\ TrafficHeld(x) \subseteq TrafficHeld(m)
    BY <1>1
  <2>2. PICK n \in monitors : y.id = n.id /\ TrafficHeld(y) \subseteq TrafficHeld(n)
    BY <1>1
  <2>3. m # n
    BY <1>3, <2>1, <2>2 DEF HandedOn
  <2> QED
    BY <2>1, <2>2, <2>3 DEF IInv, OnceOK
<1> QED
  BY <1>2, <1>3 DEF IInv, OnceOK, TrafficHeld

(* A state of IInv, as far as the arithmetic of sessions goes.             *)
LEMMA NumbersAre ==
    ASSUME IInv
    PROVE  /\ calls \in Nat /\ session \in Nat /\ second \in Nat /\ cancelMonitor \in Nat
           /\ core.session \in Nat /\ core.secret \in Nat /\ session <= calls
           /\ Down.session = 0
           /\ Switching => session # 0
           /\ \A m \in monitors : m \in Monitor /\ m.id \in Nat /\ m.id # 0
           /\ \A m \in monitors : \A r \in TrafficHeld(m) :
                  r \in Reports /\ r.session \in Nat /\ r.second \in Nat
           /\ \A r \in counted : r.of \in Reports /\ r.of.session \in Nat /\ r.of.second \in Nat
<1>1. TrafficTypeOK /\ CallOK /\ session <= calls
  BY DEF IInv, PastOK
<1>2. calls \in Nat /\ session \in Nat /\ second \in Nat /\ cancelMonitor \in Nat
      /\ core.session \in Nat /\ core.secret \in Nat /\ Down.session = 0
  BY <1>1, TypesAre DEF Down
<1>3. \A m \in monitors : m \in Monitor /\ m.id \in Nat /\ m.id # 0 /\ TrafficHeld(m) \subseteq Reports
  BY <1>1, FieldsAre DEF TrafficTypeOK, TrafficHeld, Ids
<1>4. \A r \in counted : r.of \in Reports
  BY <1>1 DEF TrafficTypeOK
<1>5. Switching => session # 0
  BY <1>1 DEF CallOK, Switching
<1> QED
  BY <1>1, <1>2, <1>3, <1>4, <1>5, ReportIs

LEMMA QuietKeepsPast ==
    ASSUME IInv, Quiet
    PROVE  PastOK'
<1>1. PastOK /\ session' = session /\ second' = second /\ counted' = counted
      /\ (Switching' => Switching)
  BY DEF IInv, Quiet
<1>2. \A r : Past(r) => Past(r)'
  BY <1>1 DEF Past
<1>3. \A x \in monitors' : \A r \in TrafficHeld(x) : Past(r)'
  BY <1>1, <1>2 DEF Quiet, HandedOn, From, TrafficHeld, PastOK
<1>4. session' <= calls' /\ core'.session <= session'
      /\ (call'.kind \in {"start", "restart"} /\ Early' => session' # calls')
  BY <1>1, NumbersAre DEF Quiet, PastOK
<1>5. Switching' => core'.session # session'
  BY <1>1, NumbersAre DEF Quiet, PastOK, Switching
<1> QED
  BY <1>1, <1>2, <1>3, <1>4, <1>5 DEF PastOK, TrafficHeld

LEMMA QuietKeepsClean ==
    ASSUME IInv, Quiet
    PROVE  CleanOK'
<1> SUFFICES ASSUME ~over', ~unreset', ~Switching' PROVE StraysOK'
  BY DEF CleanOK
<1>1. StraysOK /\ session' = session /\ total' = total
  BY DEF IInv, CleanOK, Quiet
<1>2. cancelMonitor' # 0 /\ core' # Down => core'.session = session'
  BY <1>1 DEF StraysOK, Quiet
<1>3. ASSUME NEW x \in monitors'
      PROVE  /\ ~x.cancelled => \A r \in TrafficHeld(x) : ~Stray(r)
             /\ \A r \in x.read : \A q \in total : Stray(r) /\ Stray(q.of) => q.via # x.id
  <2>1. PICK m \in monitors : From(x, m)
    BY DEF Quiet, HandedOn
  <2>2. TrafficHeld(x) \subseteq TrafficHeld(m) /\ x.read = m.read /\ x.id = m.id
        /\ (~x.cancelled => ~m.cancelled)
    BY <2>1 DEF From, TrafficHeld
  <2> QED
    BY <1>1, <2>2 DEF StraysOK
<1> QED
  BY <1>1, <1>2, <1>3 DEF StraysOK, Stray, TrafficHeld

LEMMA QuietKeeps ==
    ASSUME IInv, Quiet
    PROVE  Rest'
<1>1. MonitorsOK'
  <2>1. HandedOn(monitors') /\ \A x \in monitors' : ~x.cancelled => cancelMonitor' = cancelMonitor
    BY DEF Quiet
  <2>2. calls' \in Nat /\ calls' >= calls /\ (calls' = calls /\ call' # NoCall => call # NoCall)
    BY NumbersAre DEF Quiet
  <2> QED
    BY <2>1, <2>2, HandedKeepsMonitors
<1>2. OnceOK'
  BY HandedKeepsOnce DEF Quiet
<1>3. WholeOK'
  BY DEF Quiet, IInv, WholeOK
<1> QED
  BY <1>1, <1>2, <1>3, QuietKeepsPast, QuietKeepsClean DEF Rest

(***************************************************************************)
(* The reset, and the news of another server.                              *)
(***************************************************************************)
LEMMA ResetKeeps ==
    ASSUME IInv, ResetSessionTraffic
    PROVE  Rest'
<1>0. /\ HandedOn(monitors') /\ UNCHANGED <<monitors, cancelMonitor, calls, core, counted, second>>
      /\ call' # NoCall /\ call # NoCall /\ ~Early' /\ call'.kind = call.kind
      /\ UNCHANGED <<over, unreset>> /\ call.at = "config" /\ Early /\ Shape
  BY SameMonitors DEF IInv, Shape, ResetSessionTraffic, GoOn, Monitors, History, Early, NoCall,
     TrafficTypeOK
<1>1. MonitorsOK' /\ OnceOK'
  BY <1>0, HandedKeepsMonitors, HandedKeepsOnce, NumbersAre
<1>2. session <= session' /\ session' <= calls /\ session' \in Nat
      /\ (call.kind \in {"start", "restart"} => session' # session)
      /\ (call.kind \notin {"start", "restart"} => session' = session)
  BY <1>0, NumbersAre DEF ResetSessionTraffic, IInv, PastOK
<1>3. \A r : r.session \in Nat /\ r.second \in Nat /\ Past(r) => Past(r)'
  BY <1>0, <1>2, NumbersAre DEF Past, Switching
<1>4. PastOK'
  BY <1>0, <1>2, <1>3, NumbersAre DEF PastOK, Switching, IInv, TrafficHeld
<1>5. CASE call.kind = "recover"
  <2>1. session' = session /\ total' = total /\ ~Switching
    BY <1>0, <1>2, <1>5 DEF ResetSessionTraffic, NewSession, Switching
  <2>2. WholeOK' /\ CleanOK'
    BY <1>0, <2>1 DEF IInv, WholeOK, CleanOK, StraysOK, Stray, TrafficHeld, Switching
  <2> QED
    BY <1>1, <1>4, <2>2 DEF Rest
<1>6. CASE call.kind # "recover"
  <2>1. total' = {}
    BY <1>6 DEF ResetSessionTraffic, NewSession
  <2>2. ASSUME NEW r \in counted PROVE r.of.session # session'
    <3>1. Past(r.of)
      BY DEF IInv, PastOK
    <3>2. call.kind \in {"start", "restart", "switch"}
      BY <1>0, <1>6 DEF Shape, TrafficTypeOK, CallOK
    <3> QED
      BY <1>0, <1>2, <3>1, <3>2, NumbersAre DEF Past, Switching
  <2>3. ASSUME ~over' PROVE \A m \in monitors' : m.cancelled
    BY <1>0, <2>3, NumbersAre DEF IInv, ResetsAlone, MonitorsOK
  <2>4. ~over' => cancelMonitor' = 0
    BY <1>0 DEF IInv, ResetsAlone
  <2>5. WholeOK'
    BY <1>0, <2>2 DEF WholeOK
  <2>6. CleanOK'
    BY <2>1, <2>3, <2>4 DEF CleanOK, StraysOK
  <2> QED
    BY <1>1, <1>4, <2>5, <2>6 DEF Rest
<1> QED
  BY <1>5, <1>6

LEMMA SwitchKeeps ==
    ASSUME IInv, SwitchToLiveServer
    PROVE  Rest'
<1>0. /\ UNCHANGED <<monitors, cancelMonitor, core, counted, second, total>>
      /\ call = NoCall /\ calls' = calls + 1 /\ session' = calls + 1 /\ Switching'
      /\ call'.kind = "switch"
  BY DEF SwitchToLiveServer, Begin, Monitors, Totals, Switching, Early
<1>1. MonitorsOK' /\ OnceOK'
  BY <1>0, SameMonitors, HandedKeepsMonitors, HandedKeepsOnce, NumbersAre DEF IInv
<1>2. \A r : r.session \in Nat /\ r.second \in Nat /\ Past(r) => Past(r)' /\ r.session # session'
  BY <1>0, NumbersAre DEF Past
<1>3. PastOK'
  BY <1>0, <1>2, NumbersAre DEF PastOK, IInv, TrafficHeld
<1>4. WholeOK'
  BY <1>0, <1>2, NumbersAre DEF WholeOK, IInv, PastOK
<1>5. CleanOK'
  BY <1>0 DEF CleanOK
<1> QED
  BY <1>1, <1>3, <1>4, <1>5 DEF Rest

(***************************************************************************)
(* The new monitor, and what monitors do.                                  *)
(***************************************************************************)
LEMMA StartMonitorKeeps ==
    ASSUME IInv, StartMonitor
    PROVE  Rest'
<1> DEFINE old == Cancelled(cancelMonitor)
           new == Fresh(calls)
<1>0. /\ HandedOn(old) /\ (\A x \in old : x.cancelled)
      /\ monitors' = old \cup {new} /\ cancelMonitor' = calls
      /\ UNCHANGED <<calls, core, session, total, counted, second, over, unreset>>
      /\ call.at = "monitor" /\ call # NoCall /\ call' = NoCall
      /\ TrafficTypeOK /\ CallOK /\ MonitorsOK
  BY CancelledMonitors DEF IInv, StartMonitor, Return, Totals, History, NoCall
<1>1. ~Switching /\ ~Switching' /\ ~Early'
  BY <1>0 DEF Switching, Early, NoCall
<1>2. calls \in Ids /\ calls # 0 /\ core.session = session
  BY <1>0, TypesAre DEF CallOK, Ids
<1>3. new \in Monitor /\ new.id = calls /\ ~new.cancelled /\ new.read = {} /\ new.sent = {}
      /\ TrafficHeld(new) = {}
  BY <1>2, FreshIs DEF TrafficHeld
<1> HIDE DEF old, new
<1>4. ASSUME NEW x \in old
      PROVE  /\ x.id \in Nat /\ x.id <= calls /\ x.id # calls /\ x.cancelled
             /\ x.stream = 0 /\ x.sent = {}
             /\ \E m \in monitors : x.id = m.id /\ x.read = m.read /\ TrafficHeld(x) \subseteq TrafficHeld(m)
  <2>1. PICK m \in monitors : From(x, m)
    BY <1>0 DEF HandedOn
  <2>2. m.id \in Nat /\ m.id <= calls /\ m.id # calls
    BY <1>0, NumbersAre DEF MonitorsOK
  <2> QED
    BY <1>0, <2>1, <2>2 DEF From, TrafficHeld
<1>5. MonitorsOK'
  <2>1. \A x, y \in monitors' : x.id = y.id => x = y
    BY <1>0, <1>3, <1>4 DEF HandedOn
  <2>2. \A x \in monitors' : /\ x.id <= calls' /\ (call' # NoCall => x.id # calls')
                             /\ x.cancelled => x.stream = 0 /\ x.sent = {}
                             /\ ~x.cancelled => x.id = cancelMonitor'
    BY <1>0, <1>3, <1>4, NumbersAre
  <2> QED
    BY <2>1, <2>2 DEF MonitorsOK
<1>6. PastOK'
  <2>1. \A r : Past(r) => Past(r)'
    BY <1>0, <1>1 DEF Past
  <2>2. \A x \in monitors' : \A r \in TrafficHeld(x) : Past(r)'
    BY <1>0, <1>3, <1>4, <2>1 DEF IInv, PastOK
  <2> QED
    BY <1>0, <1>1, <2>1, <2>2 DEF IInv, PastOK, TrafficHeld, NoCall
<1>7. OnceOK'
  <2>1. ASSUME NEW x \in monitors' PROVE x.sent \cap x.read = {}
    BY <1>0, <1>3, <1>4
  <2>2. ASSUME NEW x \in monitors' PROVE \A r \in counted : r.of \notin TrafficHeld(x)
    BY <1>0, <1>3, <1>4 DEF IInv, OnceOK
  <2>3. ASSUME NEW x \in monitors', NEW y \in monitors', x # y
        PROVE  TrafficHeld(x) \cap TrafficHeld(y) = {}
    <3>1. CASE x = new \/ y = new
      BY <1>3, <3>1
    <3>2. CASE x \in old /\ y \in old
      <4>1. PICK m \in monitors : x.id = m.id /\ TrafficHeld(x) \subseteq TrafficHeld(m)
        BY <1>4, <3>2
      <4>2. PICK n \in monitors : y.id = n.id /\ TrafficHeld(y) \subseteq TrafficHeld(n)
        BY <1>4, <3>2
      <4>3. m # n
        BY <1>0, <2>3, <3>2, <4>1, <4>2 DEF HandedOn
      <4> QED
        BY <4>1, <4>2, <4>3 DEF IInv, OnceOK
    <3> QED
      BY <1>0, <3>1, <3>2
  <2> QED
    BY <1>0, <2>1, <2>2, <2>3 DEF IInv, OnceOK, TrafficHeld
<1>8. WholeOK'
  BY <1>0 DEF IInv, WholeOK
<1>9. CleanOK'
  <2> SUFFICES ASSUME ~over', ~unreset' PROVE StraysOK'
    BY DEF CleanOK
  <2>1. StraysOK
    BY <1>0, <1>1 DEF IInv, CleanOK
  <2>2. \A x \in monitors' : ~x.cancelled => TrafficHeld(x) = {}
    BY <1>0, <1>3
  <2>3. \A x \in monitors' : \A r \in x.read : \A q \in total :
            Stray(r) /\ Stray(q.of) => q.via # x.id
    BY <1>0, <1>3, <1>4, <2>1 DEF StraysOK
  <2> QED
    BY <1>0, <1>2, <2>1, <2>2, <2>3 DEF StraysOK, Stray, TrafficHeld
<1> QED
  BY <1>5, <1>6, <1>7, <1>8, <1>9 DEF Rest

(* At most one monitor has a stream to which the core could report.        *)
LEMMA OneListens ==
    ASSUME IInv, core # Down
    PROVE  \A m, n \in monitors : m.stream = core.secret /\ n.stream = core.secret =>
               m = n /\ ~m.cancelled /\ cancelMonitor # 0
BY TypesAre, NumbersAre DEF IInv, MonitorsOK, Ids

LEMMA SecondKeeps ==
    ASSUME IInv, Second
    PROVE  Rest' /\ \A x \in monitors' : x \in Monitor
<1> DEFINE report == [core |-> core.secret, session |-> core.session, second |-> second + 1]
           Told(m) == IF m.stream = core.secret THEN [m EXCEPT !.sent = @ \cup {report}] ELSE m
<1>0. /\ core # Down /\ second < MaxSeconds /\ second' = second + 1
      /\ monitors' = {Told(m) : m \in monitors}
      /\ UNCHANGED <<call, calls, core, session, cancelMonitor, over, unreset, total, counted>>
      /\ TrafficTypeOK
  BY DEF Second, CallsWait, History, callVars, IInv
<1>1. report \in Reports /\ report.session = core.session /\ report.second = second + 1
  BY <1>0, TypesAre, TrafficAssumption DEF Reports
<1> HIDE DEF report
<1>2. ASSUME NEW m \in monitors
      PROVE  /\ Told(m) \in Monitor /\ Told(m).id = m.id /\ Told(m).read = m.read
             /\ Told(m).cancelled = m.cancelled /\ Told(m).stream = m.stream
             /\ \/ m.stream # core.secret /\ Told(m) = m
                \/ m.stream = core.secret /\ Told(m).sent = m.sent \cup {report}
  <2>1. m \in Monitor
    BY <1>0 DEF TrafficTypeOK
  <2>2. CASE m.stream = core.secret
    <3> DEFINE Reads == {{}} \cup {{r} : r \in Reports}
               Sents == SUBSET Reports
    <3>1. m \in [id: Ids, cancelled: BOOLEAN, stream: 0..MaxCalls, sent: Sents, read: Reads]
      BY <2>1 DEF Monitor
    <3>2. m.sent \cup {report} \in Sents
      BY <1>1, <2>1, FieldsAre
    <3> HIDE DEF Reads, Sents
    <3>3. /\ Told(m) \in [id: Ids, cancelled: BOOLEAN, stream: 0..MaxCalls, sent: Sents,
                          read: Reads]
          /\ Told(m).id = m.id /\ Told(m).read = m.read
          /\ Told(m).cancelled = m.cancelled /\ Told(m).stream = m.stream
          /\ Told(m).sent = m.sent \cup {report}
      BY <2>2, <3>1, <3>2
    <3> QED
      BY <2>2, <3>3 DEF Monitor, Reads, Sents
  <2>3. CASE m.stream # core.secret
    BY <2>1, <2>3
  <2> QED
    BY <2>2, <2>3
<1> HIDE DEF Told
<1>3. \A x \in monitors' : \E m \in monitors : x = Told(m)
  BY <1>0
<1>4. ASSUME NEW m \in monitors, m.stream = core.secret
      PROVE  ~m.cancelled /\ cancelMonitor # 0 /\ m.id = cancelMonitor
             /\ \A n \in monitors : n # m => n.stream # core.secret
  BY <1>0, <1>4, OneListens DEF IInv, MonitorsOK
<1>5. MonitorsOK'
  BY <1>0, <1>2, <1>3, <1>4 DEF MonitorsOK, IInv
<1>6. PastOK'
  <2>1. \A r : r.session \in Nat /\ r.second \in Nat /\ Past(r) => Past(r)'
    BY <1>0, NumbersAre DEF Past, Switching, Early
  <2>2. \A r : r = report => Past(r)'
    <3>1. report.session <= session /\ report.second <= second'
          /\ (Switching => report.session # session)
      BY <1>0, <1>1, NumbersAre DEF IInv, PastOK
    <3> QED
      BY <1>0, <3>1 DEF Past, Switching, Early
  <2>3. ASSUME NEW x \in monitors', NEW r \in TrafficHeld(x) PROVE Past(r)'
    <3>1. PICK m \in monitors : x = Told(m)
      BY <1>3
    <3>2. r \in TrafficHeld(m) \/ r = report
      BY <1>2, <2>3, <3>1 DEF TrafficHeld
    <3> QED
      BY <2>1, <2>2, <3>2, NumbersAre DEF IInv, PastOK
  <2> QED
    BY <1>0, <2>1, <2>3, NumbersAre DEF IInv, PastOK, TrafficHeld, Switching, Early
<1>7. OnceOK'
  <2>1. /\ \A m \in monitors : report \notin TrafficHeld(m)
        /\ \A r \in counted : r.of # report
    BY <1>1, NumbersAre DEF IInv, PastOK, Past
  <2>2. ASSUME NEW m \in monitors
        PROVE  /\ Told(m).sent \cap Told(m).read = {}
               /\ \A r \in counted : r.of \notin TrafficHeld(Told(m))
               /\ TrafficHeld(Told(m)) \subseteq TrafficHeld(m) \cup {report}
               /\ report \in TrafficHeld(Told(m)) => m.stream = core.secret
    BY <1>2, <2>1 DEF IInv, OnceOK, TrafficHeld
  <2>3. ASSUME NEW m \in monitors, NEW n \in monitors, m # n
        PROVE  TrafficHeld(Told(m)) \cap TrafficHeld(Told(n)) = {}
    <3>1. TrafficHeld(m) \cap TrafficHeld(n) = {} /\ report \notin TrafficHeld(m) \cup TrafficHeld(n)
      BY <2>1, <2>3 DEF IInv, OnceOK
    <3>2. ~(m.stream = core.secret /\ n.stream = core.secret)
      BY <1>4, <2>3
    <3> QED
      BY <2>2, <3>1, <3>2
  <2>4. ASSUME NEW x \in monitors', NEW y \in monitors', x # y PROVE TrafficHeld(x) \cap TrafficHeld(y) = {}
    BY <1>3, <2>3, <2>4
  <2> QED
    BY <1>0, <1>3, <2>2, <2>4 DEF IInv, OnceOK, TrafficHeld
<1>8. WholeOK'
  BY <1>0 DEF IInv, WholeOK
<1>9. CleanOK'
  <2> SUFFICES ASSUME ~over, ~unreset, ~Switching PROVE StraysOK'
    BY <1>0 DEF CleanOK, Switching, Early
  <2>1. StraysOK
    BY DEF IInv, CleanOK
  <2>2. ASSUME NEW x \in monitors', ~x.cancelled PROVE \A r \in TrafficHeld(x) : ~Stray(r)
    <3>1. PICK m \in monitors : x = Told(m)
      BY <1>3
    <3>2. \A r \in TrafficHeld(m) : ~Stray(r)
      BY <1>2, <2>1, <2>2, <3>1 DEF StraysOK
    <3>3. CASE m.stream = core.secret
      <4>1. ~Stray(report)
        BY <1>0, <1>1, <1>4, <2>1, <3>3 DEF StraysOK, Stray
      <4> QED
        BY <1>2, <3>1, <3>2, <3>3, <4>1 DEF TrafficHeld
    <3> QED
      BY <1>2, <3>1, <3>2, <3>3
  <2>3. \A x \in monitors' : \A r \in x.read : \A q \in total :
            Stray(r) /\ Stray(q.of) => q.via # x.id
    BY <1>2, <1>3, <2>1 DEF StraysOK
  <2> QED
    BY <1>0, <2>1, <2>2, <2>3 DEF StraysOK, Stray, TrafficHeld
<1> QED
  BY <1>2, <1>3, <1>5, <1>6, <1>7, <1>8, <1>9 DEF Rest

(* m becomes n, and the other monitors stay as they are.                   *)
LEMMA OneChanges ==
    ASSUME IInv, NEW m \in monitors, NEW n, n.id = m.id,
           monitors' \subseteq (monitors \ {m}) \cup {n}, TrafficHeld(n) \subseteq TrafficHeld(m),
           n.sent \cap n.read = {}, n.cancelled = m.cancelled, n.stream = m.stream,
           m.cancelled => n.sent = {},
           UNCHANGED <<call, calls, cancelMonitor, core, session>>, second' = second,
           \A r \in counted' : Past(r.of) /\ \A x \in monitors' : r.of \notin TrafficHeld(x),
           \A r, q \in counted' : r.of = q.of => r = q
    PROVE  MonitorsOK' /\ PastOK' /\ OnceOK'
<1>1. MonitorsOK'
  BY DEF IInv, MonitorsOK
<1>2. PastOK'
  <2>1. \A r : Past(r) => Past(r)'
    BY DEF Past, Switching, Early
  <2> QED
    BY <2>1 DEF IInv, PastOK, Switching, Early, TrafficHeld
<1>3. OnceOK'
  <2>1. \A x, y \in monitors' : x # y => TrafficHeld(x) \cap TrafficHeld(y) = {}
    BY DEF IInv, OnceOK
  <2>2. \A x \in monitors' : x.sent \cap x.read = {}
    BY DEF IInv, OnceOK
  <2> QED
    BY <2>1, <2>2 DEF OnceOK, TrafficHeld
<1> QED
  BY <1>1, <1>2, <1>3

LEMMA DecodeKeeps ==
    ASSUME IInv, NEW m \in monitors, Decode(m)
    PROVE  Rest' /\ \A x \in monitors' : x \in Monitor
<1>0. /\ UNCHANGED <<call, calls, core, session, cancelMonitor, over, unreset, total, counted,
                     second>>
      /\ m \in Monitor /\ m.read = {}
  BY NumbersAre DEF Decode, CallsWait, History, Totals, callVars
<1>1. PICK r \in m.sent :
          monitors' = (monitors \ {m}) \cup {[m EXCEPT !.sent = @ \ {r}, !.read = {r}]}
  BY DEF Decode, Becomes
<1> DEFINE n == [m EXCEPT !.sent = @ \ {r}, !.read = {r}]
<1>2. /\ n \in Monitor /\ n.id = m.id /\ n.sent = m.sent \ {r} /\ n.read = {r}
      /\ n.cancelled = m.cancelled /\ n.stream = m.stream
  <2> DEFINE Reads == {{}} \cup {{q} : q \in Reports}
             Sents == SUBSET Reports
  <2>1. m \in [id: Ids, cancelled: BOOLEAN, stream: 0..MaxCalls, sent: Sents, read: Reads]
    BY <1>0 DEF Monitor
  <2>2. m.sent \ {r} \in Sents /\ {r} \in Reads
    BY <1>0, <1>1, FieldsAre
  <2> HIDE DEF Reads, Sents
  <2>3. /\ n \in [id: Ids, cancelled: BOOLEAN, stream: 0..MaxCalls, sent: Sents, read: Reads]
        /\ n.id = m.id /\ n.sent = m.sent \ {r} /\ n.read = {r}
        /\ n.cancelled = m.cancelled /\ n.stream = m.stream
    BY <2>1, <2>2
  <2> QED
    BY <2>3 DEF Monitor, Reads, Sents
<1> HIDE DEF n
<1>3. monitors' = (monitors \ {m}) \cup {n} /\ TrafficHeld(n) = TrafficHeld(m) /\ ~m.cancelled
  BY <1>0, <1>1, <1>2 DEF TrafficHeld, IInv, MonitorsOK, n
<1>4. \A x \in monitors' : \A q \in counted : q.of \notin TrafficHeld(x)
  BY <1>3 DEF IInv, OnceOK
<1>5. MonitorsOK' /\ PastOK' /\ OnceOK'
  <2>1. \A q \in counted' : Past(q.of) /\ \A x \in monitors' : q.of \notin TrafficHeld(x)
    BY <1>0, <1>4 DEF IInv, PastOK
  <2>2. \A p, q \in counted' : p.of = q.of => p = q
    BY <1>0 DEF IInv, OnceOK
  <2> QED
    BY <1>0, <1>2, <1>3, <2>1, <2>2, OneChanges
<1>6. WholeOK'
  BY <1>0 DEF IInv, WholeOK
<1>7. CleanOK'
  <2> SUFFICES ASSUME ~over, ~unreset, ~Switching PROVE StraysOK'
    BY <1>0 DEF CleanOK, Switching, Early
  <2>1. StraysOK
    BY DEF IInv, CleanOK
  <2>2. \A x \in monitors' : ~x.cancelled => \A q \in TrafficHeld(x) : ~Stray(q)
    BY <1>3, <2>1 DEF StraysOK
  <2>3. \A x \in monitors' : \A p \in x.read : \A q \in total :
            Stray(p) /\ Stray(q.of) => q.via # x.id
    <3>1. \A p \in n.read : ~Stray(p)
      BY <1>2, <1>3, <2>1, <2>2 DEF TrafficHeld
    <3> QED
      BY <1>3, <2>1, <3>1 DEF StraysOK
  <2> QED
    BY <1>0, <2>1, <2>2, <2>3 DEF StraysOK, Stray, TrafficHeld
<1>8. \A x \in monitors' : x \in Monitor
  BY <1>2, <1>3, NumbersAre
<1> QED
  BY <1>5, <1>6, <1>7, <1>8 DEF Rest

(* A report goes into the totals, whatever has happened since it was read. *)
LEMMA AddKeeps ==
    ASSUME IInv, NEW m \in monitors, AddSessionTraffic(m)
    PROVE  /\ Rest' /\ total' \subseteq counted' /\ \A x \in monitors' : x \in Monitor
           /\ \A q \in counted' : q.of \in Reports /\ q.via \in Ids
<1>0. /\ UNCHANGED <<call, calls, core, session, cancelMonitor, over, unreset, second>>
      /\ m \in Monitor /\ total \subseteq counted
      /\ \A q \in counted : q.of \in Reports /\ q.via \in Ids
  BY NumbersAre DEF AddSessionTraffic, CallsWait, History, callVars, IInv, TrafficTypeOK
<1>1. PICK r \in m.read : LET added == [of |-> r, via |-> m.id] IN
                          total' = total \cup {added} /\ counted' = counted \cup {added}
  BY DEF AddSessionTraffic
<1> DEFINE added == [of |-> r, via |-> m.id]
           n == [m EXCEPT !.read = {}]
<1>2. added.of = r /\ added.via = m.id /\ r \in TrafficHeld(m) /\ r \in Reports /\ m.id \in Ids
      /\ m.read = {r}
  BY <1>0, <1>1, FieldsAre DEF TrafficHeld
<1>3. /\ n \in Monitor /\ n.id = m.id /\ n.sent = m.sent /\ n.read = {}
      /\ n.cancelled = m.cancelled /\ n.stream = m.stream
  <2> DEFINE Reads == {{}} \cup {{q} : q \in Reports}
             Sents == SUBSET Reports
  <2>1. m \in [id: Ids, cancelled: BOOLEAN, stream: 0..MaxCalls, sent: Sents, read: Reads]
    BY <1>0 DEF Monitor
  <2>2. {} \in Reads
    OBVIOUS
  <2> HIDE DEF Reads, Sents
  <2>3. /\ n \in [id: Ids, cancelled: BOOLEAN, stream: 0..MaxCalls, sent: Sents, read: Reads]
        /\ n.id = m.id /\ n.sent = m.sent /\ n.read = {}
        /\ n.cancelled = m.cancelled /\ n.stream = m.stream
    BY <2>1, <2>2
  <2> QED
    BY <2>3 DEF Monitor, Reads, Sents
<1>4. /\ monitors' \subseteq (monitors \ {m}) \cup {n}
      /\ m.cancelled => monitors' = monitors \ {m}
      /\ total' = total \cup {added} /\ counted' = counted \cup {added}
  BY <1>1 DEF AddSessionTraffic
<1> HIDE DEF added, n
<1>5. TrafficHeld(n) = m.sent /\ TrafficHeld(n) \subseteq TrafficHeld(m) /\ r \notin TrafficHeld(n)
  BY <1>2, <1>3 DEF TrafficHeld, IInv, OnceOK
<1>6. \A x \in monitors' : r \notin TrafficHeld(x) /\ \A q \in counted : q.of \notin TrafficHeld(x)
  <2>1. \A x \in monitors \ {m} : r \notin TrafficHeld(x)
    BY <1>2 DEF IInv, OnceOK
  <2> QED
    BY <1>4, <1>5, <2>1 DEF IInv, OnceOK
<1>7. \A q \in counted : q.of # r
  BY <1>2 DEF IInv, OnceOK
<1>8. MonitorsOK' /\ PastOK' /\ OnceOK'
  <2>1. \A q \in counted' : Past(q.of) /\ \A x \in monitors' : q.of \notin TrafficHeld(x)
    BY <1>2, <1>4, <1>6 DEF IInv, PastOK
  <2>2. \A p, q \in counted' : p.of = q.of => p = q
    BY <1>2, <1>4, <1>7 DEF IInv, OnceOK
  <2>3. n.sent \cap n.read = {} /\ (m.cancelled => n.sent = {})
    BY <1>3 DEF IInv, MonitorsOK
  <2> QED
    BY <1>0, <1>3, <1>4, <1>5, <2>1, <2>2, <2>3, OneChanges
<1>9. WholeOK'
  BY <1>0, <1>4 DEF IInv, WholeOK
<1>10. CleanOK'
  <2> SUFFICES ASSUME ~over, ~unreset, ~Switching PROVE StraysOK'
    BY <1>0 DEF CleanOK, Switching, Early
  <2>1. StraysOK
    BY DEF IInv, CleanOK
  <2>2. \A x \in monitors' : ~x.cancelled => \A q \in TrafficHeld(x) : ~Stray(q)
    BY <1>3, <1>4, <1>5, <2>1 DEF StraysOK
  <2>3. Stray(r) => m.cancelled /\ \A q \in total : Stray(q.of) => q.via # m.id
    BY <1>2, <2>1 DEF StraysOK
  <2>4. \A p, q \in total' : Stray(p.of) /\ Stray(q.of) /\ p.via = q.via => p = q
    BY <1>2, <1>4, <2>1, <2>3 DEF StraysOK
  <2>5. ASSUME NEW x \in monitors', NEW p \in x.read, NEW q \in total', Stray(p), Stray(q.of)
        PROVE  q.via # x.id
    <3>1. x \in monitors \ {m}
      BY <1>3, <1>4, <2>5
    <3>2. CASE q \in total
      BY <2>1, <2>5, <3>1, <3>2 DEF StraysOK
    <3>3. CASE q = added
      BY <1>2, <3>1, <3>3 DEF IInv, MonitorsOK
    <3> QED
      BY <1>4, <3>2, <3>3
  <2> QED
    BY <1>0, <2>1, <2>2, <2>4, <2>5 DEF StraysOK, Stray, TrafficHeld
<1>11. \A x \in monitors' : x \in Monitor
  BY <1>3, <1>4, NumbersAre
<1>12. total' \subseteq counted' /\ \A q \in counted' : q.of \in Reports /\ q.via \in Ids
  BY <1>0, <1>2, <1>4
<1> QED
  BY <1>8, <1>9, <1>10, <1>11, <1>12 DEF Rest

(***************************************************************************)
(* The invariant.                                                          *)
(***************************************************************************)
(* A call cancels the monitor before it resets.                            *)
LEMMA CallResetsAlone ==
    ASSUME IInv, CallStep
    PROVE  ResetsAlone'
<1>0. TrafficTypeOK /\ CallOK /\ ResetsAlone
  BY DEF IInv
<1>1. CASE StartXray
  BY <1>1 DEF StartXray, Begin, Monitors, ResetsAlone
<1>2. CASE RestartXray \/ StopXray \/ Recover \/ SwitchToLiveServer
  BY <1>2 DEF RestartXray, StopXray, Recover, SwitchToLiveServer, Begin, ResetsAlone
<1>3. CASE Cancel
  BY <1>3 DEF Cancel, ResetsAlone
<1>4. CASE Close
  BY <1>0, <1>4 DEF Close, GoOn, Return, ResetsAlone, TrafficTypeOK, NoCall, CallOK
<1>5. CASE Refuse \/ CoreFails
  BY <1>5 DEF Refuse, CoreFails, Return, ResetsAlone, NoCall
<1>6. CASE NewSecret
  BY <1>0, <1>6 DEF NewSecret, GoOn, Monitors, History, ResetsAlone, TrafficTypeOK
<1>7. CASE ResetSessionTraffic
  BY <1>0, <1>7 DEF ResetSessionTraffic, GoOn, ResetsAlone, TrafficTypeOK
<1>8. CASE CoreStarts
  BY <1>0, <1>8 DEF CoreStarts, GoOn, ResetsAlone, TrafficTypeOK
<1> QED
  BY <1>1, <1>2, <1>3, <1>4, <1>5, <1>6, <1>7, <1>8 DEF CallStep

LEMMA CallKeeps ==
    ASSUME IInv, CallStep
    PROVE  IInv'
<1>1. Rest'
  BY CallIsQuiet, QuietKeeps, ResetKeeps, SwitchKeeps DEF IInv, Shape
<1>2. Typed' /\ CallOK'
  BY CallStepTyped DEF IInv, Shape
<1>3. \A x \in monitors' : x \in Monitor
  BY CallStepMonitors DEF IInv, HandedOn, From
<1>4. second' = second /\ counted' = counted /\ (total' = total \/ total' = {})
  BY DEF CallStep, StartXray, RestartXray, StopXray, Recover, SwitchToLiveServer, Begin, Cancel,
     Close, Refuse, NewSecret, ResetSessionTraffic, CoreFails, CoreStarts, Totals
<1>5. TrafficTypeOK'
  BY <1>2, <1>3, <1>4, TypedIs DEF IInv, TrafficTypeOK
<1> QED
  BY <1>1, <1>2, <1>5, CallResetsAlone DEF IInv, Rest

LEMMA StartMonitorInv ==
    ASSUME IInv, StartMonitor
    PROVE  IInv'
<1>1. /\ call' = NoCall /\ dog' = TRUE /\ cancelMonitor' = calls
      /\ monitors' = Cancelled(cancelMonitor) \cup {Fresh(calls)}
      /\ UNCHANGED <<calls, clashSecret, core, session, total, counted, second, over, unreset>>
      /\ call.at = "monitor" /\ call # NoCall
  BY DEF StartMonitor, Return, Totals, History, NoCall
<1>2. calls \in Ids /\ session # 0 /\ TrafficTypeOK
  BY <1>1, TypesAre DEF IInv, CallOK, Ids
<1>3. \A x \in monitors' : x \in Monitor
  BY <1>1, <1>2, CancelledMonitors, FreshIs DEF IInv, HandedOn, From
<1>4. Typed'
  BY <1>1, <1>2, TypesAre DEF Typed, TrafficTypeOK, NoCall
<1>5. CallOK' /\ ResetsAlone'
  BY <1>1, <1>2 DEF CallOK, NoCall, ResetsAlone
<1>6. TrafficTypeOK'
  BY <1>1, <1>2, <1>3, <1>4, TypedIs DEF TrafficTypeOK
<1> QED
  BY <1>5, <1>6, StartMonitorKeeps DEF IInv, Rest

(* Nothing a monitor or the core does changes a call.                      *)
LEMMA ElseKeeps ==
    ASSUME IInv, Rest', UNCHANGED <<call, calls, dog, clashSecret, core, session, cancelMonitor,
                                   over, unreset>>,
           \A x \in monitors' : x \in Monitor, second' \in 0..MaxSeconds,
           total' \subseteq counted', \A q \in counted' : q.of \in Reports /\ q.via \in Ids
    PROVE  IInv'
<1>1. TrafficTypeOK'
  BY TypedIs DEF IInv, TrafficTypeOK, Typed
<1>2. CallOK' /\ ResetsAlone'
  BY DEF IInv, CallOK, ResetsAlone
<1> QED
  BY <1>1, <1>2 DEF IInv, Rest

LEMMA InvStep ==
    ASSUME IInv, [TrafficNext]_trafficVars
    PROVE  IInv'
<1>0. TrafficTypeOK /\ Shape /\ second \in 0..MaxSeconds /\ total \subseteq counted
      /\ \A q \in counted : q.of \in Reports /\ q.via \in Ids
  BY DEF IInv, Shape, TrafficTypeOK
<1>1. CASE CallStep
  BY <1>1, CallKeeps
<1>2. CASE StartMonitor
  BY <1>2, StartMonitorInv
<1>3. CASE Second
  <2>1. second' \in 0..MaxSeconds /\ UNCHANGED <<total, counted>>
    BY <1>0, <1>3, TrafficAssumption DEF Second
  <2> QED
    BY <1>0, <1>3, <2>1, SecondKeeps, ElseKeeps DEF Second, CallsWait, History, callVars
<1>4. CASE \E m \in monitors : Connect(m)
  <2>1. PICK m \in monitors : Connect(m)
    BY <1>4
  <2>2. Rest' /\ \A x \in monitors' : x \in Monitor
    BY <1>0, <2>1, ConnectIsQuiet, ConnectMonitors, QuietKeeps DEF IInv, HandedOn, From
  <2> QED
    BY <1>0, <2>1, <2>2, ElseKeeps DEF Connect, CallsWait, Totals, History, callVars
<1>5. CASE \E m \in monitors : Decode(m)
  <2>1. PICK m \in monitors : Decode(m)
    BY <1>5
  <2> QED
    BY <1>0, <2>1, DecodeKeeps, ElseKeeps DEF Decode, CallsWait, Totals, History, callVars
<1>6. CASE \E m \in monitors : AddSessionTraffic(m)
  <2>1. PICK m \in monitors : AddSessionTraffic(m)
    BY <1>6
  <2> QED
    BY <1>0, <2>1, AddKeeps, ElseKeeps DEF AddSessionTraffic, CallsWait, History, callVars
<1>7. CASE UNCHANGED trafficVars
  <2>1. Rest'
    BY <1>0, <1>7, StutterIsQuiet, QuietKeeps
  <2> QED
    BY <1>0, <1>7, <2>1, ElseKeeps DEF trafficVars, callVars, TrafficTypeOK
<1> QED
  BY <1>1, <1>2, <1>3, <1>4, <1>5, <1>6, <1>7 DEF TrafficNext, CallStep

(* From launch on, whatever calls are made: reports are in one place, of   *)
(* this session or an earlier one, and resets happen with no monitor left. *)
THEOREM TrafficInvCorrect == TrafficSpec => []IInv
<1>1. TrafficInit => IInv
  <2> SUFFICES ASSUME TrafficInit PROVE IInv
    OBVIOUS
  <2>1. TrafficTypeOK
    <3>1. 0 \in 0..MaxCalls /\ 0 \in 0..MaxSeconds
      BY TrafficAssumption
    <3>2. {calls, clashSecret, session, cancelMonitor} \subseteq 0..MaxCalls
      BY <3>1 DEF TrafficInit
    <3> QED
      BY <3>1, <3>2 DEF TrafficInit, TrafficTypeOK, NoCall
  <2>2. ~Early /\ ~Switching
    BY DEF TrafficInit, NoCall, Early, Switching
  <2>3. CallOK /\ MonitorsOK /\ ResetsAlone
    BY DEF TrafficInit, NoCall, CallOK, MonitorsOK, ResetsAlone
  <2>4. PastOK /\ OnceOK /\ WholeOK /\ CleanOK
    BY <2>2 DEF TrafficInit, Down, PastOK, OnceOK, WholeOK, CleanOK, StraysOK
  <2> QED
    BY <2>1, <2>3, <2>4 DEF IInv
<1> QED
  BY <1>1, InvStep, PTL DEF TrafficSpec

(* Every variable keeps its type.                                          *)
THEOREM TrafficTypeCorrect == TrafficSpec => []TrafficTypeOK
<1>1. IInv => TrafficTypeOK
  BY DEF IInv
<1> QED
  BY <1>1, TrafficInvCorrect, PTL

(* The totals are those of the session the user sees: a recovery loses     *)
(* nothing, no second counts twice, and of earlier sessions there is at    *)
(* most what each monitor held when it was cancelled.                      *)
THEOREM TotalsCorrect == TrafficSpec => []TotalsAreTheSessions
<1>1. IInv => TotalsAreTheSessions
  <2> SUFFICES ASSUME IInv PROVE TotalsAreTheSessions
    OBVIOUS
  <2>1. {r \in counted : r.of.session = session} \subseteq total
    BY DEF IInv, WholeOK
  <2>2. \A r, q \in total : r.of = q.of => r = q
    BY DEF IInv, OnceOK, TrafficTypeOK
  <2>3. core.session = session => ~Switching
    BY DEF IInv, PastOK
  <2>4. ~over /\ ~unreset /\ ~Switching =>
            \A r, q \in total : Stray(r.of) /\ Stray(q.of) /\ r.via = q.via => r = q
    BY DEF IInv, CleanOK, StraysOK
  <2> QED
    BY <2>1, <2>2, <2>3, <2>4 DEF TotalsAreTheSessions, Stray
<1> QED
  BY <1>1, TrafficInvCorrect, PTL
=============================================================================
