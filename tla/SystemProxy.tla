----------------------------- MODULE SystemProxy -----------------------------
(***************************************************************************)
(* The Windows system proxy (backend/service/proxy.go): how NeoBox borrows *)
(* a setting that belongs to the user and gives it back, one critical      *)
(* section, registry access or file operation at a time.                   *)
(*                                                                         *)
(* The registry and the backup file outlive the process, the backup fields *)
(* of AppService do not.  The user may change the setting in Windows; when *)
(* is a constant, for that decides what can be promised.                   *)
(***************************************************************************)
EXTENDS Naturals

CONSTANTS
    Threads,     \* goroutines that call SetSystemProxy
    Main,        \* main(), which calls it once at launch
    Servers,     \* proxies of the user's own
    Ours,        \* systemProxyAddr
    Empty,       \* no server, no backup
    EditTimes,   \* when the user changes the setting: "off", "on", "dead"
    MaxEdits     \* bound: how often

ASSUME SystemProxyAssumption ==
    /\ Main \notin Threads
    /\ Ours \notin Servers /\ Empty \notin Servers /\ Ours # Empty
    /\ EditTimes \subseteq {"off", "on", "dead"}
    /\ MaxEdits \in Nat

VARIABLES
    registry,    \* ProxyServer and ProxyEnable
    backup,      \* the backup fields of AppService, hasProxyBackup included
    file,        \* proxy-backup.json
    alive,
    step,        \* what each goroutine is about to do, and with what
    wanted,      \* history: the last call of this process enabled the proxy
    users,       \* history: the setting as the user last left it
    edits        \* bounded: changes of the user

vars == <<registry, backup, file, alive, step, wanted, users, edits>>

Actors == Threads \cup {Main}

Setting == [server: Servers \cup {Ours, Empty}, enable: BOOLEAN]
Own     == [server: Servers, enable: BOOLEAN]
None    == [server |-> Empty, enable |-> FALSE]

Labels == {"idle", "capture", "keep", "setEnable", "setServer",
           "take", "putServer", "putEnable", "remove", "look", "clearEnable", "clearServer"}

TypeOK ==
    /\ registry \in Setting
    /\ backup \in Own \cup {None} /\ file \in Own \cup {None}
    /\ alive \in BOOLEAN /\ wanted \in BOOLEAN
    /\ step \in [Actors -> [at: Labels, with: Own \cup {None}]]
    /\ users \in Own \cup {None}
    /\ edits \in 0..MaxEdits

At(label, with) == [at |-> label, with |-> with]
Idle == At("idle", None)

Init ==
    /\ users \in Own \cup {None} /\ registry = users
    /\ backup = None /\ file = None
    /\ alive = TRUE /\ wanted = FALSE
    /\ step = [t \in Actors |-> Idle]
    /\ edits = 0

Settled == \A t \in Actors : step[t] = Idle

Doing(t, label) == alive /\ step[t].at = label

Goto(t, label, with) == step' = [step EXCEPT ![t] = At(label, with)]

SetServer(server) == registry' = [registry EXCEPT !.server = server]
SetEnable(enable) == registry' = [registry EXCEPT !.enable = enable]

(***************************************************************************)
(* SetSystemProxy(true).                                                   *)
(***************************************************************************)
BeginEnable(t) ==
    /\ Doing(t, "idle") /\ step[Main] = Idle
    /\ Goto(t, "capture", None)
    /\ wanted' = TRUE
    /\ UNCHANGED <<registry, backup, file, alive, users, edits>>

(* captureProxyBackup reads the registry without a lock.                   *)
Capture(t) ==
    /\ Doing(t, "capture")
    /\ IF registry.server \in {Empty, Ours}
         THEN Goto(t, "setEnable", None)
         ELSE Goto(t, "keep", registry)
    /\ UNCHANGED <<registry, backup, file, alive, wanted, users, edits>>

(* Mutant: the capture is not written to disk.                             *)
KeepInMemory(t) ==
    /\ Doing(t, "keep")
    /\ backup' = IF backup = None THEN step[t].with ELSE backup
    /\ Goto(t, "setEnable", None)
    /\ UNCHANGED <<registry, file, alive, wanted, users, edits>>

(* Under stateMu: the first capture stays, and is written to disk.         *)
Keep(t) ==
    /\ Doing(t, "keep")
    /\ IF backup = None
         THEN backup' = step[t].with /\ file' = step[t].with
         ELSE UNCHANGED <<backup, file>>
    /\ Goto(t, "setEnable", None)
    /\ UNCHANGED <<registry, alive, wanted, users, edits>>

WriteEnable(t) ==
    /\ Doing(t, "setEnable")
    /\ SetEnable(TRUE)
    /\ Goto(t, "setServer", None)
    /\ UNCHANGED <<backup, file, alive, wanted, users, edits>>

WriteServer(t) ==
    /\ Doing(t, "setServer")
    /\ SetServer(Ours)
    /\ Goto(t, "idle", None)
    /\ UNCHANGED <<backup, file, alive, wanted, users, edits>>

(***************************************************************************)
(* SetSystemProxy(false).                                                  *)
(***************************************************************************)
BeginDisable(t) ==
    /\ Doing(t, "idle") /\ step[Main] = Idle
    /\ Goto(t, "take", None)
    /\ wanted' = FALSE
    /\ UNCHANGED <<registry, backup, file, alive, users, edits>>

(* restoreSystemProxy takes the backup out of the fields under stateMu.    *)
Take(t) ==
    /\ Doing(t, "take")
    /\ backup' = None
    /\ Goto(t, IF backup = None THEN "look" ELSE "putServer", backup)
    /\ UNCHANGED <<registry, file, alive, wanted, users, edits>>

PutServer(t) ==
    /\ Doing(t, "putServer")
    /\ SetServer(step[t].with.server)
    /\ Goto(t, "putEnable", step[t].with)
    /\ UNCHANGED <<backup, file, alive, wanted, users, edits>>

PutEnable(t) ==
    /\ Doing(t, "putEnable")
    /\ SetEnable(step[t].with.enable)
    /\ Goto(t, "remove", None)
    /\ UNCHANGED <<backup, file, alive, wanted, users, edits>>

RemoveFile(t) ==
    /\ Doing(t, "remove")
    /\ file' = None
    /\ Goto(t, "idle", None)
    /\ UNCHANGED <<registry, backup, alive, wanted, users, edits>>

(* Without a backup the setting is cleared only when it is NeoBox's.       *)
Look(t) ==
    /\ Doing(t, "look")
    /\ Goto(t, IF registry.server = Ours THEN "clearEnable" ELSE "idle", None)
    /\ UNCHANGED <<registry, backup, file, alive, wanted, users, edits>>

ClearEnable(t) ==
    /\ Doing(t, "clearEnable")
    /\ SetEnable(FALSE)
    /\ Goto(t, "clearServer", None)
    /\ UNCHANGED <<backup, file, alive, wanted, users, edits>>

ClearServer(t) ==
    /\ Doing(t, "clearServer")
    /\ SetServer(Empty)
    /\ Goto(t, "idle", None)
    /\ UNCHANGED <<backup, file, alive, wanted, users, edits>>

(***************************************************************************)
(* The process and the user.                                               *)
(***************************************************************************)
Crash ==
    /\ alive
    /\ alive' = FALSE
    /\ backup' = None
    /\ step' = [t \in Actors |-> Idle]
    /\ UNCHANGED <<registry, file, wanted, users, edits>>

(* loadProxyBackup, then SetSystemProxy(false) from main().                *)
Launch ==
    /\ ~alive
    /\ alive' = TRUE
    /\ backup' = file
    /\ Goto(Main, "take", None)
    /\ wanted' = FALSE
    /\ UNCHANGED <<registry, file, users, edits>>

(* Off: NeoBox has nothing of the user's and nothing of its own is left.   *)
Off == Settled /\ ~wanted /\ backup = None /\ file = None /\ registry.server # Ours

EditTime ==
    CASE ~alive -> "dead"
      [] alive /\ Settled /\ wanted -> "on"
      [] alive /\ Off -> "off"
      [] OTHER -> "never"

UserEdits(setting) ==
    /\ EditTime \in EditTimes
    /\ edits < MaxEdits /\ edits' = edits + 1
    /\ registry' = setting /\ users' = setting
    /\ UNCHANGED <<backup, file, alive, step, wanted>>

Enable(t) == BeginEnable(t) \/ Capture(t) \/ Keep(t) \/ WriteEnable(t) \/ WriteServer(t)

Restore(t) ==
    \/ Take(t) \/ PutServer(t) \/ PutEnable(t) \/ RemoveFile(t)
    \/ Look(t) \/ ClearEnable(t) \/ ClearServer(t)

Next ==
    \/ \E t \in Threads : Enable(t) \/ BeginDisable(t)
    \/ \E t \in Actors : Restore(t)
    \/ Crash \/ Launch
    \/ \E setting \in Own \cup {None} : UserEdits(setting)

Spec == Init /\ [][Next]_vars

(***************************************************************************)
(* Properties.                                                             *)
(***************************************************************************)
(* Without a server the flag means nothing: a crash between the two writes *)
(* of SetSystemProxy(true) leaves it set for a user who has no proxy.      *)
Same(s, r) == s.server = r.server /\ (s.server # Empty => s.enable = r.enable)

(* Wherever the process dies, the user's own proxy is in the registry or   *)
(* in the file the next launch restores it from.                           *)
Recoverable == users.server # Empty => (registry = users \/ file = users)

(* Whenever NeoBox has finished with the setting, by a disconnect or by    *)
(* the launch that follows a crash, it is as the user left it.             *)
GivenBack == (alive /\ Settled /\ ~wanted) => Same(registry, users)

(* Both: wherever the process dies, the user gets his own proxy back       *)
(* (SetSystemProxy, loadProxyBackup).                                      *)
ProxyComesBack == Recoverable /\ GivenBack

(* The file and the fields agree while the process lives, so what a crash  *)
(* would bring back is what a disconnect would.                            *)
FileIsBackup == (alive /\ Settled) => file = backup
=============================================================================
