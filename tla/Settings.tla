------------------------------ MODULE Settings ------------------------------
(***************************************************************************)
(* What the window keeps on disk: the settings (renderer.ts                *)
(* collectAndSaveSettings and its callers, backend/service/settings.go,    *)
(* transfer.go), from one launch through crashes to the next.  History has *)
(* the other thing it keeps there.                                         *)
(*                                                                         *)
(* The page holds every setting in its controls and saves all of them at   *)
(* every change, without waiting: a save is a goroutine that carries the   *)
(* whole object as it was when it was sent.  Go writes it in two files     *)
(* under fileMu, the encrypted half first, then brings the tray in line.   *)
(*                                                                         *)
(* A setting is the number of the change that gave it its value: 0 is what *)
(* the page shows before it has read anything, 1 what the user had at the  *)
(* first launch.  "favorites" stands for the encrypted fields, "rules" for *)
(* those the core is configured from, "theme" for those saved after a      *)
(* pause.                                                                  *)
(***************************************************************************)
EXTENDS Naturals

CONSTANTS
    MaxChanges,  \* bound: what the user and the events change in one behaviour
    MaxCrashes   \* bound

SettingsAssumption == MaxChanges \in Nat /\ MaxCrashes \in Nat

Secret == {"favorites"}            \* secretSettingKeys
Fields == {"favorites", "rules", "theme"}
Imported == MaxChanges + 2         \* the values of an imported file
Values == 0..Imported
Objects == [Fields -> Values]

VARIABLES
    phase,       \* how far init() is: "settings", "filling", "open"
    mem,         \* the controls and variables of the page
    got,         \* what getSettings answered, on its way to init()
    timer,       \* themeSaveTimer
    saves,       \* SaveSettings calls: the object, what its caller does next, how far it is
    disk,        \* state.json and settings.json
    tray,        \* the ticks in the tray's menu
    transfer,    \* the import: "no", "asked", "saving", "done"
    app,         \* appState
    start,       \* the start or restart under way: "none", "asked", "read"
    config,      \* the rules the core was configured from
    rulesPending,
    changes, crashes, \* bounded counters
    mishaps      \* history: what has happened that a property allows for

pageVars == <<phase, mem, got, timer, transfer, app, rulesPending>>
coreVars == <<start, config>>
fileVars == <<saves, disk, tray>>
vars == <<pageVars, coreVars, fileVars, changes, crashes, mishaps>>

Mishaps == {"crossed",    \* a save was sent while another was under way
            "early",      \* a save was sent before the page had read the settings
            "failed",     \* a write failed
            "import",     \* a file was imported and the page not yet loaded anew
            "overtaken"}  \* a start read the settings before a save was written

(* Types; one save at a time is between its two files (fileMu).            *)
TypeOK ==
    /\ phase \in {"settings", "filling", "open"}
    /\ mem \in Objects /\ got \in Objects /\ disk \in Objects
    /\ timer \in BOOLEAN
    /\ saves \subseteq [object: Objects, next: {"nothing", "restart", "alert"},
                        stage: {"sent", "half", "written"}]
    /\ \A s, t \in saves : s.stage = "half" /\ t.stage = "half" => s = t
    /\ tray \in Values
    /\ transfer \in {"no", "asked", "saving", "done"}
    /\ app \in {"off", "connecting", "on"} /\ start \in {"none", "asked", "read"}
    /\ config \in Values /\ rulesPending \in BOOLEAN
    /\ changes \in 0..MaxChanges /\ crashes \in 0..MaxCrashes
    /\ mishaps \subseteq Mishaps

Defaults == [f \in Fields |-> 0]
Stored == [f \in Fields |-> 1]

(* A page that has just been loaded; nothing of the last one is left.      *)
Loaded ==
    /\ phase' = "settings" /\ mem' = Defaults /\ got' = Defaults /\ timer' = FALSE
    /\ transfer' = "no" /\ app' = "off" /\ rulesPending' = FALSE

Init ==
    /\ phase = "settings" /\ mem = Defaults /\ got = Defaults /\ timer = FALSE
    /\ transfer = "no" /\ app = "off" /\ rulesPending = FALSE
    /\ saves = {} /\ disk = Stored /\ tray = 1
    /\ start = "none" /\ config = 0
    /\ changes = 0 /\ crashes = 0 /\ mishaps = {}

Mishap(kinds) == mishaps' = mishaps \cup kinds

(***************************************************************************)
(* init().                                                                 *)
(***************************************************************************)
InitKeeps == UNCHANGED <<timer, transfer, app, rulesPending, coreVars, fileVars, changes, crashes>>

(* GetSettings under fileMu, and the page's controls when it has answered. *)
Free == \A s \in saves : s.stage # "half"
GetSettings ==
    /\ phase = "settings" /\ Free
    /\ got' = disk /\ phase' = "filling"
    /\ InitKeeps /\ UNCHANGED <<mem, mishaps>>
Fill ==
    /\ phase = "filling" /\ phase' = "open"
    /\ mem' = got
    /\ InitKeeps /\ UNCHANGED <<got, mishaps>>

(***************************************************************************)
(* The handlers.  A dialog keeps the user from the page, not the timers    *)
(* and the events.                                                         *)
(***************************************************************************)
Change == changes < MaxChanges /\ changes' = changes + 1
NewValue == changes + 2
Changed(f) == [mem EXCEPT ![f] = NewValue]
UserCan == transfer = "no"
PageKeeps == UNCHANGED <<phase, got, crashes>>

collectAndSaveSettings(object, next) ==
    saves' = saves \cup {[object |-> object, next |-> next, stage |-> "sent"]}
SendMishaps ==
    {m \in Mishaps : \/ m = "crossed" /\ saves # {}
                     \/ m = "early" /\ phase # "open"
                     \/ m = "import" /\ transfer # "no"}
(* A change of the rules is beyond a start that has read them already.     *)
RuleMishaps == {m \in Mishaps : m = "overtaken" /\ app = "connecting"}

Save(f, next) ==
    /\ mem' = Changed(f)
    /\ collectAndSaveSettings(mem', next)
    /\ UNCHANGED <<disk, tray, timer, transfer, app, coreVars>> /\ PageKeeps

(* A star, a profile saved or deleted, a server chosen in the window.      *)
ChangeSecret ==
    /\ UserCan /\ Change /\ Save("favorites", "nothing")
    /\ UNCHANGED rulesPending /\ Mishap(SendMishaps)

(* tray-start-reconnect, watchdog-switched: activeServerLink is saved.     *)
LinkEvent ==
    /\ Change /\ Save("favorites", "nothing")
    /\ UNCHANGED rulesPending /\ Mishap(SendMishaps)

(* A rule added, replaced or deleted, the bypass box, another DNS.         *)
ChangeRule ==
    /\ UserCan /\ Change /\ Save("rules", "nothing")
    /\ rulesPending' = TRUE /\ Mishap(SendMishaps \cup RuleMishaps)

(* The security boxes tell of a pending restart only while connected.      *)
ChangeBox ==
    /\ UserCan /\ Change /\ Save("rules", "nothing")
    /\ rulesPending' = (rulesPending \/ app = "on") /\ Mishap(SendMishaps \cup RuleMishaps)

(* A profile, also from the tray, and the tray's ticks: the handler waits  *)
(* for the save, then restarts a connected core.                           *)
applyProfile ==
    /\ Change /\ Save("rules", "restart")
    /\ UNCHANGED rulesPending /\ Mishap(SendMishaps \cup RuleMishaps)

(* setTheme; the process lists, with a debounce of their own.              *)
setTheme ==
    /\ UserCan /\ Change /\ mem' = Changed("theme") /\ timer' = TRUE
    /\ PageKeeps /\ UNCHANGED <<transfer, app, rulesPending, coreVars, fileVars, mishaps>>
SaveTimer ==
    /\ timer /\ timer' = FALSE
    /\ collectAndSaveSettings(mem, "nothing") /\ Mishap(SendMishaps)
    /\ PageKeeps /\ UNCHANGED <<mem, transfer, app, rulesPending, coreVars, disk, tray, changes>>

(* Connecting; the core's start runs in Go.                                *)
Begin == app' = "connecting" /\ start' = "asked"
Connect ==
    /\ UserCan /\ Change /\ start = "none" /\ Begin
    /\ PageKeeps /\ UNCHANGED <<mem, timer, transfer, rulesPending, config, fileVars, mishaps>>

(***************************************************************************)
(* Go: SaveSettings, startCore, ImportSettings.                            *)
(***************************************************************************)
GoKeeps == UNCHANGED <<phase, mem, got, timer, rulesPending, changes, crashes>>
Step(s, stage) == saves' = (saves \ {s}) \cup {[s EXCEPT !.stage = stage]}
Halves(object, part) == [f \in Fields |-> IF f \in part THEN object[f] ELSE disk[f]]

(* The save's answer reaches the page.                                     *)
Answer(s) ==
    /\ CASE s.next = "restart" /\ app = "on" -> start = "none" /\ Begin
         [] OTHER -> UNCHANGED <<app, start>>
    /\ transfer' = IF s.next = "alert" THEN "done" ELSE transfer

(* Mutant: fileMu is let go between the two files.                         *)
WriteSecretsFreely(s) ==
    /\ s \in saves /\ s.stage = "sent"
    /\ disk' = Halves(s.object, Secret)
    /\ Step(s, "half")
    /\ GoKeeps /\ UNCHANGED <<tray, transfer, app, coreVars, mishaps>>
WriteSecrets(s) ==
    /\ s \in saves /\ s.stage = "sent" /\ Free
    /\ disk' = Halves(s.object, Secret)
    /\ Step(s, "half")
    /\ GoKeeps /\ UNCHANGED <<tray, transfer, app, coreVars, mishaps>>
WritePlain(s) ==
    /\ s \in saves /\ s.stage = "half"
    /\ disk' = Halves(s.object, Fields \ Secret)
    /\ Step(s, "written")
    /\ GoKeeps /\ UNCHANGED <<tray, transfer, app, coreVars, mishaps>>
(* Mutant: the tray keeps its ticks.                                       *)
TrayKept(s) ==
    /\ s \in saves /\ s.stage = "written" /\ saves' = saves \ {s} /\ Answer(s)
    /\ GoKeeps /\ UNCHANGED <<disk, tray, config, mishaps>>
applyTrayToggles(s) ==
    /\ s \in saves /\ s.stage = "written"
    /\ tray' = s.object["rules"]
    /\ saves' = saves \ {s}
    /\ Answer(s)
    /\ GoKeeps /\ UNCHANGED <<disk, config, mishaps>>
(* Either write may fail; the caller goes on as after a success, but for   *)
(* an import, which says so.                                               *)
WriteFails(s) ==
    /\ s \in saves /\ s.stage \in {"sent", "half"} /\ (s.stage = "sent" => Free)
    /\ saves' = saves \ {s} /\ Mishap({"failed"})
    /\ IF s.next = "alert" THEN transfer' = "no" /\ UNCHANGED <<app, start>> ELSE Answer(s)
    /\ GoKeeps /\ UNCHANGED <<disk, tray, config>>

StartReads ==
    /\ start = "asked" /\ Free
    /\ config' = disk["rules"] /\ start' = "read"
    /\ Mishap({m \in Mishaps : m = "overtaken" /\ saves # {}})
    /\ GoKeeps /\ UNCHANGED <<fileVars, transfer, app>>
(* xray-started, and a refused start.                                      *)
Started ==
    /\ start = "read" /\ start' = "none"
    /\ app' = "on" /\ rulesPending' = FALSE
    /\ UNCHANGED <<phase, mem, got, timer, transfer, config, fileVars,
                   changes, crashes, mishaps>>
Refused ==
    /\ start = "asked" /\ start' = "none" /\ app' = "off"
    /\ GoKeeps /\ UNCHANGED <<fileVars, transfer, config, mishaps>>

(* The import reads the whole settings, lays the file over them and saves. *)
AskImport ==
    /\ UserCan /\ Change /\ phase = "open" /\ transfer' = "asked"
    /\ Mishap({m \in Mishaps : m = "import" /\ (saves # {} \/ timer)})
    /\ PageKeeps /\ UNCHANGED <<mem, timer, app, rulesPending, coreVars, fileVars>>
ImportReads ==
    /\ transfer = "asked" /\ Free
    /\ \/ transfer' = "no" /\ UNCHANGED saves
       \/ /\ transfer' = "saving"
          /\ collectAndSaveSettings([f \in Fields |-> IF f \in Secret THEN disk[f] ELSE Imported],
                                    "alert")
    /\ GoKeeps /\ UNCHANGED <<disk, tray, app, coreVars, mishaps>>
(* The page is loaded anew when the alert is closed; the core runs on.     *)
Reload ==
    /\ transfer = "done" /\ start = "none"
    /\ Loaded /\ UNCHANGED <<coreVars, fileVars, changes, crashes, mishaps>>

(* The process ends anywhere, and is started again.                        *)
Crash ==
    /\ crashes < MaxCrashes /\ crashes' = crashes + 1
    /\ Loaded /\ saves' = {} /\ tray' = disk["rules"]
    /\ start' = "none" /\ config' = 0
    /\ UNCHANGED <<disk, changes, mishaps>>

-----------------------------------------------------------------------------
Next ==
    \/ GetSettings \/ Fill
    \/ ChangeSecret \/ LinkEvent \/ ChangeRule \/ ChangeBox \/ applyProfile
    \/ setTheme \/ SaveTimer \/ Connect
    \/ \E s \in saves : WriteSecrets(s) \/ WritePlain(s) \/ applyTrayToggles(s) \/ WriteFails(s)
    \/ StartReads \/ Started \/ Refused
    \/ AskImport \/ ImportReads \/ Reload
    \/ Crash
    \* The user rests.
    \/ phase = "open" /\ saves = {} /\ UNCHANGED vars

Spec == Init /\ [][Next]_vars

-----------------------------------------------------------------------------
AtRest == phase = "open" /\ saves = {} /\ ~timer /\ start = "none" /\ transfer = "no"
Without(kinds) == mishaps \cap kinds = {}

(* With no save under way the files and the tray hold what the page shows, *)
(* however the saves of its handlers, its timers and Go's events were      *)
(* mixed, and across crashes between the two files: as long as no two      *)
(* saves were under way at once, none went out before the page had read    *)
(* the settings or around an import, and none failed.                      *)
DiskHoldsChoices ==
    AtRest /\ Without({"crossed", "early", "failed", "import"})
        => disk = mem /\ tray = mem["rules"]

(* No save takes away what the user had and has not changed: the page only *)
(* ever saves all settings at once, so a field it does not have yet would  *)
(* be erased by a save of another (SaveSettings, settings.go:338).         *)
NothingErased ==
    Without({"early"}) =>
        /\ \A f \in Fields : disk[f] # 0
        /\ \A s \in saves : \A f \in Fields : s.object[f] # 0

(* No "restart to apply" bar over a connected core means the core has the  *)
(* rules the page shows: each change either sets the bar or restarts, and  *)
(* only a core that came up takes the bar away (rulesPending).             *)
PendingHonest ==
    AtRest /\ app = "on" /\ ~rulesPending
    /\ Without({"crossed", "early", "failed", "import", "overtaken"})
        => config = mem["rules"]
=============================================================================
