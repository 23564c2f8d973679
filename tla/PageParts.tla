------------------------------ MODULE PageParts ------------------------------
(***************************************************************************)
(* The parts of the page that have theorems, each with variables of its    *)
(* own: MCParts model-checks their properties and PagePartsProofs proves   *)
(* them.                                                                   *)
(***************************************************************************)
CONSTANTS
    Combinations, Unusable, MaxRequests,   \* Hotkeys: combinations, calls
    MaxSessions, MaxQuestions,             \* StatusBadges
    MaxSearches, RetryCount,               \* OutsideAddress: sessions, attempts
    Resolvers, DefaultResolver, OwnResolvers, BadText, NoText, Isp,
    MaxChoices, MaxChecks, MaxTests,       \* DnsSetting: edits
    MaxDialogs,                            \* Dialogs
    MaxStarts, MaxFrames, MaxFiles,        \* QrCamera
    LegacyRecords, StoredRecords,          \* History
    MaxRecords, MaxLoads, MaxLists,        \* its starts of the page and its calls
    MaxCores, MaxMoves,                    \* Screen
    MaxChanges, MaxCrashes,                \* Settings
    Colours, Short, Unfinished, Black, Presets, Default, NoTheme, MaxThemes  \* Theme

VARIABLES
    tick, fields, requests, made, mu, current, quitting, held, others, keyMishaps,
    appState, sessions, stage, rules, stuck, box, event, questions, asked,
    pill, badge, killSwitchArmed, killSwitchStuckReported, mishaps,
    adrState, adrSessions, running, currentIp, fetches, late,
    dnsSelect, customDnsInput, invalid, dnsCheckTimer, checks, dnsSaved, dnsStage, dnsCore,
    appliedDns, dnsPending, tests, verdict, choices, checked, tested, dnsMishaps,
    dialogStack, shown, handler, focus, opened, pending, download, told, listening, home,
    dialogMishaps,
    modal, clicks, qrStream, live, frames, qrAnimationId, requested, files, chosen, imports,
    lateStream,
    phase, answer, historyCache, legacy, historyFile, saves, ended, loads, lists, removed,
    historyMishaps,
    os, goVisible, procs, view, leaving, mail, onFocus, moves, awake, crossed,
    screenCore, cores, tabs, snapshot, stirred,
    initPhase, mem, got, timer, settingsSaves, disk, tray, transfer, app, start, config,
    rulesPending, changes, crashes, settingsMishaps,
    currentTheme, themeFrame, page, mirror, themeSaveTimer, themeFile, ready, controls,
    hex, typing, themeChosen, themeChanges, themeMishaps

hotVars == <<tick, fields, requests, made, mu, current, quitting, held, others, keyMishaps>>
bdgVars == <<appState, sessions, stage, rules, stuck, box, event, questions, asked,
             pill, badge, killSwitchArmed, killSwitchStuckReported, mishaps>>
adrVars == <<adrState, adrSessions, running, currentIp, fetches, late>>
dnsVars == <<dnsSelect, customDnsInput, invalid, dnsCheckTimer, checks, dnsSaved, dnsStage,
             dnsCore, appliedDns, dnsPending, tests, verdict, choices, checked, tested,
             dnsMishaps>>
diaVars == <<dialogStack, shown, handler, focus, opened, pending, download, told, listening,
             home, dialogMishaps>>
camVars == <<modal, clicks, qrStream, live, frames, qrAnimationId, requested, files, chosen,
             imports, lateStream>>
hisVars == <<phase, answer, historyCache, legacy, historyFile, saves, ended, loads, lists,
             removed, historyMishaps>>
scrVars == <<os, goVisible, procs, view, leaving, mail, onFocus, moves, awake, crossed,
             screenCore, cores, tabs, snapshot, stirred>>
savVars == <<initPhase, mem, got, timer, settingsSaves, disk, tray, transfer, app, start,
             config, rulesPending, changes, crashes, settingsMishaps>>
thmVars == <<currentTheme, themeFrame, page, mirror, themeSaveTimer, themeFile, ready, controls,
             hex, typing, themeChosen, themeChanges, themeMishaps>>

Hot == INSTANCE Hotkeys WITH
       Keys <- Combinations, MaxCalls <- MaxRequests, box <- tick, calls <- requests, mishaps <- keyMishaps
Bdg == INSTANCE StatusBadges WITH core <- stage
Adr == INSTANCE OutsideAddress WITH
       MaxSessions <- MaxSearches, appState <- adrState, sessions <- adrSessions
Dns == INSTANCE DnsSetting WITH
       Default <- DefaultResolver, Own <- OwnResolvers, Bad <- BadText, Empty <- NoText,
       MaxEdits <- MaxChoices, saved <- dnsSaved, stage <- dnsStage, core <- dnsCore,
       rulesPending <- dnsPending, edits <- choices, mishaps <- dnsMishaps
Dia == INSTANCE Dialogs WITH stack <- dialogStack, mishaps <- dialogMishaps
Cam == INSTANCE QrCamera WITH late <- lateStream
His == INSTANCE History WITH
       Legacy <- LegacyRecords, Stored <- StoredRecords,
       MaxStarts <- MaxLoads, MaxCalls <- MaxLists, file <- historyFile, starts <- loads,
       calls <- lists, mishaps <- historyMishaps
Scr == INSTANCE Screen WITH
       MaxSessions <- MaxCores, focus <- onFocus, core <- screenCore, sessions <- cores,
       answer <- snapshot
Sav == INSTANCE Settings WITH
       phase <- initPhase, saves <- settingsSaves, mishaps <- settingsMishaps
Thm == INSTANCE Theme WITH
       MaxChanges <- MaxThemes, file <- themeFile, chosen <- themeChosen,
       changes <- themeChanges, mishaps <- themeMishaps

ASSUME PagePartsAssumption ==
    /\ Hot!HotkeysAssumption /\ Bdg!StatusBadgesAssumption /\ Adr!OutsideAddressAssumption
    /\ Dns!DnsSettingAssumption /\ Dia!DialogsAssumption /\ Cam!QrCameraAssumption
    /\ His!HistoryAssumption /\ Scr!ScreenAssumption /\ Sav!SettingsAssumption
    /\ Thm!ThemeAssumption

(* The state of every part has its type.                                   *)
PartsTypeOK ==
    /\ Hot!TypeOK /\ Bdg!TypeOK /\ Adr!TypeOK /\ Dns!TypeOK /\ Dia!TypeOK /\ Cam!TypeOK
    /\ His!TypeOK /\ Scr!TypeOK /\ Sav!TypeOK /\ Thm!TypeOK
(* Keys are held by the thread that is known, and the tick in the settings *)
(* says so (SetGlobalHotkeys, applyGlobalHotkeys).                         *)
KeysAreHonest == Hot!KeysAreCurrent /\ Hot!BoxIsHonest
(* The badges of the kill switch tell of the rules, and the address is     *)
(* that of the session (refreshKillSwitchBadge, fetchIP).                  *)
BadgesAreTrue == Bdg!BadgeIsTrue /\ Adr!AddressIsCurrent
(* A resolver is checked before it is saved, its change is told, and the   *)
(* leak test judges by it (checkCustomDns, runDnsLeakTest).                *)
ResolverIsHonest == Dns!FieldIsHonest /\ Dns!ChangeIsTold /\ Dns!AlarmIsTrue
(* Dialogs over dialogs can be answered and give the focus back            *)
(* (dialogStack), and the camera is on only for its dialog (stopQrCamera). *)
DialogsEnd == Dia!EveryDialogCanEnd /\ Dia!FocusComesBack /\ Cam!CameraIsTheDialogs
(* Sessions stay in the history, and the records of old versions move over *)
(* before they are taken away (initHistory, saveHistory).                  *)
HistoryIsKept == []His!SessionsKept /\ [][His!MovesOver]_hisVars
(* A window that is seen works, one that is not does nothing, and no rows  *)
(* outlive their connection (setUiActive, onWindowBackOnScreen).           *)
SeenIsAlive == Scr!WakesUp /\ Scr!OnlyWhileSeen /\ Scr!NoGhosts
(* Files and tray hold what the page shows, no save erases what it has not *)
(* read, and the bar "restart to apply" is honest (collectAndSaveSettings).*)
ChoicesArriveOnDisk == Sav!DiskHoldsChoices /\ Sav!NothingErased /\ Sav!PendingHonest
(* The theme is one in the page, its mirror, the file and the controls:    *)
(* the one the user made last (setTheme, applyPendingTheme, init).         *)
ThemeHolds == Thm!ThemeIsOne /\ Thm!ChoiceStays /\ Thm!ControlsAreHonest
=============================================================================
