------------------------------ MODULE DnsSetting ------------------------------
(***************************************************************************)
(* The choice of a DNS resolver (renderer.ts): a list, a field for an      *)
(* address of one's own that the back end checks as one types, the copy on *)
(* disk the core reads when it starts, the page's idea of what the core    *)
(* uses (appliedDns), and the test for leaks that is judged by it.         *)
(***************************************************************************)
EXTENDS Naturals, FiniteSets

CONSTANTS Resolvers,   \* those of the list, whose owners are known
          Default,     \* the one the core takes when none is set
          Own,         \* addresses of one's own the back end accepts
          Bad, Empty,  \* a text it refuses; no text
          Isp,         \* the resolver of the provider
          MaxEdits, MaxChecks, MaxTests   \* bounds

Custom == "custom"   \* the entry of the list that leaves it to the field

DnsSettingAssumption ==
    /\ Default \in Resolvers /\ Resolvers \cap Own = {} /\ Bad # Empty
    /\ {Bad, Empty, Isp} \cap (Resolvers \cup Own) = {} /\ Custom \notin Resolvers
    /\ MaxEdits \in Nat /\ MaxChecks \in Nat \ {0} /\ MaxTests \in Nat

VARIABLES
    dnsSelect, customDnsInput,   \* Own stands in the list for "custom"
    invalid,       \* customDnsHint tells a problem
    dnsCheckTimer, \* it is set
    checks,        \* calls of ValidateDNS that have not been answered: [id, value]
    saved,         \* settings.dns on disk
    stage,         \* of the session: off, starting, up (onStarted has not come), on
    core,          \* the setting of the core that starts or runs
    appliedDns, rulesPending,
    tests,         \* runs of runDnsLeakTest under way
    verdict,       \* what the dialog shows of the last, and what it was about
    edits, checked, tested,      \* how many
    mishaps        \* history: of Mishap

fieldVars == <<dnsSelect, customDnsInput>>
checkVars == <<invalid, dnsCheckTimer, checks, checked>>
sessionVars == <<stage, core>>
testVars == <<tests, verdict, tested>>
vars == <<fieldVars, checkVars, saved, sessionVars, appliedDns, rulesPending, testVars,
          edits, mishaps>>

Texts == Own \cup {Bad, Empty}
Settings == Resolvers \cup Texts
Mishap == {"crossed",   \* a check was answered after a newer text had been looked at
           "edited",    \* a core was starting with another setting than the page held
          "unset",     \* a core was started with no setting
           "reloaded"}  \* the page was loaded anew over a running core
NoVerdict == [says |-> "nothing", leaked |-> FALSE, whole |-> FALSE]
Test == [seen: Resolvers \cup Own \cup {Isp, "unseen"}, whole: BOOLEAN, leaked: BOOLEAN]

TypeOK ==
    /\ dnsSelect \in Resolvers \cup {Custom} /\ customDnsInput \in Texts
    /\ invalid \in BOOLEAN /\ dnsCheckTimer \in BOOLEAN
    /\ checks \subseteq [id: 1..MaxChecks, value: Texts] /\ checked \in 0..MaxChecks
    /\ saved \in Settings /\ stage \in {"off", "starting", "up", "on"}
    /\ core \in Settings /\ appliedDns \in Settings /\ rulesPending \in BOOLEAN
    /\ tests \in SUBSET [id: 1..MaxTests, test: Test] /\ tested \in 0..MaxTests
    /\ verdict \in [says: {"nothing", "unknown", "unverified", "safe", "leak", "error"},
                    leaked: BOOLEAN, whole: BOOLEAN]
    /\ edits \in 0..MaxEdits /\ mishaps \in SUBSET Mishap

SettingOf(select, text) == IF select = Custom THEN text ELSE select
currentDnsSetting == SettingOf(dnsSelect, customDnsInput)
Usable(setting) == setting # Bad
ResolverOf(setting) == IF setting = Empty THEN Default ELSE setting

(* setDnsSetting: how a setting lies in the list and the field.            *)
Shows(setting) ==
    /\ dnsSelect' = IF setting \in Texts THEN Custom ELSE setting
    /\ customDnsInput' = IF setting \in Texts THEN setting ELSE customDnsInput

Init ==
    /\ saved \in Resolvers \cup Own \cup {Bad}
    /\ dnsSelect = (IF saved \in Texts THEN Custom ELSE saved)
    /\ customDnsInput = (IF saved \in Texts THEN saved ELSE Empty)
    /\ invalid = FALSE /\ dnsCheckTimer = FALSE
    /\ checks = (IF saved \in Texts THEN {[id |-> 1, value |-> saved]} ELSE {})
    /\ checked = Cardinality(checks)
    /\ stage = "off" /\ core = saved /\ appliedDns = saved /\ rulesPending = FALSE
    /\ tests = {} /\ verdict = NoVerdict /\ tested = 0 /\ edits = 0 /\ mishaps = {}

(* checkCustomDns up to its await.                                         *)
Check(text) ==
    IF text = Empty THEN invalid' = FALSE /\ UNCHANGED <<checks, checked>>
    ELSE /\ checked < MaxChecks /\ checked' = checked + 1
         /\ checks' = checks \cup {[id |-> checked', value |-> text]} /\ UNCHANGED invalid
Edited == edits < MaxEdits /\ edits' = edits + 1
(* A change of what is on disk or in the field, seen by a start under way. *)
Noted == mishaps' = IF stage \in {"starting", "up"} THEN mishaps \cup {"edited"} ELSE mishaps
MarkIfNew(setting) == rulesPending' = (rulesPending \/ setting # appliedDns)

(* dnsSelect.onchange: a resolver of the list is saved at once, one's own  *)
(* when it has been checked.                                               *)
SelectResolver(resolver) ==
    /\ Edited /\ resolver # dnsSelect /\ dnsSelect' = resolver /\ saved' = resolver
    /\ MarkIfNew(resolver) /\ Noted
    /\ UNCHANGED <<customDnsInput, checkVars, sessionVars, appliedDns, testVars>>
SelectCustom ==
    /\ Edited /\ dnsSelect # Custom /\ dnsSelect' = Custom /\ Check(customDnsInput) /\ Noted
    /\ UNCHANGED <<customDnsInput, dnsCheckTimer, saved, sessionVars, appliedDns, rulesPending,
                   testVars>>
Type ==
    /\ Edited /\ dnsSelect = Custom /\ customDnsInput' \in Texts \ {customDnsInput}
    /\ dnsCheckTimer' = TRUE /\ Noted
    /\ UNCHANGED <<dnsSelect, invalid, checks, checked, saved, sessionVars, appliedDns,
                   rulesPending, testVars>>
CheckDue ==
    /\ dnsCheckTimer /\ dnsCheckTimer' = FALSE /\ Check(customDnsInput)
    /\ UNCHANGED <<fieldVars, saved, sessionVars, appliedDns, rulesPending, testVars, edits, mishaps>>
(* ... and after it: what is saved is what the field holds by now.         *)
checkCustomDns(c) ==
    /\ checks' = checks \ {c} /\ invalid' = (c.value = Bad)
    /\ IF c.value = Bad THEN UNCHANGED <<saved, rulesPending>>
       ELSE saved' = currentDnsSetting /\ MarkIfNew(currentDnsSetting)
    /\ mishaps' = IF c.id < checked \/ (c.value # customDnsInput /\ ~dnsCheckTimer)
                  THEN mishaps \cup {"crossed"} ELSE mishaps
    /\ UNCHANGED <<fieldVars, dnsCheckTimer, checked, sessionVars, appliedDns, testVars, edits>>
(* Any other box or field saves the whole page.                            *)
collectAndSaveSettings ==
    /\ saved' = currentDnsSetting /\ saved' # saved /\ Noted
    /\ UNCHANGED <<fieldVars, checkVars, sessionVars, appliedDns, rulesPending, testVars, edits>>
(* A test that is under way will not have seen one session only.           *)
Broken == {[t EXCEPT !.test.whole = FALSE] : t \in tests}
TestsBreak == tests' = Broken /\ UNCHANGED <<verdict, tested>>

(* A profile: shown, saved, and a session that is on restarts with it.     *)
setDnsSetting(setting) ==
    /\ Shows(setting)
    /\ IF setting \in Texts THEN Check(setting) ELSE UNCHANGED <<invalid, checks, checked>>
applyProfile(setting) ==
    /\ Edited /\ setDnsSetting(setting) /\ saved' = setting
    /\ IF stage = "on" THEN stage' = "starting" /\ core' = setting /\ UNCHANGED mishaps /\ TestsBreak
       ELSE Noted /\ UNCHANGED <<sessionVars, testVars>>
    /\ UNCHANGED <<dnsCheckTimer, appliedDns, rulesPending>>

(* A session: the core is given what is on disk when it starts.            *)
StartXray ==
    /\ stage \in {"off", "on"} /\ stage' = "starting" /\ core' = saved /\ TestsBreak
    /\ UNCHANGED <<fieldVars, checkVars, saved, appliedDns, rulesPending, edits>>
    /\ mishaps' = mishaps \cup (IF saved # currentDnsSetting THEN {"edited"} ELSE {})
                           \cup (IF saved = Empty THEN {"unset"} ELSE {})
CoreIsUp ==
    /\ stage = "starting" /\ Usable(core) /\ stage' = "up"
    /\ UNCHANGED <<fieldVars, checkVars, saved, core, appliedDns, rulesPending, testVars, edits, mishaps>>
(* Mutant: the page's idea of the resolver is that of the last load.       *)
AppliedOld == appliedDns
Applied == currentDnsSetting
onStarted ==
    /\ stage = "up" /\ stage' = "on" /\ appliedDns' = Applied /\ rulesPending' = FALSE
    /\ TestsBreak /\ UNCHANGED <<fieldVars, checkVars, saved, core, edits, mishaps>>
Stopped ==
    /\ stage # "off" /\ stage' = "off" /\ TestsBreak
    /\ UNCHANGED <<fieldVars, checkVars, saved, core, appliedDns, rulesPending, edits, mishaps>>
(* The settings of a file, and the page loaded anew; the core goes on.     *)
Reload(setting) ==
    /\ Edited /\ saved' = setting /\ setDnsSetting(setting) /\ dnsCheckTimer' = FALSE
    /\ appliedDns' = setting /\ rulesPending' = FALSE /\ tests' = {} /\ verdict' = NoVerdict
    /\ mishaps' = IF stage = "off" THEN mishaps ELSE mishaps \cup {"reloaded"}
    /\ UNCHANGED <<sessionVars, tested>>

(* The test: who resolves the name is asked of the zone that was resolved, *)
(* and judged by what the page holds when all answers are there.           *)
runDnsLeakTest ==
    /\ tested < MaxTests /\ tested' = tested + 1
    /\ tests' = tests \cup {[id |-> tested', test |->
           [seen |-> "unseen", whole |-> stage = "on", leaked |-> FALSE]]}
    /\ UNCHANGED <<fieldVars, checkVars, saved, sessionVars, appliedDns, rulesPending, verdict,
                   edits, mishaps>>
Resolve(t) ==
    /\ t.test.seen = "unseen"
    /\ \E resolver \in (IF stage \in {"up", "on"} THEN {ResolverOf(core), Isp} ELSE {Isp}) :
          tests' = (tests \ {t}) \cup {[t EXCEPT !.test.seen = resolver, !.test.leaked = resolver = Isp]}
    /\ UNCHANGED <<fieldVars, checkVars, saved, sessionVars, appliedDns, rulesPending, verdict,
                   tested, edits, mishaps>>
Expected == IF appliedDns # Empty THEN appliedDns ELSE currentDnsSetting
Judged(seen) ==
    IF Expected \notin Resolvers THEN "unverified" ELSE IF seen = Expected THEN "safe" ELSE "leak"
Verdict(t) ==
    /\ \/ /\ t.test.seen # "unseen"
          /\ verdict' = [says |-> Judged(t.test.seen), leaked |-> t.test.leaked, whole |-> t.test.whole]
       \/ \E says \in {"unknown", "error"} :
             verdict' = [says |-> says, leaked |-> t.test.leaked, whole |-> t.test.whole]
    /\ tests' = tests \ {t}
    /\ UNCHANGED <<fieldVars, checkVars, saved, sessionVars, appliedDns, rulesPending, tested,
                   edits, mishaps>>

Next ==
    \/ \E r \in Resolvers : SelectResolver(r)
    \/ SelectCustom \/ Type \/ CheckDue \/ collectAndSaveSettings
    \/ \E c \in checks : checkCustomDns(c)
    \/ \E s \in Resolvers \cup Own \cup {Bad} : applyProfile(s) \/ Reload(s)
    \/ StartXray \/ CoreIsUp \/ onStarted \/ Stopped
    \/ runDnsLeakTest \/ \E t \in tests : Resolve(t) \/ Verdict(t)

Spec == Init /\ [][Next]_vars

AtRest == checks = {} /\ ~dnsCheckTimer
(* When nothing is being checked, the field shows a problem if and only if *)
(* its text has one, and a text without one is on disk; unless the back    *)
(* end answered an older question last.                                    *)
FieldIsHonest ==
    AtRest /\ dnsSelect = Custom /\ "crossed" \notin mishaps =>
        /\ invalid = (customDnsInput = Bad)
        /\ customDnsInput \in Own => saved = customDnsInput
(* The user of a session that runs with another resolver than is set is    *)
(* told that the change waits; unless it was made while the core started,  *)
(* or the page was loaded anew.                                            *)
ChangeIsTold ==
    AtRest /\ stage = "on" /\ mishaps \cap {"edited", "reloaded"} = {}
    /\ currentDnsSetting \in Resolvers \cup Own /\ currentDnsSetting # core => rulesPending
(* The test says leak only of a leak, and safe only when there was none,   *)
(* if one session carried it from end to end, and with those exceptions;   *)
(* nor when the core runs with no setting, for which the page has no name. *)
AlarmIsTrue ==
    verdict.whole /\ mishaps \cap {"edited", "reloaded", "unset"} = {} =>
        /\ verdict.says = "leak" => verdict.leaked
        /\ verdict.says = "safe" => ~verdict.leaked
(* The same of a core with no setting: what is seen must be held against   *)
(* what the core uses, and not against what is chosen (renderer.ts).       *)
JudgedByTheCore ==
    verdict.whole /\ mishaps \cap {"edited", "reloaded"} = {} =>
        (verdict.says = "leak" => verdict.leaked)
=============================================================================
