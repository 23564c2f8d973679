----------------------------- MODULE KillSwitch -----------------------------
(***************************************************************************)
(* The kill switch of NeoBox (backend/service/killswitch.go and            *)
(* backend/security/scheduler_windows.go), one netsh process or one file   *)
(* operation at a time.                                                    *)
(*                                                                         *)
(* The firewall rules and the marker file outlive the process, the process *)
(* may die between any two steps, and nothing keeps two callers of         *)
(* enableKillSwitch and disableKillSwitch apart: startCore runs on         *)
(* goroutines of the window and of the watchdog, StopXray on others.       *)
(***************************************************************************)
EXTENDS Naturals, FiniteSets

CONSTANTS
    Threads,     \* goroutines that arm and disarm
    Main,        \* the goroutine that constructs AppService
    Addresses    \* addresses VPN servers resolve to

ASSUME KillSwitchAssumption == Main \notin Threads

VARIABLES
    block, lan, allow,   \* the rules: block all, allow the LAN, allow these addresses
    marker,              \* killswitch.active exists
    alive, elevated,     \* the process, and whether it may change rules
    stuck,               \* killSwitchStuck
    step,                \* what each goroutine is about to do
    untouched,           \* history: no call of this process has reached the rules yet
    unrecorded,          \* history: the last process died with rules up and no marker
    faulty,              \* history: a netsh process or a write of the marker has failed
    overlapped           \* history: a call began while another was on its way

rules    == <<block, lan, allow>>
procVars == <<alive, elevated, stuck, untouched>>
vars     == <<rules, marker, procVars, step, unrecorded, faulty, overlapped>>

Actors == Threads \cup {Main}

(* A goroutine is at a point of an operation: replace is the removal       *)
(* EnableKillSwitch begins with, undo the one it ends a failure with,      *)
(* disable is disableKillSwitch, recover is recoverKillSwitch.             *)
Steps ==
    [op: {"replace", "undo", "disable", "recover", "none"},
     at: {"delBlock", "delLan", "delAllow", "show", "unmark",
          "addLan", "addAllow", "addBlock", "mark", "idle"},
     todo: SUBSET Addresses]

At(op, at, todo) == [op |-> op, at |-> at, todo |-> todo]
Idle == At("none", "idle", {})

TypeOK ==
    /\ block \in BOOLEAN /\ lan \in BOOLEAN /\ allow \in SUBSET Addresses
    /\ marker \in BOOLEAN
    /\ alive \in BOOLEAN /\ elevated \in BOOLEAN /\ stuck \in BOOLEAN
    /\ step \in [Actors -> Steps]
    /\ untouched \in BOOLEAN /\ unrecorded \in BOOLEAN
    /\ faulty \in BOOLEAN /\ overlapped \in BOOLEAN

Init ==
    /\ block = FALSE /\ lan = FALSE /\ allow = {}
    /\ marker = FALSE
    /\ alive = TRUE /\ elevated \in BOOLEAN /\ stuck = FALSE
    /\ step = [t \in Actors |-> Idle]
    /\ untouched = TRUE /\ unrecorded = FALSE
    /\ faulty = FALSE /\ overlapped = FALSE

AnyRule == block \/ lan \/ allow # {}

Settled == \A t \in Actors : step[t] = Idle

Goto(t, op, at, todo) == step' = [step EXCEPT ![t] = At(op, at, todo)]

Doing(t, at) == alive /\ step[t].at = at

(* A netsh process may fail to start, or the firewall service be down.     *)
Attempt(ran) == faulty' = (faulty \/ ~ran)

(* One netsh process that should change a rule: the change is made only    *)
(* for an elevated process.                                                *)
Changes(made) == \E ran \in BOOLEAN : Attempt(ran) /\ made = (ran /\ elevated)

(***************************************************************************)
(* DisableKillSwitch: the block rule goes first.  Every deletion is tried  *)
(* and none is looked at; what counts is whether any rule still shows.     *)
(***************************************************************************)
DeleteBlock(t) ==
    /\ Doing(t, "delBlock")
    /\ \E made \in BOOLEAN : Changes(made) /\ block' = (block /\ ~made)
    /\ Goto(t, step[t].op, "delLan", step[t].todo)
    /\ UNCHANGED <<lan, allow, marker, procVars, unrecorded, overlapped>>

DeleteLan(t) ==
    /\ Doing(t, "delLan")
    /\ \E made \in BOOLEAN : Changes(made) /\ lan' = (lan /\ ~made)
    /\ Goto(t, step[t].op, "delAllow", step[t].todo)
    /\ UNCHANGED <<block, allow, marker, procVars, unrecorded, overlapped>>

(* EnableKillSwitch ignores the verdict: after the first removal it goes   *)
(* on to add rules, after the last one it returns its error, upon which    *)
(* startCore calls disableKillSwitch.                                      *)
DeleteAllow(t) ==
    /\ Doing(t, "delAllow")
    /\ \E made \in BOOLEAN : Changes(made) /\ allow' = IF made THEN {} ELSE allow
    /\ CASE step[t].op = "replace" -> Goto(t, "replace", "addLan", step[t].todo)
         [] step[t].op = "undo"    -> Goto(t, "disable", "delBlock", {})
         [] OTHER                  -> Goto(t, step[t].op, "show", {})
    /\ UNCHANGED <<block, lan, marker, procVars, unrecorded, overlapped>>

(* Mutant: the removal is taken to have worked.                            *)
ShowUnasked(t) ==
    /\ Doing(t, "show")
    /\ Goto(t, step[t].op, "unmark", {})
    /\ UNCHANGED <<rules, marker, procVars, unrecorded, faulty, overlapped>>

(* KillSwitchRulesPresent takes a netsh that did not run for "no rule".    *)
Show(t) ==
    /\ Doing(t, "show")
    /\ \E ran \in BOOLEAN :
         /\ Attempt(ran)
         /\ IF AnyRule /\ ran
              THEN /\ Goto(t, "none", "idle", {})
                   /\ stuck' = (stuck \/ step[t].op = "recover")
              ELSE /\ Goto(t, step[t].op, "unmark", {})
                   /\ UNCHANGED stuck
    /\ UNCHANGED <<rules, marker, alive, elevated, untouched, unrecorded, overlapped>>

Unmark(t) ==
    /\ Doing(t, "unmark")
    /\ marker' = FALSE
    /\ Goto(t, "none", "idle", {})
    /\ UNCHANGED <<rules, procVars, unrecorded, faulty, overlapped>>

(* A call begins, maybe beside one that is on its way.                     *)
Begin(t) ==
    /\ Doing(t, "idle") /\ step[Main] = Idle
    /\ untouched' = FALSE
    /\ overlapped' = (overlapped \/ ~Settled)
    /\ UNCHANGED <<rules, marker, alive, elevated, stuck, unrecorded, faulty>>

(* disableKillSwitch: a disconnect, the end of the process, or a start     *)
(* whose server has no address that may be exempted.                       *)
BeginDisable(t) ==
    /\ Begin(t)
    /\ Goto(t, "disable", "delBlock", {})

(***************************************************************************)
(* enableKillSwitch, called only where startCore found the process         *)
(* elevated.                                                               *)
(***************************************************************************)
(* Mutant: new rules are added to those of the last server.                *)
BeginEnableOnTop(t, ips) ==
    /\ Begin(t)
    /\ elevated
    /\ Goto(t, "replace", "addLan", ips)

BeginEnable(t, ips) ==
    /\ Begin(t)
    /\ elevated
    /\ Goto(t, "replace", "delBlock", ips)

Fail(t) ==
    /\ Attempt(FALSE)
    /\ Goto(t, "undo", "delBlock", {})
    /\ UNCHANGED <<rules, marker, procVars, unrecorded, overlapped>>

(* Mutant: the block goes in before the exceptions.                        *)
AddLanThenBlock(t) ==
    /\ Doing(t, "addLan")
    /\ lan' = TRUE
    /\ Goto(t, "replace", "addBlock", step[t].todo)
    /\ UNCHANGED <<block, allow, marker, procVars, unrecorded, faulty, overlapped>>

AddLan(t) ==
    /\ Doing(t, "addLan")
    /\ \/ Fail(t)
       \/ /\ lan' = TRUE
          /\ Goto(t, "replace", "addAllow", step[t].todo)
          /\ UNCHANGED <<block, allow, marker, procVars, unrecorded, faulty, overlapped>>

AddAllow(t) ==
    /\ Doing(t, "addAllow")
    /\ \/ Fail(t)
       \/ \E ip \in step[t].todo :
            LET rest == step[t].todo \ {ip} IN
            /\ allow' = allow \cup {ip}
            /\ Goto(t, "replace", IF rest = {} THEN "addBlock" ELSE "addAllow", rest)
            /\ UNCHANGED <<block, lan, marker, procVars, unrecorded, faulty, overlapped>>

AddBlock(t) ==
    /\ Doing(t, "addBlock")
    /\ \/ Fail(t)
       \/ /\ block' = TRUE
          /\ Goto(t, "replace", "mark", {})
          /\ UNCHANGED <<lan, allow, marker, procVars, unrecorded, faulty, overlapped>>

(* A marker that cannot be written is a warning in the log, no more.       *)
WriteMarker(t) ==
    /\ Doing(t, "mark")
    /\ \E written \in BOOLEAN : Attempt(written) /\ marker' = (marker \/ written)
    /\ Goto(t, "none", "idle", {})
    /\ UNCHANGED <<rules, procVars, unrecorded, overlapped>>

(***************************************************************************)
(* The process: it dies at any point, and is started again.                *)
(***************************************************************************)
Crash ==
    /\ alive
    /\ alive' = FALSE
    /\ step' = [t \in Actors |-> Idle]
    /\ unrecorded' = (AnyRule /\ ~marker)
    /\ UNCHANGED <<rules, marker, elevated, stuck, untouched, faulty, overlapped>>

(* Mutant: nothing looks for the marker.                                   *)
LaunchBlind ==
    /\ ~alive
    /\ alive' = TRUE
    /\ elevated' \in BOOLEAN
    /\ stuck' = FALSE /\ untouched' = TRUE
    /\ UNCHANGED <<rules, marker, step, unrecorded, faulty, overlapped>>

(* NewAppService calls recoverKillSwitch before anything else can.         *)
Launch ==
    /\ ~alive
    /\ alive' = TRUE
    /\ elevated' \in BOOLEAN
    /\ stuck' = FALSE /\ untouched' = TRUE
    /\ IF marker THEN Goto(Main, "recover", "delBlock", {}) ELSE UNCHANGED step
    /\ UNCHANGED <<rules, marker, unrecorded, faulty, overlapped>>

Enable(t) ==
    \/ \E ips \in (SUBSET Addresses) \ {{}} : BeginEnable(t, ips)
    \/ AddLan(t) \/ AddAllow(t) \/ AddBlock(t) \/ WriteMarker(t)

Disable(t) ==
    \/ DeleteBlock(t) \/ DeleteLan(t) \/ DeleteAllow(t)
    \/ Show(t) \/ Unmark(t)

Next ==
    \/ \E t \in Threads : BeginDisable(t) \/ Enable(t)
    \/ \E t \in Actors : Disable(t)
    \/ Crash \/ Launch

Spec == Init /\ [][Next]_vars

(***************************************************************************)
(* Properties.                                                             *)
(***************************************************************************)
(* No call has met another, and netsh and the marker file never failed:    *)
(* what the code relies on without looking.                                *)
Smooth == ~faulty /\ ~overlapped

(* Wherever the process dies, a machine that is blocked can reach its LAN  *)
(* and a server: EnableKillSwitch adds the block last, DisableKillSwitch   *)
(* removes it first.                                                       *)
BlockHasExceptions == (Smooth /\ block) => lan /\ allow # {}

(* However netsh fails on the way, traffic is never cut off before the     *)
(* LAN and a server have been exempted: a failed addition ends the attempt.*)
BlockGoesLast == [][(~block /\ block' /\ ~overlapped) => (lan /\ allow # {})]_vars

(* disableKillSwitch and recoverKillSwitch give the marker up only when no *)
(* rule is left for it to tell of.                                         *)
MarkerOutlivesRules == [][(marker /\ ~marker' /\ Smooth) => ~AnyRule]_vars

(* A process that has just started and is done with its recovery has       *)
(* removed what an earlier one left; or it may not, and says so.           *)
Recovered == (alive /\ untouched /\ Settled /\ AnyRule) => (stuck /\ ~elevated /\ marker)

LeftoversRecovered == (Smooth /\ ~unrecorded) => Recovered

(* "A crashed session cannot leave your machine firewalled off": a process *)
(* that may change rules has removed the block by the end of its launch.   *)
NotLeftBlocked == (Smooth /\ alive /\ untouched /\ Settled /\ elevated) => ~block

(* The rules as the traffic meets them are the promise of module Blocking: *)
(* all of the exceptions or no block, and none changed under a block.      *)
Promise == INSTANCE Blocking WITH exempt <- IF block /\ Smooth THEN allow ELSE {}

KeepsPromise == Promise!Spec
=============================================================================
