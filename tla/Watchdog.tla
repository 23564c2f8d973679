------------------------------ MODULE Watchdog ------------------------------
(***************************************************************************)
(* What a watchdog goroutine decides (backend/service/watchdog.go): one    *)
(* step is one tick of its loop, the restart it may lead to included; how  *)
(* the steps of a restart interleave with other calls is in Session.       *)
(*                                                                         *)
(* Everything the loop counts is a local variable of the goroutine, and    *)
(* every successful start ends this goroutine and begins the next one.     *)
(* Pauses are counted in ticks; the time an attempt takes is not.          *)
(***************************************************************************)
EXTENDS Naturals, SequencesExt

CONSTANTS
    Servers,         \* the links of the subscriptions, in their order
    FailThreshold,   \* watchdogFailThreshold
    FutileRestarts,  \* watchdogFutileRestarts
    InitialBackoff, MaxBackoff,
    MaxCandidates,   \* watchdogMaxCandidates
    UdpOnly,         \* links whose protocol has no TCP port to knock on
    Armed            \* whether the kill switch blocks all but the current server

ASSUME WatchdogAssumption ==
    /\ Len(Servers) > 0
    /\ FailThreshold \in Nat \ {0} /\ FutileRestarts \in Nat \ {0}
    /\ InitialBackoff \in Nat \ {0} /\ MaxBackoff \in Nat
    /\ InitialBackoff <= MaxBackoff
    /\ MaxCandidates \in Nat \ {0}
    /\ UdpOnly \subseteq ToSet(Servers)
    /\ Armed \in BOOLEAN

VARIABLES
    link,        \* watchdogLink, which upstream follows
    failCount, backoff, cooldown, futileRestarts, tried,
    up,          \* the core runs
    answers,     \* the servers that are up and can be reached
    fruitless    \* history: restarts on this link since the proxy last answered

locals == <<failCount, backoff, cooldown, futileRestarts, tried>>
vars   == <<link, locals, up, answers, fruitless>>

Links == ToSet(Servers)

TypeOK ==
    /\ link \in Links
    /\ failCount \in 0..FailThreshold
    /\ backoff \in InitialBackoff..MaxBackoff /\ cooldown \in 0..MaxBackoff
    /\ futileRestarts \in 0..FutileRestarts
    /\ tried \subseteq Links
    /\ up \in BOOLEAN /\ answers \subseteq Links
    /\ fruitless \in 0..(FutileRestarts + 1)

Init ==
    /\ link \in Links
    /\ failCount = 0 /\ backoff = InitialBackoff /\ cooldown = 0
    /\ futileRestarts = 0 /\ tried = {}
    /\ up = TRUE /\ answers \in SUBSET Links
    /\ fruitless = 0

(* probeUpstream and the dials of pickLiveServer are TCP and go out beside *)
(* the tunnel: a server that speaks UDP only refuses them, and the rules   *)
(* of the kill switch let them reach the current server only.              *)
Reaches(server) == server \in answers \ UdpOnly /\ (Armed => server = link)

(* watchdogCandidates: in the order of the subscriptions, up to the cap.   *)
Candidates(exclude) ==
    LET fresh == SelectSeq(Servers, LAMBDA server : server \notin exclude)
    IN  ToSet(SubSeq(fresh, 1, IF Len(fresh) < MaxCandidates THEN Len(fresh) ELSE MaxCandidates))

(* Mutant: any candidate will do.                                          *)
LiveServersUnasked(exclude) == Candidates(exclude)

(* pickLiveServer: the first to answer, which may be any that does.        *)
LiveServers(exclude) == {server \in Candidates(exclude) : Reaches(server)}

nextWatchdogBackoff(current) == IF 2 * current > MaxBackoff THEN MaxBackoff ELSE 2 * current

(***************************************************************************)
(* Ticks.                                                                  *)
(***************************************************************************)
CoolDown == cooldown' = IF cooldown > 0 THEN cooldown - 1 ELSE 0

(* The local proxy port answered, which only a running core can do.        *)
ProbeAnswers ==
    /\ up
    /\ failCount' = 0 /\ backoff' = InitialBackoff /\ cooldown' = 0
    /\ futileRestarts' = 0 /\ tried' = {}
    /\ fruitless' = 0
    /\ UNCHANGED <<link, up, answers>>

Due == failCount + 1 >= FailThreshold /\ cooldown = 0

(* A failure below the threshold, or within the pause; the count only      *)
(* matters up to the threshold.                                            *)
ProbeFails ==
    /\ ~Due
    /\ failCount' = IF failCount < FailThreshold THEN failCount + 1 ELSE failCount
    /\ CoolDown
    /\ UNCHANGED <<link, backoff, futileRestarts, tried, up, answers, fruitless>>

Pause == cooldown' = backoff /\ backoff' = nextWatchdogBackoff(backoff)

(* Mutant: no clean slate after the pause.                                 *)
WaitWithoutReset ==
    /\ Due
    /\ ~Reaches(link) \/ futileRestarts >= FutileRestarts
    /\ tried' = tried \cup {link}
    /\ LiveServers(tried') = {}
    /\ Pause
    /\ failCount' = FailThreshold
    /\ UNCHANGED <<link, futileRestarts, up, answers, fruitless>>

(* Nobody to go to: wait, for the network or for another server.  Only a   *)
(* server that answers without serving is given a clean slate.             *)
Wait ==
    /\ Due
    /\ ~Reaches(link) \/ futileRestarts >= FutileRestarts
    /\ tried' = tried \cup {link}
    /\ LiveServers(tried') = {}
    /\ Pause
    /\ futileRestarts' = IF Reaches(link) THEN 0 ELSE futileRestarts
    /\ fruitless' = IF Reaches(link) THEN 0 ELSE fruitless
    /\ failCount' = FailThreshold
    /\ UNCHANGED <<link, up, answers>>

Counted(n) == IF n > FutileRestarts THEN n ELSE n + 1

(* The core is stopped and startCore succeeds: a new watchdog for target.  *)
StartSucceeds(target) ==
    /\ link' = target /\ up' = TRUE
    /\ failCount' = 0 /\ backoff' = InitialBackoff /\ cooldown' = 0
    /\ futileRestarts' = 0 /\ tried' = {}

(* It fails: this watchdog goes on, and after a switch from the start of   *)
(* its backoff.                                                            *)
StartFails(target, futile, pause, exclude) ==
    /\ link' = target /\ up' = FALSE
    /\ failCount' = 0 /\ futileRestarts' = futile
    /\ cooldown' = pause /\ backoff' = nextWatchdogBackoff(pause)
    /\ tried' = exclude

RestartServer ==
    /\ Due
    /\ Reaches(link) /\ futileRestarts < FutileRestarts
    /\ \/ StartSucceeds(link)
       \/ StartFails(link, futileRestarts + 1, backoff, tried)
    /\ fruitless' = Counted(fruitless)
    /\ UNCHANGED answers

SwitchServer ==
    /\ Due
    /\ ~Reaches(link) \/ futileRestarts >= FutileRestarts
    /\ \E alt \in LiveServers(tried \cup {link}) :
         \/ StartSucceeds(alt)
         \/ StartFails(alt, 1, InitialBackoff, tried \cup {link})
    /\ fruitless' = 1
    /\ UNCHANGED answers

(***************************************************************************)
(* The world: servers come and go, the core dies or its port falls silent. *)
(***************************************************************************)
ServersChange == answers' \in SUBSET Links /\ UNCHANGED <<link, locals, up, fruitless>>

CoreDies == up /\ up' = FALSE /\ UNCHANGED <<link, locals, answers, fruitless>>

Tick == ProbeAnswers \/ ProbeFails \/ Wait \/ RestartServer \/ SwitchServer

Next == Tick \/ ServersChange \/ CoreDies

Spec == Init /\ [][Next]_vars

(***************************************************************************)
(* Safety.                                                                 *)
(***************************************************************************)
(* "Do not tear down and rebuild the core while the machine has no         *)
(* upstream": the server a core is rebuilt for, the old one or the one     *)
(* switched to, answered on this very tick.                                *)
RebuildsForLiveServer == [][(RestartServer \/ SwitchServer) => link' \in answers]_vars

(* "Two restarts in a row, none of which brought the proxy back, are a     *)
(* reason to ask the other servers": there is no third one.                *)
NoThirdRestart == fruitless <= FutileRestarts

(***************************************************************************)
(* Liveness.                                                               *)
(***************************************************************************)
(* The ticker ticks, and a start tried again and again succeeds.           *)
Fairness ==
    /\ WF_vars(Tick /\ ~up)
    /\ SF_vars((RestartServer \/ SwitchServer) /\ up')

FairSpec == Spec /\ Fairness

(* Once every server answers for good, a core that dies comes back.        *)
ReturnsWhenAllAnswer == <>[](answers = Links) => []<>up
=============================================================================
