------------------------------- MODULE Hotkeys -------------------------------
(***************************************************************************)
(* The system-wide hotkeys: a box and two fields of the settings page      *)
(* (renderer.ts), and in Go a thread that registers the pair with Windows  *)
(* and waits for its messages (hotkey.go).  A registration is changed by   *)
(* ending the thread and starting another; calls of the page are           *)
(* goroutines, one at a time behind a mutex that serves them in no order.  *)
(***************************************************************************)
EXTENDS Naturals, Sequences, FiniteSets, Functions

CONSTANTS Keys,      \* combinations that can be registered
          Unusable,  \* one that cannot: without a modifier, say
          MaxCalls   \* bound: calls of SetGlobalHotkeys

HotkeysAssumption == Unusable \notin Keys /\ MaxCalls \in Nat \ {0}

VARIABLES
    box,       \* globalHotkeysCheckbox is ticked
    fields,    \* the two combinations
    calls,     \* where each call has got to
    made,      \* calls so far, their names; a thread has the name of its call
    mu,        \* the call that holds hotkeys.mu, 0: none
    current,   \* the thread hotkeys knows, 0: not running
    quitting,  \* threads that have been asked to stop
    held,      \* the keys each thread has registered
    others,    \* keys other programs have
    mishaps    \* history: of Mishap

pageVars == <<box, fields, made>>
goVars == <<mu, current, quitting, held>>
vars == <<pageVars, calls, goVars, others, mishaps>>

Calls == 1..MaxCalls
Pairs == (Keys \cup {Unusable}) \X (Keys \cup {Unusable})
NoCall == [stage |-> "none"]
Stages == {"waiting", "stopping", "starting", "refused", "done"}
Mishap == {"overlapped",  \* a call was made before the last was answered
           "hung"}        \* a thread did not stop within two seconds

TypeOK ==
    /\ box \in BOOLEAN /\ fields \in Pairs /\ made \in 0..MaxCalls
    /\ calls \in [Calls -> {NoCall} \cup [stage: Stages, enable: BOOLEAN, pair: Pairs]]
    /\ mu \in {0} \cup Calls /\ current \in {0} \cup Calls /\ quitting \in SUBSET Calls
    /\ held \in [Calls -> SUBSET Keys] /\ others \in SUBSET Keys /\ mishaps \in SUBSET Mishap

Pending == {c \in Calls : calls[c].stage \notin {"none", "done"}}
KeysOf(pair) == Range(pair)
Free(pair) ==
    /\ Unusable \notin KeysOf(pair) /\ pair[1] # pair[2]
    /\ KeysOf(pair) \cap (others \cup UNION {held[c] : c \in Calls}) = {}

(* applyGlobalHotkeys up to its await.                                     *)
applyGlobalHotkeys(enable, pair) ==
    /\ made < MaxCalls /\ made' = made + 1
    /\ calls' = [calls EXCEPT ![made'] = [stage |-> "waiting", enable |-> enable, pair |-> pair]]
    /\ mishaps' = IF Pending # {} THEN mishaps \cup {"overlapped"} ELSE mishaps

(* The page starts with what is saved; a box that is ticked is applied.    *)
Init ==
    /\ box \in BOOLEAN /\ fields \in Pairs /\ others \in SUBSET Keys
    /\ made = (IF box THEN 1 ELSE 0)
    /\ calls = [c \in Calls |->
           IF box /\ c = 1 THEN [stage |-> "waiting", enable |-> TRUE, pair |-> fields] ELSE NoCall]
    /\ mu = 0 /\ current = 0 /\ quitting = {} /\ held = [c \in Calls |-> {}] /\ mishaps = {}

TickBox ==
    /\ box' = ~box /\ applyGlobalHotkeys(box', fields) /\ UNCHANGED <<fields, goVars, others>>
(* The fields take keys only while the box is ticked.                      *)
CaptureKeys ==
    /\ box /\ fields' \in Pairs /\ \E i \in {1, 2} : fields'[i] # fields[i] /\ fields'[3 - i] = fields[3 - i]
    /\ applyGlobalHotkeys(box, fields') /\ UNCHANGED <<box, goVars, others>>

(* SetGlobalHotkeys: the thread there is, if any, is told to go first.     *)
At(c, stage) == calls' = [calls EXCEPT ![c].stage = stage]
Lock(c) ==
    /\ calls[c].stage = "waiting" /\ mu = 0 /\ mu' = c
    /\ At(c, "stopping") /\ quitting' = IF current # 0 THEN quitting \cup {current} ELSE quitting
    /\ UNCHANGED <<pageVars, current, held, others, mishaps>>
LoopEnds(c) ==
    /\ c \in quitting /\ held[c] # {} /\ held' = [held EXCEPT ![c] = {}]
    /\ UNCHANGED <<pageVars, calls, mu, current, quitting, others, mishaps>>
(* ... and waited for, at most two seconds.                                *)
(* Mutant: nobody waits.                                                   *)
GoneAtOnce(c) == TRUE
Gone(c) == current # 0 => held[current] = {}
Stopped(c) ==
    /\ calls[c].stage = "stopping"
    /\ \/ Gone(c) /\ UNCHANGED mishaps
       \/ ~Gone(c) /\ mishaps' = mishaps \cup {"hung"}
    /\ current' = 0 /\ At(c, "starting") /\ UNCHANGED <<pageVars, mu, quitting, held, others>>
(* The pair is registered whole or not at all.                             *)
Refused(c) == held
hotkeyLoop(c) ==
    /\ calls[c].stage = "starting" /\ mu' = 0
    /\ \/ ~calls[c].enable /\ At(c, "done") /\ UNCHANGED <<current, held>>
       \/ /\ calls[c].enable /\ Free(calls[c].pair) /\ At(c, "done") /\ current' = c
          /\ held' = [held EXCEPT ![c] = KeysOf(calls[c].pair)]
       \/ /\ calls[c].enable /\ ~Free(calls[c].pair) /\ At(c, "refused")
          /\ held' = Refused(c) /\ UNCHANGED current
    /\ UNCHANGED <<pageVars, quitting, others, mishaps>>
(* The answer: a refusal takes the tick away, and is told, except at the   *)
(* start of the page.                                                      *)
(* Mutant: it is only told.                                                *)
AnsweredOnly(c) ==
    /\ calls[c].stage = "refused" /\ At(c, "done")
    /\ UNCHANGED <<pageVars, goVars, others, mishaps>>
Answered(c) ==
    /\ calls[c].stage = "refused" /\ At(c, "done") /\ box' = FALSE
    /\ UNCHANGED <<fields, made, goVars, others, mishaps>>

OtherPrograms ==
    /\ others' \in SUBSET (Keys \ UNION {held[c] : c \in Calls}) /\ others' # others
    /\ UNCHANGED <<pageVars, calls, goVars, mishaps>>

Next ==
    \/ TickBox \/ CaptureKeys \/ OtherPrograms
    \/ \E c \in Calls : Lock(c) \/ LoopEnds(c) \/ Stopped(c) \/ hotkeyLoop(c) \/ Answered(c)

Spec == Init /\ [][Next]_vars

(* Every key held in the name of the program is held by the one thread it  *)
(* knows, and can be given back; unless one hung.                          *)
KeysAreCurrent ==
    "hung" \notin mishaps => \A c \in Calls : held[c] # {} => c = current
(* When the page has nothing to wait for, the tick, the fields and what is *)
(* registered say the same, if it never asked twice at a time.             *)
BoxIsHonest ==
    Pending = {} /\ mishaps = {} =>
        /\ box = (current # 0)
        /\ box => held[current] = KeysOf(fields)
(* The same however fast the user clicks: a box that is ticked and does    *)
(* not work is the worst outcome there is (renderer.ts).                   *)
TickMeansKeys == Pending = {} /\ "hung" \notin mishaps => (box => current # 0)
=============================================================================
