--------------------------- MODULE PagePartsProofs ---------------------------
(***************************************************************************)
(* Theorems about the parts of the page in PageParts, for any keys and any *)
(* number of calls, sessions, questions, checks, dialogs and moves of the  *)
(* window: at rest the page tells the truth about hotkeys, about the kill  *)
(* switch's rules, about its address in the outside world and about its    *)
(* resolver; dialogs end, and the camera with its own; sessions stay in    *)
(* the history; a window that is seen works; the settings in the files are *)
(* those the page shows; and the theme is one.                             *)
(*                                                                         *)
(* Each property speaks of moments when no answer is on its way; each      *)
(* invariant says what the answers on their way will make of the page.     *)
(***************************************************************************)
EXTENDS PageParts, Naturals, SequenceTheorems, FiniteSetTheorems, TLAPS

(***************************************************************************)
(* Hotkeys.                                                                *)
(***************************************************************************)
(* The mutex belongs to the call that changes the thread.                  *)
LockOK == \A c \in Hot!Calls : requests[c].stage \in {"stopping", "starting"} <=> mu = c

MadeOK == \A c \in Hot!Calls : requests[c].stage = "none" <=> c > made

(* No thread has the keys of an unfinished call, none is known while a new *)
(* one starts, and the one that is known is told to go by a call at work.  *)
ThreadOK ==
    /\ Hot!KeysAreCurrent
    /\ \A c \in Hot!Calls : requests[c].stage = "starting" => current = 0
    /\ \A c \in Hot!Calls : c \in quitting \/ c = current => requests[c].stage = "done"
    /\ current \in quitting => mu # 0

Agrees ==
    /\ tick = (current # 0)
    /\ tick => held[current] = Hot!KeysOf(fields)

(* Of calls that did not overlap only the last can be unanswered, and it   *)
(* asks for what the page shows.                                           *)
AnswerOK == keyMishaps = {} =>
    /\ \A c \in Hot!Calls : c < made => requests[c].stage = "done"
    /\ made = 0 => Agrees
    /\ \A c \in Hot!Calls : c = made =>
         /\ requests[c].stage \in {"waiting", "stopping", "starting"} =>
               requests[c].enable = tick /\ requests[c].pair = fields
         /\ requests[c].stage = "refused" => current = 0
         /\ requests[c].stage = "done" => Agrees

HotInv == Hot!TypeOK /\ LockOK /\ MadeOK /\ ThreadOK /\ AnswerOK

(* Only keys that can be registered are.                                   *)
LEMMA KeysOfPair ==
    ASSUME NEW pair \in Hot!Pairs, Hot!Free(pair) PROVE Hot!KeysOf(pair) \in SUBSET Combinations
BY DEF Hot!Pairs, Hot!Free, Hot!KeysOf, Hot!Range

(* A call keeps what it asks for.                                          *)
LEMMA Moved ==
    ASSUME Hot!TypeOK, NEW c \in Hot!Calls, NEW s \in Hot!Stages, requests[c].stage # "none",
           Hot!At(c, s)
    PROVE  /\ requests' \in [Hot!Calls -> {Hot!NoCall} \cup
                                [stage: Hot!Stages, enable: BOOLEAN, pair: Hot!Pairs]]
           /\ requests'[c].stage = s
           /\ requests'[c].enable = requests[c].enable /\ requests'[c].pair = requests[c].pair
           /\ \A d \in Hot!Calls : d # c => requests'[d] = requests[d]
BY DEF Hot!TypeOK, Hot!At, Hot!NoCall, Hot!Stages

LEMMA StagesAre == Hot!Stages = {"waiting", "stopping", "starting", "refused", "done"}
BY DEF Hot!Stages

LEMMA CallsAre == MaxRequests \in Nat /\ Hot!Calls = 1..MaxRequests /\ 0 \notin Hot!Calls
BY PagePartsAssumption DEF Hot!HotkeysAssumption, Hot!Calls

(* Nothing is pending when all calls but the last are known to be done,    *)
(* and so is the last.                                                     *)
LEMMA Request ==
    ASSUME HotInv, NEW enable \in BOOLEAN, NEW pair \in Hot!Pairs,
           Hot!applyGlobalHotkeys(enable, pair), tick' = enable, fields' = pair,
           UNCHANGED <<mu, current, quitting, held, others>>
    PROVE  HotInv'
<1>0. MaxRequests \in Nat /\ Hot!Calls = 1..MaxRequests
  BY CallsAre
<1>1. made \in 0..MaxRequests /\ made < MaxRequests /\ made' = made + 1 /\ made' \in Hot!Calls
      /\ made \in Nat /\ made' # 0
  BY <1>0 DEF Hot!applyGlobalHotkeys, HotInv, Hot!TypeOK
<1>2. /\ requests' \in [Hot!Calls -> {Hot!NoCall} \cup
                           [stage: Hot!Stages, enable: BOOLEAN, pair: Hot!Pairs]]
      /\ requests'[made'] = [stage |-> "waiting", enable |-> enable, pair |-> pair]
      /\ \A d \in Hot!Calls : d # made' => requests'[d] = requests[d]
  BY <1>1, StagesAre DEF Hot!applyGlobalHotkeys, HotInv, Hot!TypeOK
<1>3. requests[made'].stage = "none"
  BY <1>0, <1>1 DEF HotInv, MadeOK
<1>4. mu # made' /\ made' \notin quitting /\ made' # current
  BY <1>1, <1>3 DEF HotInv, LockOK, ThreadOK
<1>5. keyMishaps \subseteq keyMishaps' /\ keyMishaps' \in SUBSET Hot!Mishap
  BY DEF Hot!applyGlobalHotkeys, HotInv, Hot!TypeOK, Hot!Mishap
<1>6. Hot!TypeOK'
  BY <1>0, <1>1, <1>2, <1>5 DEF HotInv, Hot!TypeOK
<1>7. LockOK' /\ MadeOK'
  BY <1>0, <1>1, <1>2, <1>3, <1>4 DEF HotInv, LockOK, MadeOK
<1>8. ThreadOK'
  BY <1>1, <1>2, <1>4, <1>5 DEF HotInv, ThreadOK, Hot!KeysAreCurrent
<1>9. AnswerOK'
  <2> SUFFICES ASSUME keyMishaps' = {} PROVE
        /\ \A c \in Hot!Calls : c < made' => requests'[c].stage = "done"
        /\ requests'[made'].stage = "waiting"
        /\ requests'[made'].enable = tick' /\ requests'[made'].pair = fields'
    <3>1. \A c \in Hot!Calls : c = made' => requests'[c] = requests'[made']
      OBVIOUS
    <3> QED
      BY <1>1, <3>1 DEF AnswerOK
  <2>1. Hot!Pending = {}
    BY DEF Hot!applyGlobalHotkeys
  <2>2. ASSUME NEW c \in Hot!Calls, c < made' PROVE requests'[c].stage = "done"
    <3>1. requests[c].stage # "none"
      BY <1>0, <1>1, <2>2 DEF HotInv, MadeOK
    <3>2. requests[c].stage = "done"
      BY <2>1, <3>1 DEF Hot!Pending
    <3> QED
      BY <1>1, <1>2, <2>2, <3>2
  <2> QED
    BY <1>2, <2>2
<1> QED
  BY <1>6, <1>7, <1>8, <1>9 DEF HotInv

(* What a call at work can be sure of.                                     *)
LEMMA AtWork ==
    ASSUME HotInv, NEW c \in Hot!Calls, requests[c].stage \in {"stopping", "starting"}
    PROVE  mu = c /\ mu # 0 /\ \A d \in Hot!Calls : d # c => requests[d].stage \notin {"stopping", "starting"}
BY CallsAre DEF HotInv, LockOK

LEMMA LockKeeps == ASSUME HotInv, NEW c \in Hot!Calls, Hot!Lock(c) PROVE HotInv'
<1>1. requests[c].stage = "waiting" /\ mu = 0 /\ mu' = c /\ mu' # 0
  BY CallsAre DEF Hot!Lock
<1>2. /\ requests' \in [Hot!Calls -> {Hot!NoCall} \cup
                           [stage: Hot!Stages, enable: BOOLEAN, pair: Hot!Pairs]]
      /\ requests'[c].stage = "stopping"
      /\ requests'[c].enable = requests[c].enable /\ requests'[c].pair = requests[c].pair
      /\ \A d \in Hot!Calls : d # c => requests'[d] = requests[d]
  <2>1. "stopping" \in Hot!Stages /\ Hot!At(c, "stopping") /\ requests[c].stage # "none"
    BY <1>1, StagesAre DEF Hot!Lock
  <2> QED
    BY <2>1, Moved DEF HotInv
<1>3. /\ UNCHANGED <<tick, fields, made, current, held, others, keyMishaps>>
      /\ quitting' \in {quitting, quitting \cup {current}}
  BY DEF Hot!Lock, Hot!pageVars
<1>4. Hot!TypeOK'
  <2>1. quitting' \subseteq Hot!Calls
    BY <1>3 DEF Hot!Lock, HotInv, Hot!TypeOK
  <2> QED
    BY <1>1, <1>2, <1>3, <2>1 DEF HotInv, Hot!TypeOK
<1>5. LockOK' /\ MadeOK'
  <2>1. \A d \in Hot!Calls : requests[d].stage \notin {"stopping", "starting"}
    BY <1>1, CallsAre DEF HotInv, LockOK
  <2> QED
    BY <1>1, <1>2, <1>3, <2>1 DEF HotInv, LockOK, MadeOK
<1>6. ThreadOK'
  <2>1. c \notin quitting /\ c # current
    BY <1>1 DEF HotInv, ThreadOK
  <2>2. \A d \in Hot!Calls : requests'[d].stage = "starting" => current' = 0
    BY <1>2, <1>3 DEF HotInv, ThreadOK
  <2>3. \A d \in Hot!Calls : d \in quitting' \/ d = current' => requests'[d].stage = "done"
    BY <1>2, <1>3, <2>1 DEF HotInv, ThreadOK
  <2> QED
    BY <1>1, <1>3, <2>2, <2>3 DEF HotInv, ThreadOK, Hot!KeysAreCurrent
<1>7. AnswerOK'
  <2> SUFFICES ASSUME keyMishaps = {}, AnswerOK PROVE AnswerOK'
    BY <1>3 DEF HotInv, AnswerOK
  <2>1. Agrees' <=> Agrees
    BY <1>3 DEF Agrees
  <2>2. ~(c < made)
    BY <1>1 DEF AnswerOK
  <2> QED
    BY <1>1, <1>2, <1>3, <2>1, <2>2 DEF AnswerOK
<1> QED
  BY <1>4, <1>5, <1>6, <1>7 DEF HotInv

(* A thread that ends is no longer the one known to hold keys, or a call   *)
(* that waits for it is at work.                                           *)
LEMMA LoopEndsKeeps == ASSUME HotInv, NEW c \in Hot!Calls, Hot!LoopEnds(c) PROVE HotInv'
<1>1. /\ c \in quitting /\ held' = [held EXCEPT ![c] = {}]
      /\ UNCHANGED <<tick, fields, made, requests, mu, current, quitting, others, keyMishaps>>
  BY DEF Hot!LoopEnds, Hot!pageVars
<1>2. Hot!TypeOK' /\ LockOK' /\ MadeOK'
  BY <1>1 DEF HotInv, Hot!TypeOK, LockOK, MadeOK
<1>3. ThreadOK'
  BY <1>1 DEF HotInv, ThreadOK, Hot!KeysAreCurrent, Hot!TypeOK
<1>4. AnswerOK'
  <2> SUFFICES ASSUME keyMishaps = {}, AnswerOK PROVE AnswerOK'
    BY <1>1 DEF HotInv, AnswerOK
  <2>1. CASE c # current
    <3>1. Agrees' <=> Agrees
      BY <1>1, <2>1 DEF Agrees, HotInv, Hot!TypeOK
    <3> QED
      BY <1>1, <3>1 DEF AnswerOK
  <2>2. CASE c = current
    <3>1. current # 0 /\ mu # 0 /\ mu \in Hot!Calls
      BY <1>1, <2>2, CallsAre DEF HotInv, ThreadOK, Hot!TypeOK
    <3>2. requests[mu].stage \in {"stopping", "starting"}
      BY <3>1 DEF HotInv, LockOK
    <3>3. mu <= made /\ ~(mu < made) /\ made \in 0..MaxRequests
      BY <3>1, <3>2, CallsAre DEF HotInv, MadeOK, AnswerOK, Hot!TypeOK
    <3>4. mu = made /\ made # 0
      BY <3>1, <3>3, CallsAre
    <3> QED
      BY <1>1, <3>1, <3>2, <3>4 DEF AnswerOK
  <2> QED
    BY <2>1, <2>2
<1> QED
  BY <1>2, <1>3, <1>4 DEF HotInv

(* When the wait is over no thread is known, and unless it was cut short   *)
(* none has keys.                                                          *)
LEMMA StoppedKeeps == ASSUME HotInv, NEW c \in Hot!Calls, Hot!Stopped(c) PROVE HotInv'
<1>1. requests[c].stage = "stopping" /\ current' = 0
  BY DEF Hot!Stopped
<1>2. /\ requests' \in [Hot!Calls -> {Hot!NoCall} \cup
                           [stage: Hot!Stages, enable: BOOLEAN, pair: Hot!Pairs]]
      /\ requests'[c].stage = "starting"
      /\ requests'[c].enable = requests[c].enable /\ requests'[c].pair = requests[c].pair
      /\ \A d \in Hot!Calls : d # c => requests'[d] = requests[d]
  <2>1. "starting" \in Hot!Stages /\ Hot!At(c, "starting") /\ requests[c].stage # "none"
    BY <1>1, StagesAre DEF Hot!Stopped
  <2> QED
    BY <2>1, Moved DEF HotInv
<1>3. /\ UNCHANGED <<tick, fields, made, mu, quitting, held, others>>
      /\ keyMishaps \subseteq keyMishaps' /\ keyMishaps' \in SUBSET Hot!Mishap
      /\ keyMishaps' = keyMishaps \/ "hung" \in keyMishaps'
  BY DEF Hot!Stopped, Hot!pageVars, HotInv, Hot!TypeOK, Hot!Mishap
<1>4. Hot!TypeOK'
  BY <1>1, <1>2, <1>3 DEF HotInv, Hot!TypeOK
<1>5. LockOK' /\ MadeOK'
  BY <1>1, <1>2, <1>3 DEF HotInv, LockOK, MadeOK
<1>6. ThreadOK'
  <2>1. Hot!KeysAreCurrent'
    <3> SUFFICES ASSUME "hung" \notin keyMishaps', NEW d \in Hot!Calls PROVE held[d] = {}
      BY <1>3 DEF Hot!KeysAreCurrent
    <3>1. "hung" \notin keyMishaps /\ Hot!Gone(c)
      BY <1>3 DEF Hot!Stopped
    <3>2. held[d] # {} => d = current
      BY <3>1 DEF HotInv, ThreadOK, Hot!KeysAreCurrent
    <3> QED
      BY <3>1, <3>2, CallsAre DEF Hot!Gone
  <2>2. 0 \notin quitting'
    BY <1>4, CallsAre DEF Hot!TypeOK
  <2>3. \A d \in Hot!Calls : d \in quitting' \/ d = current' => requests'[d].stage = "done"
    BY <1>1, <1>2, <1>3, CallsAre DEF HotInv, ThreadOK
  <2> QED
    BY <1>1, <2>1, <2>2, <2>3 DEF ThreadOK
<1>7. AnswerOK'
  <2> SUFFICES ASSUME keyMishaps = {}, keyMishaps' = {}, AnswerOK PROVE AnswerOK'
    BY <1>3 DEF HotInv, AnswerOK
  <2>1. ~(c < made) /\ c <= made /\ made \in Nat /\ c \in Nat /\ c # 0
    BY <1>1, CallsAre DEF AnswerOK, HotInv, MadeOK, Hot!TypeOK
  <2>2. c = made /\ made # 0
    BY <2>1
  <2> QED
    BY <1>1, <1>2, <1>3, <2>2 DEF AnswerOK
<1> QED
  BY <1>4, <1>5, <1>6, <1>7 DEF HotInv

(* The new thread is known and has the keys of its call, or there is none  *)
(* and the call was refused or asked for none.                             *)
LEMMA LoopStarts == ASSUME HotInv, NEW c \in Hot!Calls, Hot!hotkeyLoop(c) PROVE HotInv'
<1>1. requests[c].stage = "starting" /\ mu = c /\ mu' = 0 /\ current = 0 /\ mu # 0
      /\ requests[c].enable \in BOOLEAN /\ requests[c].pair \in Hot!Pairs
  <2>1. requests[c].stage = "starting" /\ mu' = 0
    BY DEF Hot!hotkeyLoop
  <2>2. requests[c].enable \in BOOLEAN /\ requests[c].pair \in Hot!Pairs
    BY <2>1 DEF HotInv, Hot!TypeOK, Hot!NoCall
  <2> QED
    BY <2>1, <2>2, AtWork DEF HotInv, ThreadOK
<1>2. /\ UNCHANGED <<tick, fields, made, quitting, others, keyMishaps>>
      /\ \/ /\ ~requests[c].enable /\ Hot!At(c, "done") /\ current' = 0 /\ held' = held
         \/ /\ requests[c].enable /\ Hot!At(c, "done") /\ current' = c
            /\ held' = [held EXCEPT ![c] = Hot!KeysOf(requests[c].pair)]
            /\ Hot!Free(requests[c].pair)
         \/ /\ requests[c].enable /\ Hot!At(c, "refused") /\ current' = 0 /\ held' = held
  BY <1>1 DEF Hot!hotkeyLoop, Hot!pageVars, Hot!Refused
<1>3. PICK s \in {"done", "refused"} : Hot!At(c, s) /\ (s = "refused" => current' = 0)
  BY <1>1, <1>2
<1>4. /\ requests' \in [Hot!Calls -> {Hot!NoCall} \cup
                           [stage: Hot!Stages, enable: BOOLEAN, pair: Hot!Pairs]]
      /\ requests'[c].stage = s
      /\ requests'[c].enable = requests[c].enable /\ requests'[c].pair = requests[c].pair
      /\ \A d \in Hot!Calls : d # c => requests'[d] = requests[d]
  <2>1. s \in Hot!Stages /\ requests[c].stage # "none"
    BY <1>1, StagesAre
  <2> QED
    BY <1>3, <2>1, Moved DEF HotInv
<1>5. current' = c => s = "done" /\ held'[c] = Hot!KeysOf(requests[c].pair) /\ requests[c].enable
  BY <1>1, <1>2, <1>3 DEF HotInv, Hot!TypeOK
<1>6. Hot!TypeOK'
  <2>1. held' \in [Hot!Calls -> SUBSET Combinations]
    BY <1>1, <1>2, KeysOfPair DEF HotInv, Hot!TypeOK
  <2>2. current' \in {0} \cup Hot!Calls
    BY <1>2
  <2> QED
    BY <1>1, <1>2, <1>4, <2>1, <2>2 DEF HotInv, Hot!TypeOK
<1>7. LockOK' /\ MadeOK'
  <2>1. \A d \in Hot!Calls : requests'[d].stage \notin {"stopping", "starting"}
    BY <1>1, <1>3, <1>4, AtWork
  <2> QED
    BY <1>1, <1>2, <1>4, <2>1, CallsAre DEF HotInv, LockOK, MadeOK
<1>8. ThreadOK'
  <2>1. Hot!KeysAreCurrent'
    BY <1>1, <1>2, CallsAre DEF HotInv, ThreadOK, Hot!KeysAreCurrent, Hot!TypeOK
  <2>2. \A d \in Hot!Calls : requests'[d].stage # "starting"
    BY <1>1, <1>3, <1>4, AtWork
  <2>3. c \notin quitting /\ 0 \notin quitting
    BY <1>1, CallsAre DEF HotInv, ThreadOK, Hot!TypeOK
  <2>4. \A d \in Hot!Calls : d \in quitting' \/ d = current' => requests'[d].stage = "done"
    BY <1>1, <1>2, <1>3, <1>4, <1>5, <2>3, CallsAre DEF HotInv, ThreadOK
  <2> QED
    BY <1>2, <2>1, <2>2, <2>3, <2>4 DEF ThreadOK
<1>9. AnswerOK'
  <2> SUFFICES ASSUME keyMishaps = {}, AnswerOK PROVE AnswerOK'
    BY <1>2 DEF HotInv, AnswerOK
  <2>1. ~(c < made) /\ c <= made /\ made \in Nat /\ c \in Nat /\ c # 0
    BY <1>1, CallsAre DEF AnswerOK, HotInv, MadeOK, Hot!TypeOK
  <2>2. c = made /\ made # 0
    BY <2>1
  <2>3. requests[c].enable = tick /\ requests[c].pair = fields
    BY <1>1, <2>2 DEF AnswerOK
  <2>4. s = "done" => Agrees'
    <3> SUFFICES ASSUME s = "done" PROVE Agrees'
      OBVIOUS
    <3>1. tick \in BOOLEAN /\ tick' = tick /\ fields' = fields
      BY <1>2 DEF HotInv, Hot!TypeOK
    <3>2. CASE current' = c
      <4>1. tick /\ held'[c] = Hot!KeysOf(fields)
        BY <1>5, <2>3, <3>2
      <4>2. Hot!KeysOf(fields)' = Hot!KeysOf(fields)
        BY <3>1 DEF Hot!KeysOf, Hot!Range
      <4> QED
        BY <2>1, <3>1, <3>2, <4>1, <4>2 DEF Agrees
    <3>3. CASE current' # c
      <4>1. requests'[c].stage # "refused"
        BY <1>4
      <4>2. ~Hot!At(c, "refused")
        BY <1>1, <4>1, StagesAre, Moved DEF HotInv
      <4>3. ~requests[c].enable /\ current' = 0
        BY <1>2, <3>3, <4>2
      <4>4. ~tick
        BY <2>3, <4>3
      <4>5. tick' = FALSE /\ (current' # 0) = FALSE
        BY <3>1, <4>3, <4>4
      <4> QED
        BY <4>5 DEF Agrees
    <3> QED
      BY <3>2, <3>3
  <2>5. made' = made /\ \A d \in Hot!Calls : d < made => requests'[d] = requests[d]
    BY <1>2, <1>4, <2>2, CallsAre
  <2> QED
    BY <1>3, <1>4, <2>2, <2>4, <2>5 DEF AnswerOK
<1> QED
  BY <1>6, <1>7, <1>8, <1>9 DEF HotInv

(* A refusal takes the tick away, and no thread runs.                      *)
LEMMA AnsweredKeeps == ASSUME HotInv, NEW c \in Hot!Calls, Hot!Answered(c) PROVE HotInv'
<1>1. requests[c].stage = "refused" /\ tick' = FALSE
      /\ UNCHANGED <<fields, made, mu, current, quitting, held, others, keyMishaps>>
  BY DEF Hot!Answered, Hot!goVars
<1>2. /\ requests' \in [Hot!Calls -> {Hot!NoCall} \cup
                           [stage: Hot!Stages, enable: BOOLEAN, pair: Hot!Pairs]]
      /\ requests'[c].stage = "done"
      /\ \A d \in Hot!Calls : d # c => requests'[d] = requests[d]
  <2>1. "done" \in Hot!Stages /\ Hot!At(c, "done") /\ requests[c].stage # "none"
    BY <1>1, StagesAre DEF Hot!Answered
  <2> QED
    BY <2>1, Moved DEF HotInv
<1>3. Hot!TypeOK'
  BY <1>1, <1>2 DEF HotInv, Hot!TypeOK
<1>4. LockOK' /\ MadeOK' /\ ThreadOK'
  BY <1>1, <1>2 DEF HotInv, LockOK, MadeOK, ThreadOK, Hot!KeysAreCurrent
<1>5. AnswerOK'
  <2> SUFFICES ASSUME keyMishaps = {}, AnswerOK PROVE AnswerOK'
    BY <1>1 DEF HotInv, AnswerOK
  <2>1. ~(c < made) /\ c <= made /\ made \in Nat /\ c \in Nat /\ c # 0
    BY <1>1, CallsAre DEF AnswerOK, HotInv, MadeOK, Hot!TypeOK
  <2>2. c = made /\ made # 0
    BY <2>1
  <2>3. current = 0
    BY <1>1, <2>2 DEF AnswerOK
  <2> QED
    BY <1>1, <1>2, <2>2, <2>3 DEF AnswerOK, Agrees
<1> QED
  BY <1>3, <1>4, <1>5 DEF HotInv

LEMMA OthersKeep == ASSUME HotInv, Hot!OtherPrograms \/ UNCHANGED Hot!vars PROVE HotInv'
<1>1. others' \in SUBSET Combinations
  BY DEF Hot!OtherPrograms, Hot!vars, HotInv, Hot!TypeOK
<1>2. UNCHANGED <<tick, fields, requests, made, mu, current, quitting, held, keyMishaps>>
  BY DEF Hot!OtherPrograms, Hot!vars, Hot!pageVars, Hot!goVars
<1> QED
  BY <1>1, <1>2 DEF HotInv, Hot!TypeOK, LockOK, MadeOK, ThreadOK, Hot!KeysAreCurrent, AnswerOK, Agrees

(* However the clicks, the calls and the threads cross: keys that are held *)
(* can be given back, and the last call asks for what the page shows.      *)
THEOREM HotCorrect == Hot!Spec => []HotInv
<1>1. Hot!Init => HotInv
  <2> SUFFICES ASSUME Hot!Init PROVE HotInv
    OBVIOUS
  <2>0. MaxRequests \in Nat \ {0} /\ 1 \in Hot!Calls
    BY PagePartsAssumption DEF Hot!HotkeysAssumption, Hot!Calls
  <2>1. /\ tick \in BOOLEAN /\ fields \in Hot!Pairs /\ others \in SUBSET Combinations
        /\ mu = 0 /\ current = 0 /\ quitting = {} /\ keyMishaps = {}
        /\ held = [c \in Hot!Calls |-> {}]
    BY DEF Hot!Init
  <2>2. CASE tick
    <3>1. /\ made = 1 /\ requests[1] = [stage |-> "waiting", enable |-> TRUE, pair |-> fields]
          /\ \A c \in Hot!Calls : c # 1 => requests[c] = Hot!NoCall
          /\ requests \in [Hot!Calls -> {Hot!NoCall} \cup
                               [stage: Hot!Stages, enable: BOOLEAN, pair: Hot!Pairs]]
      BY <2>0, <2>1, <2>2, StagesAre DEF Hot!Init
    <3>2. requests[1].stage = "waiting" /\ requests[1].enable = TRUE /\ requests[1].pair = fields
      BY <3>1
    <3>3. \A c \in Hot!Calls : c # 1 => requests[c].stage = "none" /\ c > 1
      BY <3>1, CallsAre DEF Hot!NoCall
    <3>4. Hot!TypeOK
      BY <2>0, <2>1, <3>1 DEF Hot!TypeOK
    <3>5. LockOK /\ MadeOK /\ ThreadOK
      BY <2>1, <3>1, <3>2, <3>3, CallsAre DEF LockOK, MadeOK, ThreadOK, Hot!KeysAreCurrent
    <3>6. AnswerOK
      <4>1. tick = TRUE /\ made # 0 /\ \A c \in Hot!Calls : c >= made
        BY <2>1, <2>2, <3>1, CallsAre
      <4>2. requests[made].stage = "waiting" /\ requests[made].enable = tick
            /\ requests[made].pair = fields
        BY <3>1, <3>2, <4>1
      <4>3. \A c \in Hot!Calls : ~(c < made)
        BY <3>1, <4>1, CallsAre
      <4> QED
        BY <4>1, <4>2, <4>3 DEF AnswerOK
    <3> QED
      BY <3>4, <3>5, <3>6 DEF HotInv
  <2>3. CASE ~tick
    <3>1. /\ made = 0 /\ \A c \in Hot!Calls : requests[c] = Hot!NoCall
          /\ requests \in [Hot!Calls -> {Hot!NoCall}]
      BY <2>1, <2>3 DEF Hot!Init
    <3>2. \A c \in Hot!Calls : requests[c].stage = "none" /\ c > 0
      BY <3>1, CallsAre DEF Hot!NoCall
    <3>3. Hot!TypeOK
      BY <2>0, <2>1, <3>1 DEF Hot!TypeOK
    <3>4. LockOK /\ MadeOK /\ ThreadOK /\ AnswerOK
      BY <2>1, <2>3, <3>1, <3>2, CallsAre
      DEF LockOK, MadeOK, ThreadOK, Hot!KeysAreCurrent, AnswerOK, Agrees
    <3> QED
      BY <3>3, <3>4 DEF HotInv
  <2> QED
    BY <2>1, <2>2, <2>3
<1>2. HotInv /\ [Hot!Next]_(Hot!vars) => HotInv'
  <2> SUFFICES ASSUME HotInv, [Hot!Next]_(Hot!vars) PROVE HotInv'
    OBVIOUS
  <2>1. CASE Hot!TickBox
    <3>1. tick' \in BOOLEAN /\ fields' = fields /\ fields \in Hot!Pairs
      BY <2>1 DEF Hot!TickBox, HotInv, Hot!TypeOK
    <3> QED
      BY <2>1, <3>1, Request DEF Hot!TickBox, Hot!goVars
  <2>2. CASE Hot!CaptureKeys
    <3>1. tick' = tick /\ tick \in BOOLEAN /\ fields' \in Hot!Pairs
      BY <2>2 DEF Hot!CaptureKeys, HotInv, Hot!TypeOK
    <3> QED
      BY <2>2, <3>1, Request DEF Hot!CaptureKeys, Hot!goVars
  <2>3. CASE Hot!OtherPrograms \/ UNCHANGED Hot!vars
    BY <2>3, OthersKeep
  <2>4. CASE \E c \in Hot!Calls : \/ Hot!Lock(c) \/ Hot!LoopEnds(c) \/ Hot!Stopped(c)
                                  \/ Hot!hotkeyLoop(c) \/ Hot!Answered(c)
    BY <2>4, LockKeeps, LoopEndsKeeps, StoppedKeeps, LoopStarts, AnsweredKeeps
  <2> QED
    BY <2>1, <2>2, <2>3, <2>4 DEF Hot!Next
<1> QED
  BY <1>1, <1>2, PTL DEF Hot!Spec

(* The program holds no keys that it could not give back, unless a thread  *)
(* hung; and the tick, the fields and what is registered say the same when *)
(* all is answered, unless calls overlapped.                               *)
THEOREM KeysCorrect == Hot!Spec => []KeysAreHonest
<1>1. HotInv => KeysAreHonest
  <2> SUFFICES ASSUME HotInv PROVE Hot!BoxIsHonest
    BY DEF HotInv, ThreadOK, KeysAreHonest
  <2> SUFFICES ASSUME Hot!Pending = {}, keyMishaps = {} PROVE Agrees
    BY DEF Hot!BoxIsHonest, Agrees
  <2>1. CASE made = 0
    BY <2>1 DEF HotInv, AnswerOK
  <2>2. CASE made # 0
    <3>1. made \in Hot!Calls /\ requests[made].stage # "none"
      BY <2>2, CallsAre DEF HotInv, Hot!TypeOK, MadeOK
    <3>2. requests[made].stage = "done"
      BY <3>1 DEF Hot!Pending
    <3> QED
      BY <3>1, <3>2 DEF HotInv, AnswerOK
  <2> QED
    BY <2>1, <2>2
<1> QED
  BY <1>1, HotCorrect, PTL

(***************************************************************************)
(* The badges of the kill switch.                                          *)
(***************************************************************************)
Asked(kind) == \E q \in questions : q.of = kind
(* An event is on its way, or will be, at which the page asks again.       *)
Told == event # "none" \/ stage \in {"armed", "stopping"}

StageOK ==
    /\ stuck => rules
    /\ stage \in {"starting", "armed"} => appState = "connecting" /\ sessions < MaxSessions
    /\ event = "started" => stage = "running" /\ appState = "connecting"

(* Until readings cross or a start is refused, what is drawn is so, or     *)
(* will be drawn again.                                                    *)
PillOK  == mishaps = {} => Told \/ Asked("pill") \/ pill = Bdg!PillOf(rules)
BadgeOK == mishaps = {} => Told \/ Asked("badge") \/ (badge = rules /\ killSwitchArmed = rules)

BdgInv == Bdg!TypeOK /\ StageOK /\ PillOK /\ BadgeOK

(* The library's theorems are about Cardinality of FiniteSets.             *)
LEMMA SameCard == ASSUME NEW S PROVE Bdg!Cardinality(S) = Cardinality(S)
BY Zenon DEF Bdg!Cardinality, Cardinality

LEMMA KindsAre == Bdg!Cardinality(Bdg!Both) = 2 /\ Bdg!Cardinality({"pill"}) = 1
<1>1. Cardinality({"pill"}) = 1 /\ IsFiniteSet({"pill"})
  BY FS_Singleton
<1>2. Cardinality({"pill"} \cup {"badge"}) = 2
  BY <1>1, FS_AddElement
<1>3. {"pill"} \cup {"badge"} = Bdg!Both
  BY DEF Bdg!Both
<1> QED
  BY <1>1, <1>2, <1>3, SameCard

(* Who asks will be answered about each kind.                              *)
LEMMA AskIs ==
    ASSUME Bdg!TypeOK, NEW kinds \in {Bdg!Both, {"pill"}}, Bdg!Ask(kinds)
    PROVE  /\ asked' \in 0..MaxQuestions
           /\ questions \subseteq questions' /\ questions' \subseteq Bdg!Questions
           /\ \A k \in kinds : Asked(k)'
<1>1. MaxQuestions \in Nat /\ asked \in 0..MaxQuestions
  BY PagePartsAssumption DEF Bdg!StatusBadgesAssumption, Bdg!TypeOK
<1>2. PICK n \in {1, 2} : Bdg!Cardinality(kinds) = n
  BY KindsAre
<1>3. asked' = asked + n /\ asked + n <= MaxQuestions
  BY <1>2 DEF Bdg!Ask
<1>4. asked' \in 0..MaxQuestions /\ asked + 1 \in 1..MaxQuestions /\ asked' \in 1..MaxQuestions
  BY <1>1, <1>3
<1>5. ASSUME NEW k \in kinds
      PROVE  [id |-> IF k = "pill" THEN asked + 1 ELSE asked', of |-> k, reading |-> "none"]
               \in Bdg!Questions
  BY <1>4 DEF Bdg!Questions, Bdg!Both
<1>6. questions' = questions \cup
         {[id |-> IF k = "pill" THEN asked + 1 ELSE asked', of |-> k, reading |-> "none"] : k \in kinds}
  BY DEF Bdg!Ask
<1>7. questions' \subseteq Bdg!Questions
  BY <1>5, <1>6 DEF Bdg!TypeOK
<1>8. ASSUME NEW k \in kinds PROVE Asked(k)'
  <2>1. [id |-> IF k = "pill" THEN asked + 1 ELSE asked', of |-> k, reading |-> "none"] \in questions'
    BY <1>6
  <2> QED
    BY <2>1 DEF Asked
<1> QED
  BY <1>4, <1>6, <1>7, <1>8

(* A step of the session after which the page will be told.                *)
LEMMA SessionSteps ==
    ASSUME BdgInv, \/ Bdg!restartCore \/ Bdg!disconnect \/ Bdg!enableKillSwitch
                   \/ Bdg!CoreIsUp \/ Bdg!StopXray
    PROVE  BdgInv'
<1>0. MaxSessions \in Nat /\ sessions \in 0..MaxSessions
  BY PagePartsAssumption DEF Bdg!StatusBadgesAssumption, BdgInv, Bdg!TypeOK
<1>1. UNCHANGED <<stuck, box, badge, pill, killSwitchArmed, killSwitchStuckReported, questions, asked,
                  mishaps>>
  BY DEF Bdg!restartCore, Bdg!disconnect, Bdg!enableKillSwitch, Bdg!CoreIsUp, Bdg!StopXray,
         Bdg!badges, Bdg!questioning
<1>2. Told'
  BY DEF Bdg!restartCore, Bdg!disconnect, Bdg!enableKillSwitch, Bdg!CoreIsUp, Bdg!StopXray, Told
<1>3. StageOK'
  BY DEF Bdg!restartCore, Bdg!disconnect, Bdg!enableKillSwitch, Bdg!CoreIsUp, Bdg!StopXray,
         BdgInv, Bdg!TypeOK, StageOK
<1>4. Bdg!TypeOK'
  <2>1. /\ appState' \in {"off", "connecting", "on"} /\ rules' \in BOOLEAN
        /\ stage' \in {"idle", "starting", "armed", "running", "stopping"}
        /\ event' \in {"none", "started", "stopped"}
    BY DEF Bdg!restartCore, Bdg!disconnect, Bdg!enableKillSwitch, Bdg!CoreIsUp, Bdg!StopXray,
           BdgInv, Bdg!TypeOK
  <2>2. sessions' \in 0..MaxSessions
    <3>1. CASE Bdg!CoreIsUp
      BY <1>0, <3>1 DEF Bdg!CoreIsUp, BdgInv, StageOK
    <3>2. CASE ~Bdg!CoreIsUp
      BY <1>0, <3>2 DEF Bdg!restartCore, Bdg!disconnect, Bdg!enableKillSwitch, Bdg!StopXray
    <3> QED
      BY <3>1, <3>2
  <2> QED
    BY <1>1, <2>1, <2>2 DEF BdgInv, Bdg!TypeOK
<1> QED
  BY <1>2, <1>3, <1>4 DEF BdgInv, PillOK, BadgeOK

(* A step of the session that the page is not told of changes nothing that *)
(* is drawn, or rules that a refused start takes away.                     *)
LEMMA QuietSteps == ASSUME BdgInv, Bdg!startConnection \/ Bdg!Refused PROVE BdgInv'
<1>1. UNCHANGED <<sessions, stuck, box, event, badge, pill, killSwitchArmed, killSwitchStuckReported,
                  questions, asked>>
  BY DEF Bdg!startConnection, Bdg!Refused, Bdg!badges, Bdg!questioning
<1>2. /\ appState' \in {"off", "connecting"} /\ rules' \in BOOLEAN /\ mishaps' \in SUBSET Bdg!Mishap
      /\ stage' \in {"starting", "idle"} /\ event = "none" /\ stage \in {"idle", "starting"}
  BY DEF Bdg!startConnection, Bdg!Refused, BdgInv, Bdg!TypeOK, Bdg!Mishap
<1>3. StageOK'
  BY <1>1 DEF Bdg!startConnection, Bdg!Refused, BdgInv, Bdg!TypeOK, StageOK
<1>4. Bdg!TypeOK'
  BY <1>1, <1>2 DEF BdgInv, Bdg!TypeOK
<1>5. ASSUME mishaps' = {} PROVE rules' = rules /\ mishaps = {}
  BY <1>5 DEF Bdg!startConnection, Bdg!Refused
<1>6. appState # "on"
  BY DEF Bdg!startConnection, Bdg!Refused, BdgInv, StageOK
<1>7. ~Told /\ \A kind : Asked(kind)' <=> Asked(kind)
  BY <1>1, <1>2 DEF Told, Asked
<1>8. PillOK'
  <2> SUFFICES ASSUME mishaps' = {} PROVE Asked("pill")' \/ (pill = Bdg!PillOf(rules))'
    BY DEF PillOK
  <2>1. Asked("pill") \/ pill = Bdg!PillOf(rules)
    BY <1>5, <1>7 DEF BdgInv, PillOK
  <2>2. Bdg!PillOf(rules)' = Bdg!PillOf(rules)
    BY <1>1, <1>2, <1>6 DEF Bdg!PillOf
  <2> QED
    BY <1>1, <1>7, <2>1, <2>2
<1>9. BadgeOK'
  BY <1>1, <1>5, <1>7 DEF BdgInv, BadgeOK
<1> QED
  BY <1>3, <1>4, <1>8, <1>9 DEF BdgInv

(* At an event the page asks of everything, and a box that is turned of    *)
(* the pill at least.                                                      *)
LEMMA AskingSteps ==
    ASSUME BdgInv, Bdg!onStarted \/ Bdg!onStopped \/ Bdg!ToggleBox(Bdg!Both) \/ Bdg!ToggleBox({"pill"})
    PROVE  BdgInv'
<1>1. PICK kinds \in {Bdg!Both, {"pill"}} :
        /\ Bdg!Ask(kinds)
        /\ kinds # Bdg!Both => UNCHANGED event
  BY DEF Bdg!onStarted, Bdg!onStopped, Bdg!AskOfStart, Bdg!ToggleBox
<1>2. UNCHANGED <<sessions, stage, rules, stuck, badge, pill, killSwitchArmed, killSwitchStuckReported,
                  mishaps>>
  BY DEF Bdg!onStarted, Bdg!onStopped, Bdg!AskOfStart, Bdg!ToggleBox, Bdg!badges
<1>3. /\ asked' \in 0..MaxQuestions
      /\ questions \subseteq questions' /\ questions' \subseteq Bdg!Questions
      /\ \A k \in kinds : Asked(k)'
  BY <1>1, AskIs DEF BdgInv
<1>4. /\ appState' \in {"off", "connecting", "on"} /\ box' \in BOOLEAN
      /\ event' \in {"none", "started", "stopped"}
  BY DEF Bdg!onStarted, Bdg!onStopped, Bdg!ToggleBox, BdgInv, Bdg!TypeOK
<1>5. Bdg!TypeOK'
  BY <1>2, <1>3, <1>4 DEF BdgInv, Bdg!TypeOK
<1>6. StageOK'
  BY <1>2 DEF Bdg!onStarted, Bdg!onStopped, Bdg!ToggleBox, BdgInv, StageOK
<1>7. Asked("pill")'
  BY <1>3 DEF Bdg!Both
<1>8. Asked("badge")' \/ (UNCHANGED event /\ (Asked("badge") => Asked("badge")'))
  BY <1>1, <1>3 DEF Bdg!Both, Asked
<1>9. BadgeOK'
  BY <1>2, <1>8 DEF BdgInv, BadgeOK, Told
<1> QED
  BY <1>5, <1>6, <1>7, <1>9 DEF BdgInv, PillOK

(* An answer taken is an answer still to be drawn.                         *)
LEMMA ReadingKeeps ==
    ASSUME BdgInv, NEW q \in questions, Bdg!GetKillSwitchState(q) PROVE BdgInv'
<1>1. PICK r \in {"up", "down"} :
        questions' = (questions \ {q}) \cup {[q EXCEPT !.reading = r]}
  BY DEF Bdg!GetKillSwitchState
<1>2. UNCHANGED <<appState, sessions, stage, rules, stuck, box, event, asked, pill, badge,
                  killSwitchArmed, killSwitchStuckReported, mishaps>>
  BY DEF Bdg!GetKillSwitchState, Bdg!session, Bdg!badges
<1>3. q \in Bdg!Questions /\ [q EXCEPT !.reading = r] \in Bdg!Questions
      /\ [q EXCEPT !.reading = r].of = q.of
  BY DEF BdgInv, Bdg!TypeOK, Bdg!Questions
<1>4. Bdg!TypeOK'
  BY <1>1, <1>2, <1>3 DEF BdgInv, Bdg!TypeOK
<1>5. ASSUME NEW kind, Asked(kind) PROVE Asked(kind)'
  BY <1>1, <1>3, <1>5 DEF Asked
<1>6. Bdg!PillOf(rules)' = Bdg!PillOf(rules)
  BY <1>2 DEF Bdg!PillOf
<1> QED
  BY <1>2, <1>4, <1>5, <1>6 DEF BdgInv, StageOK, PillOK, BadgeOK, Told

(* The last answer of its kind is true, or will be asked for again.        *)
LEMMA LastIsTrue ==
    ASSUME BdgInv, NEW q \in questions, Bdg!Crossed(q), mishaps' = {},
           q.reading # "none", ~Told, \A p \in questions \ {q} : p.of # q.of
    PROVE  (q.reading = "up") = rules /\ mishaps = {}
<1>1. q \in Bdg!Questions /\ q.id \in Nat
  BY DEF BdgInv, Bdg!TypeOK, Bdg!Questions
<1>2. \A p \in questions : p.of = q.of => p.id <= q.id
  BY <1>1
<1> QED
  BY <1>2 DEF Bdg!Crossed, Told, BdgInv, Bdg!TypeOK

LEMMA DrawingKeeps ==
    ASSUME BdgInv, NEW q \in questions,
           Bdg!refreshKillSwitchStatus(q) \/ Bdg!refreshKillSwitchBadge(q)
    PROVE  BdgInv'
<1>1. /\ questions' = questions \ {q} /\ q.reading # "none" /\ Bdg!Crossed(q)
      /\ UNCHANGED <<appState, sessions, stage, rules, stuck, box, event, asked>>
      /\ q \in Bdg!Questions
  BY DEF Bdg!refreshKillSwitchStatus, Bdg!refreshKillSwitchBadge, Bdg!session, BdgInv, Bdg!TypeOK
<1>2. mishaps' \in SUBSET Bdg!Mishap /\ (mishaps' = {} => mishaps = {})
  BY <1>1 DEF Bdg!Crossed, BdgInv, Bdg!TypeOK, Bdg!Mishap
<1>3. StageOK' /\ (Told' <=> Told)
  BY <1>1 DEF BdgInv, StageOK, Told
<1>4. CASE Bdg!refreshKillSwitchStatus(q)
  <2>1. /\ q.of = "pill" /\ pill' = Bdg!PillOf(q.reading = "up")
        /\ UNCHANGED <<badge, killSwitchArmed, killSwitchStuckReported>>
    BY <1>4 DEF Bdg!refreshKillSwitchStatus
  <2>2. pill' \in {"stuck", "off", "active", "pending", "standby"}
    BY <2>1 DEF Bdg!PillOf
  <2>3. Bdg!TypeOK'
    BY <1>1, <1>2, <2>1, <2>2 DEF BdgInv, Bdg!TypeOK
  <2>4. BadgeOK'
    <3>1. Asked("badge") => Asked("badge")'
      BY <1>1, <2>1 DEF Asked
    <3> QED
      BY <1>1, <1>2, <1>3, <2>1, <3>1 DEF BdgInv, BadgeOK
  <2>5. PillOK'
    <3> SUFFICES ASSUME mishaps' = {}, ~Told, ~Asked("pill")' PROVE pill' = Bdg!PillOf(rules)'
      BY <1>3 DEF PillOK
    <3>1. \A p \in questions \ {q} : p.of # q.of
      BY <1>1, <2>1 DEF Asked
    <3>2. (q.reading = "up") = rules
      BY <1>1, <3>1, LastIsTrue
    <3> QED
      BY <1>1, <2>1, <3>2 DEF Bdg!PillOf, BdgInv, Bdg!TypeOK
  <2> QED
    BY <1>3, <2>3, <2>4, <2>5 DEF BdgInv
<1>5. CASE Bdg!refreshKillSwitchBadge(q)
  <2>1. /\ q.of = "badge" /\ killSwitchArmed' = (q.reading = "up")
        /\ badge' = (q.reading = "up" \/ (stuck /\ ~killSwitchStuckReported))
        /\ killSwitchStuckReported' = (killSwitchStuckReported \/ stuck) /\ UNCHANGED pill
    BY <1>5 DEF Bdg!refreshKillSwitchBadge
  <2>2. Bdg!TypeOK'
    BY <1>1, <1>2, <2>1 DEF BdgInv, Bdg!TypeOK
  <2>3. PillOK'
    <3>1. Asked("pill") => Asked("pill")'
      BY <1>1, <2>1 DEF Asked
    <3>2. Bdg!PillOf(rules)' = Bdg!PillOf(rules)
      BY <1>1 DEF Bdg!PillOf
    <3> QED
      BY <1>1, <1>2, <1>3, <2>1, <3>1, <3>2 DEF BdgInv, PillOK
  <2>4. BadgeOK'
    <3> SUFFICES ASSUME mishaps' = {}, ~Told, ~Asked("badge")'
                 PROVE  badge' = rules' /\ killSwitchArmed' = rules'
      BY <1>3 DEF BadgeOK
    <3>1. \A p \in questions \ {q} : p.of # q.of
      BY <1>1, <2>1 DEF Asked
    <3>2. (q.reading = "up") = rules
      BY <1>1, <3>1, LastIsTrue
    <3> QED
      BY <1>1, <2>1, <3>2 DEF BdgInv, StageOK, Bdg!TypeOK
  <2> QED
    BY <1>3, <2>2, <2>3, <2>4 DEF BdgInv
<1> QED
  BY <1>4, <1>5

(* Whatever crosses: what is drawn of the rules is so, or will be drawn    *)
(* again.                                                                  *)
THEOREM BadgeInvCorrect == Bdg!Spec => []BdgInv
<1>1. Bdg!Init => BdgInv
  <2> SUFFICES ASSUME Bdg!Init PROVE BdgInv
    OBVIOUS
  <2>0. MaxSessions \in Nat /\ MaxQuestions \in Nat \ {0, 1}
    BY PagePartsAssumption DEF Bdg!StatusBadgesAssumption
  <2>1. questions = {[id |-> 1, of |-> "pill", reading |-> "none"],
                     [id |-> 2, of |-> "badge", reading |-> "none"]} /\ asked = 2
    BY DEF Bdg!Init
  <2>2. questions \subseteq Bdg!Questions /\ asked \in 0..MaxQuestions
    <3>1. 1 \in 1..MaxQuestions /\ 2 \in 1..MaxQuestions /\ 2 \in 0..MaxQuestions
      BY <2>0
    <3> QED
      BY <2>1, <3>1 DEF Bdg!Questions
  <2>3. Bdg!TypeOK
    <3>1. 0 \in 0..MaxSessions /\ stuck \in BOOLEAN /\ rules \in BOOLEAN
      BY <2>0 DEF Bdg!Init
    <3> QED
      BY <2>2, <3>1 DEF Bdg!Init, Bdg!TypeOK, Bdg!Mishap
  <2>4. Asked("pill") /\ Asked("badge")
    BY <2>1 DEF Asked
  <2> QED
    BY <2>3, <2>4 DEF Bdg!Init, BdgInv, StageOK, PillOK, BadgeOK
<1>2. BdgInv /\ [Bdg!Next]_(Bdg!vars) => BdgInv'
  <2> SUFFICES ASSUME BdgInv, [Bdg!Next]_(Bdg!vars) PROVE BdgInv'
    OBVIOUS
  <2>1. CASE UNCHANGED Bdg!vars
    <3>1. UNCHANGED <<appState, sessions, stage, rules, stuck, box, event, questions, asked, pill, badge,
                      killSwitchArmed, killSwitchStuckReported, mishaps>>
      BY <2>1 DEF Bdg!vars, Bdg!session, Bdg!badges, Bdg!questioning
    <3> QED
      BY <3>1 DEF BdgInv, Bdg!TypeOK, StageOK, PillOK, BadgeOK, Told, Asked, Bdg!PillOf
  <2> QED
    BY <2>1, SessionSteps, QuietSteps, AskingSteps, ReadingKeeps, DrawingKeeps DEF Bdg!Next
<1> QED
  BY <1>1, <1>2, PTL DEF Bdg!Spec

(***************************************************************************)
(* The outside address.                                                    *)
(***************************************************************************)
(* A search of this session asks through its own core: none is left when a *)
(* session begins, for it is the first of its name.                        *)
SearchOK ==
    /\ adrState = "on" => running
    /\ adrState # "off" => adrSessions # 0
    /\ \A f \in fetches :
         /\ f.session <= adrSessions
         /\ adrState = "connecting" => f.session # adrSessions
         /\ adrState = "on" /\ f.at = "asking" /\ f.session = adrSessions => f.route = adrSessions

AdrInv == Adr!TypeOK /\ SearchOK /\ Adr!AddressIsCurrent

Fetches == [session: Adr!Sessions, left: 1..RetryCount, at: {"delay", "pause", "asking"},
            route: 0..MaxSearches]

LEMMA AdrConstants ==
    MaxSearches \in Nat /\ RetryCount \in Nat \ {0} /\ Adr!Sessions = 1..MaxSearches /\ Adr!Provider = 0
BY PagePartsAssumption DEF Adr!OutsideAddressAssumption, Adr!Sessions, Adr!Provider

LEMMA SaysAre ==
    /\ \A w \in {"none", "wait", "error"} : <<w, Adr!Provider>> \in Adr!Says
    /\ \A n \in 0..MaxSearches : <<"address", n>> \in Adr!Says
BY DEF Adr!Says

(* A session that begins has a name no search has.                         *)
LEMMA AdrBegins == ASSUME AdrInv, Adr!startConnection \/ Adr!restartCore PROVE AdrInv'
<1>1. /\ adrSessions \in 0..MaxSearches /\ adrSessions < MaxSearches /\ adrSessions' = adrSessions + 1
      /\ adrState' = "connecting" /\ currentIp' = <<"wait", Adr!Provider>> /\ fetches' = fetches
      /\ late' = late /\ running' \in BOOLEAN
  BY DEF Adr!startConnection, Adr!restartCore, Adr!updateAppInterface, Adr!IpIn, AdrInv, Adr!TypeOK
<1>2. adrSessions \in Nat /\ adrSessions' \in 0..MaxSearches /\ adrSessions' # 0
  BY <1>1, AdrConstants
<1>3. Adr!TypeOK'
  BY <1>1, <1>2, SaysAre DEF AdrInv, Adr!TypeOK
<1>4. \A f \in fetches : f.session \in Nat /\ f.session <= adrSessions
  BY AdrConstants DEF AdrInv, Adr!TypeOK, SearchOK
<1>5. SearchOK'
  BY <1>1, <1>2, <1>4 DEF SearchOK
<1>6. Adr!AddressIsCurrent'
  BY <1>1 DEF Adr!AddressIsCurrent
<1> QED
  BY <1>3, <1>5, <1>6 DEF AdrInv

(* The search of a session begins with it.                                 *)
LEMMA AdrStarted == ASSUME AdrInv, Adr!onStarted PROVE AdrInv'
<1>1. /\ adrState = "connecting" /\ adrState' = "on" /\ running' = TRUE /\ currentIp' = currentIp
      /\ UNCHANGED <<adrSessions, late>>
      /\ fetches' = fetches \cup {[session |-> adrSessions, left |-> RetryCount, at |-> "delay",
                                  route |-> Adr!Provider]}
  BY DEF Adr!onStarted, Adr!updateAppInterface, Adr!IpIn
<1>2. adrSessions \in Adr!Sessions /\ adrSessions \in Nat
  BY <1>1, AdrConstants DEF AdrInv, Adr!TypeOK, SearchOK
<1>3. PICK g : g = [session |-> adrSessions, left |-> RetryCount, at |-> "delay", route |-> Adr!Provider]
  OBVIOUS
<1>4. g \in Fetches /\ g.session = adrSessions /\ g.at = "delay" /\ fetches' = fetches \cup {g}
  BY <1>1, <1>2, <1>3, AdrConstants DEF Fetches
<1>5. Adr!TypeOK'
  BY <1>1, <1>4 DEF AdrInv, Adr!TypeOK, Fetches
<1>6. SearchOK'
  BY <1>1, <1>2, <1>4 DEF AdrInv, SearchOK
<1>7. Adr!AddressIsCurrent'
  BY <1>1, <1>4 DEF AdrInv, Adr!AddressIsCurrent
<1> QED
  BY <1>5, <1>6, <1>7 DEF AdrInv

(* A page drawn anew, or drawn without a session, begins no search.        *)
LEMMA AdrDrawn == ASSUME AdrInv, Adr!disconnect \/ Adr!applyLanguage PROVE AdrInv'
<1>1. /\ adrState' \in {adrState, "off"} /\ running' \in BOOLEAN /\ UNCHANGED <<adrSessions, late, fetches>>
      /\ adrState' # "off" => UNCHANGED running
  BY DEF Adr!disconnect, Adr!applyLanguage, Adr!updateAppInterface, AdrInv, Adr!TypeOK
<1>2. /\ adrState' = "off" => currentIp' = <<"none", Adr!Provider>>
      /\ adrState' = "connecting" => currentIp' = <<"wait", Adr!Provider>>
      /\ adrState' = "on" => currentIp' = currentIp
  BY DEF Adr!disconnect, Adr!applyLanguage, Adr!updateAppInterface, Adr!IpIn
<1>3. adrState' \in {"off", "connecting", "on"}
  BY <1>1 DEF AdrInv, Adr!TypeOK
<1>4. Adr!TypeOK'
  BY <1>1, <1>2, <1>3, SaysAre DEF AdrInv, Adr!TypeOK
<1>5. SearchOK'
  BY <1>1 DEF AdrInv, SearchOK
<1>6. Adr!AddressIsCurrent'
  BY <1>1, <1>2, <1>3 DEF AdrInv, Adr!AddressIsCurrent
<1> QED
  BY <1>4, <1>5, <1>6 DEF AdrInv

(* A search changes, and may write the address.  Unless it writes after    *)
(* its session the page is that of its session.                            *)
LEMMA AdrSearch ==
    ASSUME AdrInv, NEW f \in fetches, Adr!Attempt(f) \/ Adr!Answered(f) \/ Adr!Failed(f) PROVE AdrInv'
<1>1. UNCHANGED <<adrState, adrSessions, running>>
  BY DEF Adr!Attempt, Adr!Answered, Adr!Failed
<1>2. f \in Fetches /\ adrSessions \in 0..MaxSearches /\ fetches \subseteq Fetches /\ late \in BOOLEAN
      /\ currentIp \in Adr!Says
  BY DEF AdrInv, Adr!TypeOK, Fetches
<1>3. CASE Adr!Attempt(f)
  <2>1. PICK r \in 0..MaxSearches : r = IF running THEN adrSessions ELSE Adr!Provider
    BY <1>2, AdrConstants
  <2> DEFINE g == [f EXCEPT !.at = "asking", !.route = r]
  <2>2. /\ g \in Fetches /\ g.session = f.session /\ g.at = "asking" /\ g.route = r
    BY <1>2 DEF Fetches
  <2>3. fetches' = (fetches \ {f}) \cup {g}
    BY <1>3, <2>1 DEF Adr!Attempt
  <2> HIDE DEF g
  <2>4. /\ currentIp' = currentIp \/ currentIp' = <<"wait", Adr!Provider>>
        /\ \/ currentIp' = currentIp /\ late' = late
           \/ Adr!Late(f) /\ currentIp' = <<"wait", Adr!Provider>>
    BY <1>3 DEF Adr!Attempt
  <2>5. late' \in BOOLEAN /\ currentIp' \in Adr!Says
    BY <1>2, <2>4, SaysAre DEF Adr!Late
  <2>6. Adr!TypeOK'
    BY <1>1, <1>2, <2>2, <2>3, <2>5 DEF AdrInv, Adr!TypeOK, Fetches
  <2>7. SearchOK'
    BY <1>1, <2>1, <2>2, <2>3 DEF AdrInv, SearchOK
  <2>8. Adr!AddressIsCurrent'
    <3> SUFFICES ASSUME ~late' PROVE Adr!AddressIsCurrent'
      BY DEF Adr!AddressIsCurrent
    <3>1. CASE currentIp' = currentIp /\ late' = late
      BY <1>1, <2>2, <2>3, <3>1 DEF AdrInv, Adr!AddressIsCurrent
    <3>2. CASE Adr!Late(f) /\ currentIp' = <<"wait", Adr!Provider>>
      <4>1. f.session = adrSessions /\ adrState = "on"
        BY <3>2 DEF Adr!Late
      <4> QED
        BY <1>1, <2>2, <2>3, <3>2, <4>1 DEF Adr!AddressIsCurrent
    <3> QED
      BY <2>4, <3>1, <3>2
  <2> QED
    BY <2>6, <2>7, <2>8 DEF AdrInv
<1>4. CASE Adr!Failed(f) /\ f.left > 1
  <2> DEFINE g == [f EXCEPT !.at = "pause", !.left = @ - 1]
  <2>1. f.left - 1 \in 1..RetryCount
    BY <1>2, <1>4, AdrConstants DEF Fetches
  <2>2. g \in Fetches /\ g.session = f.session /\ g.at = "pause"
    BY <1>2, <2>1 DEF Fetches
  <2>3. fetches' = (fetches \ {f}) \cup {g} /\ UNCHANGED <<currentIp, late>>
    BY <1>4 DEF Adr!Failed
  <2> HIDE DEF g
  <2>4. Adr!TypeOK'
    BY <1>1, <1>2, <2>2, <2>3 DEF AdrInv, Adr!TypeOK, Fetches
  <2>5. SearchOK'
    BY <1>1, <2>2, <2>3 DEF AdrInv, SearchOK
  <2>6. Adr!AddressIsCurrent'
    BY <1>1, <2>2, <2>3 DEF AdrInv, Adr!AddressIsCurrent
  <2> QED
    BY <2>4, <2>5, <2>6 DEF AdrInv
<1>5. CASE Adr!Answered(f) \/ (Adr!Failed(f) /\ ~(f.left > 1))
  <2>1. /\ fetches' = fetches \ {f} /\ Adr!Late(f) /\ f.at = "asking"
        /\ currentIp' = <<"address", f.route>> \/ currentIp' = <<"error", Adr!Provider>>
    BY <1>5 DEF Adr!Answered, Adr!Failed
  <2>2. currentIp' \in Adr!Says
    BY <1>2, <2>1, SaysAre DEF Fetches
  <2>3. Adr!TypeOK'
    BY <1>1, <1>2, <2>1, <2>2 DEF AdrInv, Adr!TypeOK, Fetches, Adr!Late
  <2>4. SearchOK'
    BY <1>1, <2>1 DEF AdrInv, SearchOK
  <2>5. Adr!AddressIsCurrent'
    <3> SUFFICES ASSUME ~late' PROVE Adr!AddressIsCurrent'
      BY DEF Adr!AddressIsCurrent
    <3>1. f.session = adrSessions /\ adrState = "on"
      BY <2>1 DEF Adr!Late
    <3>2. f.route = adrSessions
      BY <2>1, <3>1 DEF AdrInv, SearchOK
    <3> QED
      BY <1>1, <2>1, <3>1, <3>2 DEF Adr!AddressIsCurrent
  <2> QED
    BY <2>3, <2>4, <2>5 DEF AdrInv
<1> QED
  BY <1>3, <1>4, <1>5

(* However many searches of earlier sessions are under way: a search of    *)
(* this one asks through its own core.                                     *)
THEOREM AddressInvCorrect == Adr!Spec => []AdrInv
<1>1. Adr!Init => AdrInv
  <2> SUFFICES ASSUME Adr!Init PROVE AdrInv
    OBVIOUS
  <2>1. currentIp = <<"none", Adr!Provider>> /\ currentIp[1] = "none" /\ currentIp \in Adr!Says
    BY SaysAre DEF Adr!Init
  <2>2. Adr!TypeOK
    <3>1. 0 \in 0..MaxSearches /\ fetches = {} /\ adrSessions = 0
      BY AdrConstants DEF Adr!Init
    <3>2. running \in BOOLEAN /\ late \in BOOLEAN /\ adrState \in {"off", "connecting", "on"}
      BY DEF Adr!Init
    <3> QED
      BY <2>1, <3>1, <3>2 DEF Adr!TypeOK
  <2> QED
    BY <2>1, <2>2 DEF Adr!Init, AdrInv, SearchOK, Adr!AddressIsCurrent
<1>2. AdrInv /\ [Adr!Next]_(Adr!vars) => AdrInv'
  <2> SUFFICES ASSUME AdrInv, [Adr!Next]_(Adr!vars) PROVE AdrInv'
    OBVIOUS
  <2>1. CASE UNCHANGED Adr!vars
    BY <2>1 DEF Adr!vars, AdrInv, Adr!TypeOK, SearchOK, Adr!AddressIsCurrent
  <2> QED
    BY <2>1, AdrBegins, AdrStarted, AdrDrawn, AdrSearch DEF Adr!Next
<1> QED
  BY <1>1, <1>2, PTL DEF Adr!Spec

(* At rest the badges say whether the rules stand, unless readings crossed *)
(* or a start was refused, and the address is that of the session, unless  *)
(* a search wrote after its own.                                           *)
THEOREM BadgesCorrect == Bdg!Spec /\ Adr!Spec => []BadgesAreTrue
<1>1. BdgInv => Bdg!BadgeIsTrue
  <2> SUFFICES ASSUME BdgInv, Bdg!AtRest, mishaps \cap {"crossed", "refused"} = {}
               PROVE  badge = rules /\ killSwitchArmed = rules /\ pill = Bdg!PillOf(rules)
    BY DEF Bdg!BadgeIsTrue
  <2>1. mishaps = {}
    BY DEF BdgInv, Bdg!TypeOK, Bdg!Mishap
  <2>2. ~Told /\ \A kind : ~Asked(kind)
    BY DEF Bdg!AtRest, Told, Asked
  <2> QED
    BY <2>1, <2>2 DEF BdgInv, PillOK, BadgeOK
<1>2. AdrInv => Adr!AddressIsCurrent
  BY DEF AdrInv
<1> QED
  BY <1>1, <1>2, BadgeInvCorrect, AddressInvCorrect, PTL DEF BadgesAreTrue

(***************************************************************************)
(* The DNS setting.                                                        *)
(***************************************************************************)
(* Checks have names of their own, of those that were given.               *)
ChecksOK ==
    /\ \A c \in checks : c.id <= checked
    /\ \A c, d \in checks : c.id = d.id => c = d

(* Unless checks were answered out of their order, the text in the field   *)
(* has been judged, or the last check is about it, or one will be asked.   *)
FieldJudged ==
    /\ invalid = (customDnsInput = BadText)
    /\ customDnsInput \in OwnResolvers => dnsSaved = customDnsInput
FieldOK ==
    "crossed" \notin dnsMishaps /\ dnsSelect = Dns!Custom /\ ~dnsCheckTimer =>
        (\E c \in checks : c.id = checked /\ c.value = customDnsInput) \/ FieldJudged

(* Unless something was edited while a core started, it starts with what   *)
(* the page shows, and the page knows what it runs with.                   *)
NothingMissed == dnsMishaps \cap {"edited", "reloaded"} = {}
CoreOK == NothingMissed =>
    /\ dnsStage \in {"starting", "up"} => Dns!currentDnsSetting = dnsCore
    /\ dnsStage = "on" => appliedDns = dnsCore

(* A setting the core does not run with is marked, or will be checked.     *)
ToldOK ==
    /\ NothingMissed /\ dnsStage = "on"
    /\ Dns!currentDnsSetting \in Resolvers \cup OwnResolvers /\ Dns!currentDnsSetting # dnsCore
    => \/ dnsPending
       \/ dnsSelect = Dns!Custom /\ (dnsCheckTimer \/ \E c \in checks : c.value = customDnsInput)

CoreIsSet ==
    /\ dnsCore = NoText => "unset" \in dnsMishaps
    /\ dnsStage \in {"up", "on"} => dnsCore # BadText

(* A test that is whole has seen the session that still runs.              *)
TestsOK == \A t \in tests : t.test.whole =>
    /\ dnsStage = "on"
    /\ \/ t.test.seen = "unseen"
       \/ t.test.seen = Isp /\ t.test.leaked
       \/ t.test.seen = Dns!ResolverOf(dnsCore) /\ ~t.test.leaked

DnsInv == /\ Dns!TypeOK /\ ChecksOK /\ FieldOK /\ CoreOK /\ ToldOK /\ CoreIsSet /\ TestsOK
          /\ Dns!AlarmIsTrue

LEMMA DnsConstants ==
    /\ DefaultResolver \in Resolvers /\ Resolvers \cap OwnResolvers = {} /\ BadText # NoText
    /\ {BadText, NoText, Isp} \cap (Resolvers \cup OwnResolvers) = {}
    /\ Dns!Custom \notin Resolvers
    /\ MaxChoices \in Nat /\ MaxChecks \in Nat \ {0} /\ MaxTests \in Nat
BY PagePartsAssumption DEF Dns!DnsSettingAssumption

LEMMA SameChecks == ASSUME NEW S PROVE Dns!Cardinality(S) = Cardinality(S)
BY Zenon DEF Dns!Cardinality, Cardinality

LEMMA TextsAre ==
    /\ Dns!Texts = OwnResolvers \cup {BadText, NoText} /\ Dns!Texts \cap Resolvers = {}
    /\ Dns!Settings = Resolvers \cup Dns!Texts
BY DnsConstants DEF Dns!Texts, Dns!Settings

(* What the page shows is a setting.                                       *)
LEMMA CurrentIs ==
    ASSUME Dns!TypeOK
    PROVE  /\ Dns!currentDnsSetting \in Dns!Settings
           /\ dnsSelect = Dns!Custom => Dns!currentDnsSetting = customDnsInput
           /\ dnsSelect # Dns!Custom => Dns!currentDnsSetting = dnsSelect
BY DnsConstants, TextsAre DEF Dns!TypeOK, Dns!currentDnsSetting, Dns!SettingOf

(* A text is judged at once when there is none, or by the newest check.    *)
LEMMA CheckIs ==
    ASSUME Dns!TypeOK, ChecksOK, NEW text \in Dns!Texts, Dns!Check(text)
    PROVE  /\ checks' \subseteq [id: 1..MaxChecks, value: Dns!Texts] /\ checked' \in 0..MaxChecks
           /\ invalid' \in BOOLEAN /\ checks \subseteq checks' /\ ChecksOK'
           /\ \/ text = NoText /\ invalid' = FALSE
              \/ \E c \in checks' : c.id = checked' /\ c.value = text
<1>0. MaxChecks \in Nat /\ checked \in 0..MaxChecks /\ invalid \in BOOLEAN
      /\ checks \subseteq [id: 1..MaxChecks, value: Dns!Texts]
  BY DnsConstants DEF Dns!TypeOK
<1>1. CASE text = NoText
  BY <1>0, <1>1 DEF Dns!Check, ChecksOK
<1>2. CASE text # NoText
  <2>1. /\ checked' = checked + 1 /\ checked' \in 1..MaxChecks /\ UNCHANGED invalid
        /\ checks' = checks \cup {[id |-> checked', value |-> text]}
    BY <1>0, <1>2 DEF Dns!Check
  <2>2. \A c \in checks : c.id \in 1..MaxChecks /\ c.id <= checked
    BY <1>0 DEF ChecksOK
  <2>3. ChecksOK'
    <3>1. \A c \in checks' : c \in checks \/ c = [id |-> checked', value |-> text]
      BY <2>1
    <3>2. \A c \in checks' : c.id <= checked'
      BY <1>0, <2>1, <2>2, <3>1
    <3>3. \A c, d \in checks' : c.id = d.id => c = d
      BY <1>0, <2>1, <2>2, <3>1 DEF ChecksOK
    <3> QED
      BY <3>2, <3>3 DEF ChecksOK
  <2> DEFINE c == [id |-> checked', value |-> text]
  <2>4. c \in checks' /\ c.id = checked' /\ c.value = text /\ c \in [id: 1..MaxChecks, value: Dns!Texts]
    BY <2>1
  <2>5. checks' = checks \cup {c}
    BY <2>1
  <2> HIDE DEF c
  <2>6. checks' \subseteq [id: 1..MaxChecks, value: Dns!Texts] /\ checks \subseteq checks'
    BY <1>0, <2>4, <2>5
  <2>7. checked' \in 0..MaxChecks /\ invalid' \in BOOLEAN
    BY <1>0, <2>1
  <2>8. \E d \in checks' : d.id = checked' /\ d.value = text
    BY <2>4
  <2> QED
    BY <2>3, <2>6, <2>7, <2>8
<1> QED
  BY <1>1, <1>2

(* A test that is interrupted is whole no more.                            *)
LEMMA BrokenIs ==
    ASSUME Dns!TypeOK
    PROVE  /\ Dns!Broken \in SUBSET [id: 1..MaxTests, test: Dns!Test]
           /\ \A t \in Dns!Broken : ~t.test.whole
<1>1. ASSUME NEW t \in tests
      PROVE  /\ [t EXCEPT !.test.whole = FALSE] \in [id: 1..MaxTests, test: Dns!Test]
             /\ ~[t EXCEPT !.test.whole = FALSE].test.whole
  BY DEF Dns!TypeOK, Dns!Test
<1> QED
  BY <1>1 DEF Dns!Broken

(* What was told stays true as the history grows.                          *)
LEMMA AlarmKeeps ==
    ASSUME Dns!AlarmIsTrue, UNCHANGED verdict, dnsMishaps \subseteq dnsMishaps'
    PROVE  Dns!AlarmIsTrue'
BY DEF Dns!AlarmIsTrue

(* Steps of the page that leave the session and the tests alone: the       *)
(* change is noted when a core is starting, and marked when one runs.      *)
LEMMA SettingSteps ==
    ASSUME DnsInv, Dns!Edited, Dns!Noted,
           UNCHANGED <<dnsStage, dnsCore, appliedDns, tests, verdict, tested>>,
           dnsSelect' \in Resolvers \cup {Dns!Custom}, customDnsInput' \in Dns!Texts,
           invalid' \in BOOLEAN, dnsCheckTimer' \in BOOLEAN, dnsSaved' \in Dns!Settings,
           dnsPending' \in BOOLEAN, dnsPending => dnsPending',
           checks' \subseteq [id: 1..MaxChecks, value: Dns!Texts], checked' \in 0..MaxChecks,
           ChecksOK', FieldOK', 
           \/ dnsSelect' # Dns!Custom /\ (dnsPending' \/ dnsSelect' = appliedDns)
           \/ dnsSelect' = Dns!Custom /\
                 (dnsCheckTimer' \/ customDnsInput' = NoText \/ \E c \in checks' : c.value = customDnsInput')
    PROVE  DnsInv'
<1>1. /\ dnsMishaps' \in SUBSET Dns!Mishap /\ dnsMishaps \subseteq dnsMishaps'
      /\ dnsStage \in {"starting", "up"} => "edited" \in dnsMishaps'
  BY DEF Dns!Noted, DnsInv, Dns!TypeOK, Dns!Mishap
<1>2. choices' \in 0..MaxChoices
  BY DnsConstants DEF Dns!Edited, DnsInv, Dns!TypeOK
<1>3. Dns!TypeOK'
  BY <1>1, <1>2 DEF DnsInv, Dns!TypeOK
<1>4. CoreOK' /\ CoreIsSet' /\ TestsOK' /\ Dns!AlarmIsTrue'
  BY <1>1, AlarmKeeps DEF DnsInv, CoreOK, NothingMissed, CoreIsSet, TestsOK, Dns!ResolverOf
<1>5. ToldOK'
  <2> SUFFICES ASSUME NothingMissed', dnsStage = "on",
                      Dns!currentDnsSetting' \in Resolvers \cup OwnResolvers,
                      Dns!currentDnsSetting' # dnsCore, ~dnsPending'
               PROVE  dnsSelect' = Dns!Custom /\
                        (dnsCheckTimer' \/ \E c \in checks' : c.value = customDnsInput')
    BY DEF ToldOK
  <2>1. appliedDns = dnsCore
    BY <1>1 DEF DnsInv, CoreOK, NothingMissed
  <2>2. Dns!currentDnsSetting' = IF dnsSelect' = Dns!Custom THEN customDnsInput' ELSE dnsSelect'
    BY DEF Dns!currentDnsSetting, Dns!SettingOf
  <2> QED
    BY <2>1, <2>2, DnsConstants
<1> QED
  BY <1>3, <1>4, <1>5 DEF DnsInv

LEMMA PageSteps ==
    ASSUME DnsInv, \/ \E r \in Resolvers : Dns!SelectResolver(r)
                   \/ Dns!SelectCustom \/ Dns!Type
    PROVE  DnsInv'
<1>0. /\ Dns!TypeOK /\ ChecksOK /\ BadText \notin OwnResolvers /\ NoText \notin OwnResolvers /\ BadText # NoText
      /\ dnsSelect \in Resolvers \cup {Dns!Custom} /\ customDnsInput \in Dns!Texts /\ appliedDns \in Dns!Settings
  BY DnsConstants DEF DnsInv, Dns!TypeOK
<1>1. ASSUME NEW r \in Resolvers, Dns!SelectResolver(r) PROVE DnsInv'
  <2>1. /\ dnsSelect' = r /\ dnsSaved' = r /\ Dns!MarkIfNew(r) /\ Dns!Edited /\ Dns!Noted
        /\ UNCHANGED <<customDnsInput, invalid, dnsCheckTimer, checks, checked, dnsStage, dnsCore,
                       appliedDns, tests, verdict, tested>>
    BY <1>1 DEF Dns!SelectResolver, Dns!checkVars, Dns!sessionVars, Dns!testVars
  <2>2. dnsSelect' # Dns!Custom /\ dnsSaved' \in Dns!Settings
    BY <2>1, DnsConstants, TextsAre
  <2>3. dnsPending' \in BOOLEAN /\ (dnsPending => dnsPending') /\ (dnsPending' \/ dnsSelect' = appliedDns)
    BY <2>1 DEF Dns!MarkIfNew, DnsInv, Dns!TypeOK
  <2>4. ChecksOK' /\ FieldOK'
    BY <2>1, <2>2 DEF DnsInv, ChecksOK, FieldOK
  <2> QED
    BY <1>0, <2>1, <2>2, <2>3, <2>4, SettingSteps DEF Dns!TypeOK
<1>2. CASE Dns!SelectCustom
  <2>1. /\ dnsSelect' = Dns!Custom /\ Dns!Check(customDnsInput) /\ Dns!Edited /\ Dns!Noted
        /\ UNCHANGED <<customDnsInput, dnsCheckTimer, dnsSaved, dnsStage, dnsCore, appliedDns,
                       dnsPending, tests, verdict, tested>>
    BY <1>2 DEF Dns!SelectCustom, Dns!sessionVars, Dns!testVars
  <2>2. /\ checks' \subseteq [id: 1..MaxChecks, value: Dns!Texts] /\ checked' \in 0..MaxChecks
        /\ invalid' \in BOOLEAN /\ checks \subseteq checks' /\ ChecksOK'
        /\ \/ customDnsInput = NoText /\ invalid' = FALSE
           \/ \E c \in checks' : c.id = checked' /\ c.value = customDnsInput
    BY <1>0, <2>1, CheckIs
  <2>3. FieldOK'
    BY <1>0, <2>1, <2>2 DEF FieldOK, FieldJudged
  <2> QED
    BY <1>0, <2>1, <2>2, <2>3, SettingSteps DEF Dns!TypeOK
<1>3. CASE Dns!Type
  <2>1. /\ dnsSelect = Dns!Custom /\ customDnsInput' \in Dns!Texts /\ dnsCheckTimer' = TRUE
        /\ Dns!Edited /\ Dns!Noted
        /\ UNCHANGED <<dnsSelect, invalid, checks, checked, dnsSaved, dnsStage, dnsCore, appliedDns,
                       dnsPending, tests, verdict, tested>>
    BY <1>3 DEF Dns!Type, Dns!sessionVars, Dns!testVars
  <2>2. ChecksOK' /\ FieldOK'
    BY <1>0, <2>1 DEF ChecksOK, FieldOK
  <2> QED
    BY <1>0, <2>1, <2>2, SettingSteps DEF Dns!TypeOK
<1> QED
  BY <1>1, <1>2, <1>3

(* The timer asks for a check, and saving the page changes no more than    *)
(* what is on disk.                                                        *)
LEMMA QuietPageSteps ==
    ASSUME DnsInv, Dns!CheckDue \/ Dns!collectAndSaveSettings
    PROVE  DnsInv'
<1>0. /\ Dns!TypeOK /\ ChecksOK /\ BadText \notin OwnResolvers /\ NoText \notin OwnResolvers /\ BadText # NoText
      /\ dnsSelect \in Resolvers \cup {Dns!Custom} /\ customDnsInput \in Dns!Texts
  BY DnsConstants DEF DnsInv, Dns!TypeOK
<1>1. CASE Dns!CheckDue
  <2>1. /\ dnsCheckTimer' = FALSE /\ Dns!Check(customDnsInput)
        /\ UNCHANGED <<dnsSelect, customDnsInput, dnsSaved, dnsStage, dnsCore, appliedDns, dnsPending,
                       tests, verdict, tested, choices, dnsMishaps>>
    BY <1>1 DEF Dns!CheckDue, Dns!fieldVars, Dns!sessionVars, Dns!testVars
  <2>2. /\ checks' \subseteq [id: 1..MaxChecks, value: Dns!Texts] /\ checked' \in 0..MaxChecks
        /\ invalid' \in BOOLEAN /\ checks \subseteq checks' /\ ChecksOK'
        /\ \/ customDnsInput = NoText /\ invalid' = FALSE
           \/ \E c \in checks' : c.id = checked' /\ c.value = customDnsInput
    BY <1>0, <2>1, CheckIs
  <2>3. Dns!TypeOK' /\ FieldOK'
    BY <1>0, <2>1, <2>2 DEF FieldOK, FieldJudged, Dns!TypeOK
  <2>4. Dns!currentDnsSetting' = Dns!currentDnsSetting
    BY <2>1 DEF Dns!currentDnsSetting, Dns!SettingOf
  <2>5. ToldOK'
    <3>1. Dns!currentDnsSetting \in Resolvers \cup OwnResolvers /\ dnsSelect = Dns!Custom
          => customDnsInput # NoText
      BY <1>0, CurrentIs, DnsConstants
    <3> QED
      BY <2>1, <2>2, <2>4, <3>1 DEF DnsInv, ToldOK, NothingMissed
  <2>6. CoreOK' /\ CoreIsSet' /\ TestsOK' /\ Dns!AlarmIsTrue'
    BY <2>1, <2>4 DEF DnsInv, CoreOK, NothingMissed, CoreIsSet, TestsOK, Dns!ResolverOf, Dns!AlarmIsTrue
  <2> QED
    BY <2>2, <2>3, <2>5, <2>6 DEF DnsInv
<1>2. CASE Dns!collectAndSaveSettings
  <2>1. /\ dnsSaved' = Dns!currentDnsSetting /\ Dns!Noted
        /\ UNCHANGED <<dnsSelect, customDnsInput, invalid, dnsCheckTimer, checks, checked, dnsStage, dnsCore,
                       appliedDns, dnsPending, tests, verdict, tested, choices>>
    BY <1>2 DEF Dns!collectAndSaveSettings, Dns!fieldVars, Dns!checkVars, Dns!sessionVars, Dns!testVars
  <2>2. dnsMishaps' \in SUBSET Dns!Mishap /\ dnsMishaps \subseteq dnsMishaps'
    BY <2>1 DEF Dns!Noted, DnsInv, Dns!TypeOK, Dns!Mishap
  <2>3. Dns!TypeOK'
    BY <1>0, <2>1, <2>2, CurrentIs DEF Dns!TypeOK
  <2>4. ChecksOK' /\ FieldOK'
    BY <1>0, <2>1, <2>2, CurrentIs DEF DnsInv, ChecksOK, FieldOK, FieldJudged
  <2>5. Dns!currentDnsSetting' = Dns!currentDnsSetting
    BY <2>1 DEF Dns!currentDnsSetting, Dns!SettingOf
  <2>6. CoreOK' /\ ToldOK' /\ CoreIsSet' /\ TestsOK' /\ Dns!AlarmIsTrue'
    BY <2>1, <2>2, <2>5, AlarmKeeps
       DEF DnsInv, CoreOK, ToldOK, NothingMissed, CoreIsSet, TestsOK, Dns!ResolverOf
  <2> QED
    BY <2>3, <2>4, <2>6 DEF DnsInv
<1> QED
  BY <1>1, <1>2

(* An answer about the text in the field judges it; another comes while    *)
(* the timer is set, or out of its order.                                  *)
LEMMA CheckAnswered == ASSUME DnsInv, NEW c \in checks, Dns!checkCustomDns(c) PROVE DnsInv'
<1>0. /\ Dns!TypeOK /\ ChecksOK /\ BadText \notin OwnResolvers /\ NoText \notin OwnResolvers /\ BadText # NoText
      /\ BadText \notin Resolvers /\ Resolvers \cap OwnResolvers = {} /\ Dns!Custom \notin Resolvers
      /\ Dns!currentDnsSetting \in Dns!Settings
      /\ dnsSelect \in Resolvers \cup {Dns!Custom} /\ customDnsInput \in Dns!Texts
  BY DnsConstants, CurrentIs DEF DnsInv, Dns!TypeOK
<1>1. /\ checks' = checks \ {c} /\ invalid' = (c.value = BadText)
      /\ UNCHANGED <<dnsSelect, customDnsInput, dnsCheckTimer, checked, dnsStage, dnsCore, appliedDns,
                     tests, verdict, tested, choices>>
      /\ c.value = BadText => UNCHANGED <<dnsSaved, dnsPending>>
      /\ c.value # BadText => dnsSaved' = Dns!currentDnsSetting
                              /\ dnsPending' = (dnsPending \/ Dns!currentDnsSetting # appliedDns)
  BY DEF Dns!checkCustomDns, Dns!MarkIfNew, Dns!fieldVars, Dns!sessionVars, Dns!testVars
<1>2. /\ dnsMishaps' \in SUBSET Dns!Mishap /\ dnsMishaps \subseteq dnsMishaps'
      /\ "crossed" \in dnsMishaps' \/ (c.id >= checked /\ (c.value = customDnsInput \/ dnsCheckTimer))
  BY <1>0 DEF Dns!checkCustomDns, Dns!TypeOK, Dns!Mishap
<1>3. c.id \in 1..MaxChecks /\ c.id <= checked /\ checked \in Nat /\ MaxChecks \in Nat
  BY <1>0, DnsConstants DEF Dns!TypeOK, ChecksOK
<1>4. Dns!TypeOK'
  BY <1>0, <1>1, <1>2 DEF Dns!TypeOK
<1>5. ChecksOK'
  BY <1>1 DEF DnsInv, ChecksOK
<1>6. FieldOK'
  <2> SUFFICES ASSUME "crossed" \notin dnsMishaps', dnsSelect = Dns!Custom, ~dnsCheckTimer
               PROVE  FieldJudged'
    BY <1>1 DEF FieldOK
  <2>1. c.value = customDnsInput
    BY <1>2
  <2>2. Dns!currentDnsSetting = customDnsInput
    BY <1>0, CurrentIs
  <2> QED
    BY <1>0, <1>1, <2>1, <2>2 DEF FieldJudged
<1>7. Dns!currentDnsSetting' = Dns!currentDnsSetting
  BY <1>1 DEF Dns!currentDnsSetting, Dns!SettingOf
<1>8. CoreOK' /\ CoreIsSet' /\ TestsOK' /\ Dns!AlarmIsTrue'
  BY <1>1, <1>2, <1>7, AlarmKeeps DEF DnsInv, CoreOK, NothingMissed, CoreIsSet, TestsOK, Dns!ResolverOf
<1>9. ToldOK'
  <2> SUFFICES ASSUME NothingMissed', dnsStage = "on",
                      Dns!currentDnsSetting \in Resolvers \cup OwnResolvers,
                      Dns!currentDnsSetting # dnsCore, ~dnsPending'
               PROVE  dnsSelect = Dns!Custom /\
                        (dnsCheckTimer \/ \E d \in checks' : d.value = customDnsInput)
    BY <1>1, <1>7 DEF ToldOK
  <2>1. NothingMissed /\ appliedDns = dnsCore
    BY <1>2 DEF DnsInv, CoreOK, NothingMissed
  <2>2. c.value = BadText /\ ~dnsPending
    <3>1. c.value # BadText /\ Dns!currentDnsSetting # appliedDns => dnsPending'
      BY DEF Dns!checkCustomDns, Dns!MarkIfNew
    <3> QED
      BY <1>1, <2>1, <3>1
  <2>3. dnsSelect = Dns!Custom /\ (dnsCheckTimer \/ \E d \in checks : d.value = customDnsInput)
    BY <2>1, <2>2 DEF DnsInv, ToldOK
  <2>4. customDnsInput # BadText
    BY <1>0, <2>3, CurrentIs
  <2> QED
    BY <1>1, <2>2, <2>3, <2>4
<1> QED
  BY <1>4, <1>5, <1>6, <1>8, <1>9 DEF DnsInv

(* A setting is shown, and a text of it judged anew.                       *)
LEMMA ShownIs ==
    ASSUME DnsInv, NEW s \in Resolvers \cup OwnResolvers \cup {BadText}, Dns!setDnsSetting(s)
    PROVE  /\ dnsSelect' \in Resolvers \cup {Dns!Custom} /\ customDnsInput' \in Dns!Texts
           /\ dnsSelect' = Dns!Custom => customDnsInput' = s
           /\ Dns!currentDnsSetting' = s /\ s \in Dns!Settings /\ s # NoText
           /\ checks' \subseteq [id: 1..MaxChecks, value: Dns!Texts] /\ checked' \in 0..MaxChecks
           /\ invalid' \in BOOLEAN /\ ChecksOK' /\ FieldOK'
           /\ dnsSelect' = Dns!Custom => \E c \in checks' : c.value = customDnsInput'
<1>0. /\ Dns!TypeOK /\ ChecksOK /\ s \in Dns!Settings /\ s # NoText
      /\ s \notin Dns!Texts => s \in Resolvers /\ s # Dns!Custom
  BY DnsConstants, TextsAre DEF DnsInv
<1>1. CASE s \in Dns!Texts
  <2>1. dnsSelect' = Dns!Custom /\ customDnsInput' = s /\ Dns!Check(s)
    BY <1>1 DEF Dns!setDnsSetting, Dns!Shows
  <2>2. /\ checks' \subseteq [id: 1..MaxChecks, value: Dns!Texts] /\ checked' \in 0..MaxChecks
        /\ invalid' \in BOOLEAN /\ ChecksOK'
        /\ \E c \in checks' : c.id = checked' /\ c.value = s
    BY <1>0, <1>1, <2>1, CheckIs
  <2>3. FieldOK' /\ Dns!currentDnsSetting' = s
    BY <2>1, <2>2 DEF FieldOK, Dns!currentDnsSetting, Dns!SettingOf
  <2> QED
    BY <1>0, <1>1, <2>1, <2>2, <2>3
<1>2. CASE s \notin Dns!Texts
  <2>1. dnsSelect' = s /\ UNCHANGED <<customDnsInput, invalid, checks, checked>>
    BY <1>2 DEF Dns!setDnsSetting, Dns!Shows
  <2>2. FieldOK' /\ Dns!currentDnsSetting' = s /\ ChecksOK'
    BY <1>0, <1>2, <2>1 DEF FieldOK, ChecksOK, Dns!currentDnsSetting, Dns!SettingOf
  <2> QED
    BY <1>0, <1>2, <2>1, <2>2 DEF Dns!TypeOK
<1> QED
  BY <1>1, <1>2

LEMMA WholeSettingSteps ==
    ASSUME DnsInv, NEW s \in Resolvers \cup OwnResolvers \cup {BadText},
           Dns!applyProfile(s) \/ Dns!Reload(s)
    PROVE  DnsInv'
<1>0. Dns!TypeOK /\ choices' \in 0..MaxChoices
  BY DnsConstants DEF DnsInv, Dns!TypeOK, Dns!applyProfile, Dns!Reload, Dns!Edited
<1>1. CASE Dns!applyProfile(s)
  <2>1. /\ Dns!setDnsSetting(s) /\ dnsSaved' = s
        /\ UNCHANGED <<dnsCheckTimer, appliedDns, dnsPending, verdict, tested>>
    BY <1>1 DEF Dns!applyProfile, Dns!TestsBreak, Dns!testVars
  <2>2. /\ dnsSelect' \in Resolvers \cup {Dns!Custom} /\ customDnsInput' \in Dns!Texts
        /\ dnsSelect' = Dns!Custom => customDnsInput' = s
        /\ Dns!currentDnsSetting' = s /\ s \in Dns!Settings /\ s # NoText
        /\ checks' \subseteq [id: 1..MaxChecks, value: Dns!Texts] /\ checked' \in 0..MaxChecks
        /\ invalid' \in BOOLEAN /\ ChecksOK' /\ FieldOK'
    BY <2>1, ShownIs
  <2>3. CASE dnsStage = "on"
    <3>1. dnsStage' = "starting" /\ dnsCore' = s /\ UNCHANGED dnsMishaps /\ tests' = Dns!Broken
      BY <1>1, <2>3 DEF Dns!applyProfile, Dns!TestsBreak
    <3>2. Dns!TypeOK'
      BY <1>0, <2>1, <2>2, <3>1, BrokenIs DEF Dns!TypeOK
    <3>3. TestsOK'
      BY <1>0, <3>1, BrokenIs DEF TestsOK
    <3>4. CoreOK' /\ ToldOK' /\ CoreIsSet' /\ Dns!AlarmIsTrue'
      BY <2>1, <2>2, <3>1 DEF DnsInv, CoreOK, ToldOK, CoreIsSet, Dns!AlarmIsTrue
    <3> QED
      BY <2>2, <3>2, <3>3, <3>4 DEF DnsInv
  <2>4. CASE dnsStage # "on"
    <3>1. Dns!Noted /\ UNCHANGED <<dnsStage, dnsCore, tests>>
      BY <1>1, <2>4 DEF Dns!applyProfile, Dns!sessionVars, Dns!testVars
    <3>2. /\ dnsMishaps' \in SUBSET Dns!Mishap /\ dnsMishaps \subseteq dnsMishaps'
          /\ dnsStage \in {"starting", "up"} => "edited" \in dnsMishaps'
      BY <1>0, <3>1 DEF Dns!Noted, Dns!TypeOK, Dns!Mishap
    <3>3. Dns!TypeOK'
      BY <1>0, <2>1, <2>2, <3>1, <3>2 DEF Dns!TypeOK
    <3>4. CoreOK' /\ ToldOK' /\ CoreIsSet' /\ TestsOK' /\ Dns!AlarmIsTrue'
      BY <2>1, <2>2, <2>4, <3>1, <3>2, AlarmKeeps
         DEF DnsInv, CoreOK, ToldOK, NothingMissed, CoreIsSet, TestsOK
    <3> QED
      BY <2>2, <3>3, <3>4 DEF DnsInv
  <2> QED
    BY <2>3, <2>4
<1>2. CASE Dns!Reload(s)
  <2>1. /\ Dns!setDnsSetting(s) /\ dnsSaved' = s /\ dnsCheckTimer' = FALSE /\ appliedDns' = s
        /\ dnsPending' = FALSE /\ tests' = {} /\ verdict' = Dns!NoVerdict
        /\ UNCHANGED <<dnsStage, dnsCore, tested>>
    BY <1>2 DEF Dns!Reload, Dns!sessionVars
  <2>2. /\ dnsSelect' \in Resolvers \cup {Dns!Custom} /\ customDnsInput' \in Dns!Texts
        /\ dnsSelect' = Dns!Custom => customDnsInput' = s
        /\ Dns!currentDnsSetting' = s /\ s \in Dns!Settings /\ s # NoText
        /\ checks' \subseteq [id: 1..MaxChecks, value: Dns!Texts] /\ checked' \in 0..MaxChecks
        /\ invalid' \in BOOLEAN /\ ChecksOK' /\ FieldOK'
    BY <2>1, ShownIs
  <2>3. /\ dnsMishaps' \in SUBSET Dns!Mishap /\ dnsMishaps \subseteq dnsMishaps'
        /\ dnsStage # "off" => "reloaded" \in dnsMishaps'
    BY <1>0, <1>2 DEF Dns!Reload, Dns!TypeOK, Dns!Mishap
  <2>4. Dns!TypeOK'
    BY <1>0, <2>1, <2>2, <2>3 DEF Dns!TypeOK, Dns!NoVerdict
  <2>5. CoreOK' /\ ToldOK' /\ CoreIsSet' /\ TestsOK' /\ Dns!AlarmIsTrue'
    BY <2>1, <2>3
       DEF DnsInv, CoreOK, ToldOK, NothingMissed, CoreIsSet, TestsOK, Dns!AlarmIsTrue, Dns!NoVerdict
  <2> QED
    BY <2>2, <2>4, <2>5 DEF DnsInv
<1> QED
  BY <1>1, <1>2

(* A session: what it starts with is what the page shows, or it is noted,  *)
(* and no test is whole that saw it come or go.                            *)
LEMMA CoreSteps ==
    ASSUME DnsInv, Dns!StartXray \/ Dns!CoreIsUp \/ Dns!onStarted \/ Dns!Stopped
    PROVE  DnsInv'
<1>0. /\ Dns!TypeOK /\ Dns!currentDnsSetting \in Dns!Settings
  BY CurrentIs DEF DnsInv
<1>1. UNCHANGED <<dnsSelect, customDnsInput, invalid, dnsCheckTimer, checks, checked, dnsSaved, verdict,
                  tested, choices>>
  BY DEF Dns!StartXray, Dns!CoreIsUp, Dns!onStarted, Dns!Stopped, Dns!fieldVars, Dns!checkVars,
         Dns!TestsBreak, Dns!testVars
<1>2. Dns!currentDnsSetting' = Dns!currentDnsSetting
  BY <1>1 DEF Dns!currentDnsSetting, Dns!SettingOf
<1>3. /\ dnsMishaps' \in SUBSET Dns!Mishap /\ dnsMishaps \subseteq dnsMishaps'
      /\ dnsStage' \in {"off", "starting", "up", "on"}
  BY <1>0 DEF Dns!StartXray, Dns!CoreIsUp, Dns!onStarted, Dns!Stopped, Dns!TypeOK, Dns!Mishap
<1>4. ChecksOK' /\ FieldOK' /\ Dns!AlarmIsTrue'
  BY <1>1, <1>3, AlarmKeeps DEF DnsInv, ChecksOK, FieldOK, FieldJudged
<1>5. /\ tests' \in SUBSET [id: 1..MaxTests, test: Dns!Test] /\ TestsOK'
  <2>1. CASE tests' = Dns!Broken
    BY <1>0, <2>1, BrokenIs DEF TestsOK
  <2>2. CASE Dns!CoreIsUp
    BY <1>0, <2>2 DEF Dns!CoreIsUp, Dns!testVars, Dns!TypeOK, DnsInv, TestsOK
  <2> QED
    BY <2>1, <2>2 DEF Dns!StartXray, Dns!onStarted, Dns!Stopped, Dns!TestsBreak
<1>6. /\ dnsCore' \in Dns!Settings /\ appliedDns' \in Dns!Settings /\ dnsPending' \in BOOLEAN
      /\ CoreOK' /\ ToldOK' /\ CoreIsSet'
  <2>1. CASE Dns!StartXray
    BY <1>0, <1>2, <2>1
       DEF Dns!StartXray, Dns!TypeOK, DnsInv, CoreOK, ToldOK, NothingMissed, CoreIsSet
  <2>2. CASE Dns!CoreIsUp \/ Dns!Stopped
    BY <1>0, <1>2, <2>2
       DEF Dns!CoreIsUp, Dns!Stopped, Dns!Usable, Dns!TypeOK, DnsInv, CoreOK, ToldOK, NothingMissed, CoreIsSet
  <2>3. CASE Dns!onStarted
    BY <1>0, <1>2, <2>3
       DEF Dns!onStarted, Dns!Applied, Dns!TypeOK, DnsInv, CoreOK, ToldOK, NothingMissed, CoreIsSet
  <2> QED
    BY <2>1, <2>2, <2>3
<1>7. Dns!TypeOK'
  BY <1>0, <1>1, <1>3, <1>5, <1>6 DEF Dns!TypeOK
<1> QED
  BY <1>4, <1>5, <1>6, <1>7 DEF DnsInv

(* A test that is whole judges by what the core uses.                      *)
LEMMA TestSteps ==
    ASSUME DnsInv, Dns!runDnsLeakTest \/ \E t \in tests : Dns!Resolve(t) \/ Dns!Verdict(t)
    PROVE  DnsInv'
<1>0. /\ Dns!TypeOK /\ MaxTests \in Nat /\ tested \in 0..MaxTests
      /\ tests \subseteq [id: 1..MaxTests, test: Dns!Test]
      /\ Isp \notin Resolvers /\ NoText \notin Resolvers /\ Isp \notin OwnResolvers
      /\ DefaultResolver \in Resolvers
  BY DnsConstants DEF DnsInv, Dns!TypeOK
<1>1. UNCHANGED <<dnsSelect, customDnsInput, invalid, dnsCheckTimer, checks, checked, dnsSaved, dnsStage,
                  dnsCore, appliedDns, dnsPending, choices, dnsMishaps>>
  BY DEF Dns!runDnsLeakTest, Dns!Resolve, Dns!Verdict, Dns!fieldVars, Dns!checkVars, Dns!sessionVars
<1>2. ChecksOK' /\ FieldOK' /\ CoreOK' /\ ToldOK' /\ CoreIsSet'
  BY <1>1 DEF DnsInv, ChecksOK, FieldOK, FieldJudged, CoreOK, ToldOK, NothingMissed, CoreIsSet,
              Dns!currentDnsSetting, Dns!SettingOf
<1>3. CASE Dns!runDnsLeakTest
  <2> DEFINE t == [id |-> tested', test |->
                     [seen |-> "unseen", whole |-> dnsStage = "on", leaked |-> FALSE]]
  <2>1. tested' \in 1..MaxTests /\ tests' = tests \cup {t} /\ UNCHANGED verdict
    BY <1>0, <1>3 DEF Dns!runDnsLeakTest
  <2>2. t \in [id: 1..MaxTests, test: Dns!Test] /\ t.test.seen = "unseen" /\ t.test.whole = (dnsStage = "on")
    BY <2>1 DEF Dns!Test
  <2> HIDE DEF t
  <2>3. Dns!TypeOK'
    BY <1>0, <1>1, <2>1, <2>2 DEF Dns!TypeOK
  <2>4. TestsOK'
    BY <1>1, <2>1, <2>2 DEF DnsInv, TestsOK, Dns!ResolverOf
  <2>5. Dns!AlarmIsTrue'
    BY <1>1, <2>1, AlarmKeeps DEF DnsInv
  <2> QED
    BY <1>2, <2>3, <2>4, <2>5 DEF DnsInv
<1>4. ASSUME NEW t \in tests, Dns!Resolve(t) PROVE DnsInv'
  <2>1. PICK resolver \in {Dns!ResolverOf(dnsCore), Isp} :
          /\ tests' = (tests \ {t}) \cup
                        {[t EXCEPT !.test.seen = resolver, !.test.leaked = resolver = Isp]}
          /\ dnsStage \in {"up", "on"} \/ resolver = Isp
    BY <1>4 DEF Dns!Resolve
  <2>2. UNCHANGED <<verdict, tested>>
    BY <1>4 DEF Dns!Resolve
  <2>3. resolver \in Resolvers \cup OwnResolvers \cup {Isp}
    <3>1. dnsStage \in {"up", "on"} => dnsCore \in Resolvers \cup OwnResolvers \cup {NoText}
      BY <1>0, TextsAre DEF DnsInv, CoreIsSet, Dns!TypeOK
    <3> QED
      BY <1>0, <2>1, <3>1 DEF Dns!ResolverOf
  <2> DEFINE u == [t EXCEPT !.test.seen = resolver, !.test.leaked = resolver = Isp]
  <2>4. /\ u \in [id: 1..MaxTests, test: Dns!Test]
        /\ u.test.seen = resolver /\ u.test.leaked = (resolver = Isp) /\ u.test.whole = t.test.whole
    BY <1>0, <2>3 DEF Dns!Test
  <2>5. tests' = (tests \ {t}) \cup {u}
    BY <2>1
  <2> HIDE DEF u
  <2>6. Dns!TypeOK'
    BY <1>0, <1>1, <2>2, <2>4, <2>5 DEF Dns!TypeOK
  <2>7. TestsOK'
    BY <1>1, <2>1, <2>4, <2>5 DEF DnsInv, TestsOK, Dns!ResolverOf
  <2>8. Dns!AlarmIsTrue'
    BY <1>1, <2>2, AlarmKeeps DEF DnsInv
  <2> QED
    BY <1>2, <2>6, <2>7, <2>8 DEF DnsInv
<1>5. ASSUME NEW t \in tests, Dns!Verdict(t) PROVE DnsInv'
  <2>1. tests' = tests \ {t} /\ UNCHANGED tested
    BY <1>5 DEF Dns!Verdict
  <2>2. /\ verdict'.leaked = t.test.leaked /\ verdict'.whole = t.test.whole
        /\ \/ verdict'.says \in {"unknown", "error"}
           \/ t.test.seen # "unseen" /\ verdict'.says = Dns!Judged(t.test.seen)
        /\ verdict' \in [says: {"nothing", "unknown", "unverified", "safe", "leak", "error"},
                         leaked: BOOLEAN, whole: BOOLEAN]
    BY <1>0, <1>5 DEF Dns!Verdict, Dns!Judged, Dns!Test
  <2>3. Dns!TypeOK' /\ TestsOK'
    BY <1>0, <1>1, <2>1, <2>2 DEF Dns!TypeOK, DnsInv, TestsOK, Dns!ResolverOf
  <2>4. Dns!AlarmIsTrue'
    <3> SUFFICES ASSUME t.test.whole, dnsMishaps \cap {"edited", "reloaded", "unset"} = {},
                        t.test.seen # "unseen", verdict'.says = Dns!Judged(t.test.seen)
                 PROVE  /\ verdict'.says = "leak" => t.test.leaked
                        /\ verdict'.says = "safe" => ~t.test.leaked
      BY <1>1, <2>2 DEF Dns!AlarmIsTrue
    <3>1. dnsStage = "on" /\ appliedDns = dnsCore /\ dnsCore # NoText
      BY DEF DnsInv, TestsOK, CoreOK, NothingMissed, CoreIsSet
    <3>2. Dns!Expected = dnsCore /\ Dns!ResolverOf(dnsCore) = dnsCore
      BY <3>1 DEF Dns!Expected, Dns!ResolverOf
    <3>3. (t.test.seen = Isp /\ t.test.leaked) \/ (t.test.seen = dnsCore /\ ~t.test.leaked)
      BY <3>2 DEF DnsInv, TestsOK
    <3> QED
      BY <1>0, <3>2, <3>3 DEF Dns!Judged
  <2> QED
    BY <1>2, <2>3, <2>4 DEF DnsInv
<1> QED
  BY <1>3, <1>4, <1>5

THEOREM DnsCorrect == Dns!Spec => []DnsInv
<1>1. Dns!Init => DnsInv
  <2> SUFFICES ASSUME Dns!Init PROVE DnsInv
    OBVIOUS
  <2>1. /\ dnsSaved \in Resolvers \cup OwnResolvers \cup {BadText}
        /\ dnsSelect = (IF dnsSaved \in Dns!Texts THEN Dns!Custom ELSE dnsSaved)
        /\ customDnsInput = (IF dnsSaved \in Dns!Texts THEN dnsSaved ELSE NoText)
        /\ checks = (IF dnsSaved \in Dns!Texts THEN {[id |-> 1, value |-> dnsSaved]} ELSE {})
        /\ checked = Dns!Cardinality(checks)
        /\ invalid = FALSE /\ dnsCheckTimer = FALSE /\ dnsStage = "off" /\ dnsCore = dnsSaved
        /\ appliedDns = dnsSaved /\ dnsPending = FALSE /\ tests = {} /\ verdict = Dns!NoVerdict
        /\ tested = 0 /\ choices = 0 /\ dnsMishaps = {}
    BY DEF Dns!Init
  <2>2. MaxChecks \in Nat \ {0} /\ MaxTests \in Nat /\ MaxChoices \in Nat
    BY DnsConstants
  <2>3. dnsSaved \in Dns!Settings /\ dnsSaved # NoText /\ (dnsSaved \notin Dns!Texts => dnsSaved \in Resolvers)
    BY <2>1, DnsConstants, TextsAre
  <2>4. checked = IF dnsSaved \in Dns!Texts THEN 1 ELSE 0
    BY <2>1, SameChecks, FS_EmptySet, FS_Singleton
  <2>5. Dns!TypeOK
    <3>1. /\ checks \subseteq [id: 1..MaxChecks, value: Dns!Texts] /\ checked \in 0..MaxChecks
      BY <2>1, <2>2, <2>4
    <3>2. dnsSelect \in Resolvers \cup {Dns!Custom} /\ customDnsInput \in Dns!Texts
      BY <2>1, <2>3, TextsAre
    <3>3. /\ verdict \in [says: {"nothing", "unknown", "unverified", "safe", "leak", "error"},
                           leaked: BOOLEAN, whole: BOOLEAN]
          /\ dnsMishaps \in SUBSET Dns!Mishap /\ tests \in SUBSET [id: 1..MaxTests, test: Dns!Test]
          /\ tested \in 0..MaxTests /\ choices \in 0..MaxChoices
      BY <2>1, <2>2 DEF Dns!NoVerdict
    <3> QED
      BY <2>1, <2>3, <3>1, <3>2, <3>3 DEF Dns!TypeOK
  <2>6. ChecksOK
    BY <2>1, <2>4 DEF ChecksOK
  <2>7. FieldOK
    <3> SUFFICES ASSUME dnsSelect = Dns!Custom
                 PROVE  \E c \in checks : c.id = checked /\ c.value = customDnsInput
      BY DEF FieldOK
    <3>1. dnsSaved \in Dns!Texts
      BY <2>1, <2>3, DnsConstants
    <3>2. checks = {[id |-> 1, value |-> dnsSaved]} /\ customDnsInput = dnsSaved
      BY <2>1, <3>1
    <3>3. checked = 1
      BY <2>4, <3>1
    <3> QED
      BY <3>2, <3>3
  <2> QED
    BY <2>1, <2>3, <2>5, <2>6, <2>7
       DEF DnsInv, CoreOK, ToldOK, CoreIsSet, TestsOK, Dns!AlarmIsTrue, Dns!NoVerdict
<1>2. DnsInv /\ [Dns!Next]_(Dns!vars) => DnsInv'
  <2> SUFFICES ASSUME DnsInv, [Dns!Next]_(Dns!vars) PROVE DnsInv'
    OBVIOUS
  <2>1. CASE UNCHANGED Dns!vars
    BY <2>1 DEF Dns!vars, Dns!fieldVars, Dns!checkVars, Dns!sessionVars, Dns!testVars, DnsInv,
                Dns!TypeOK, ChecksOK, FieldOK, FieldJudged, CoreOK, ToldOK, NothingMissed, CoreIsSet,
                TestsOK, Dns!AlarmIsTrue, Dns!ResolverOf, Dns!currentDnsSetting, Dns!SettingOf
  <2> QED
    BY <2>1, PageSteps, QuietPageSteps, CheckAnswered, WholeSettingSteps, CoreSteps, TestSteps
       DEF Dns!Next
<1> QED
  BY <1>1, <1>2, PTL DEF Dns!Spec

(* At rest the field has been judged and what is set is saved; a resolver  *)
(* the core does not run with is marked; and the test for leaks is true.   *)
THEOREM ResolverCorrect == Dns!Spec => []ResolverIsHonest
<1>1. DnsInv => ResolverIsHonest
  <2> SUFFICES ASSUME DnsInv PROVE Dns!FieldIsHonest /\ Dns!ChangeIsTold /\ Dns!AlarmIsTrue
    BY DEF ResolverIsHonest
  <2>1. Dns!FieldIsHonest
    BY DEF Dns!FieldIsHonest, Dns!AtRest, DnsInv, FieldOK, FieldJudged
  <2>2. Dns!ChangeIsTold
    BY DEF Dns!ChangeIsTold, Dns!AtRest, DnsInv, ToldOK, NothingMissed
  <2> QED
    BY <2>1, <2>2 DEF DnsInv
<1> QED
  BY <1>1, DnsCorrect, PTL

(***************************************************************************)
(* The camera of the QR dialog.                                            *)
(***************************************************************************)
(* Without a late stream, the one frame on its way is the one stop would   *)
(* cancel, and none is while a click waits for its stream to play.         *)
CameraOK == ~lateStream =>
    /\ live \subseteq {qrStream} /\ (live # {} => modal)
    /\ frames \subseteq {qrAnimationId}
    /\ \A k \in Cam!Clicks : clicks[k] = "playing" => k = qrStream /\ frames = {}
    /\ qrStream = 0 => frames = {}

(* Every import comes of a frame or a picture.                             *)
CountOK == imports + files + Cardinality(frames) <= requested + chosen /\ files <= chosen

CamInv == Cam!TypeOK /\ CameraOK /\ CountOK

LEMMA CamConstants ==
    /\ MaxStarts \in Nat /\ MaxFrames \in Nat /\ MaxFiles \in Nat
    /\ Cam!Clicks = 1..MaxStarts /\ 0 \notin Cam!Clicks
BY PagePartsAssumption DEF Cam!QrCameraAssumption, Cam!Clicks

ClickStages == {"none", "asking", "playing", "scanning", "done"}

(* Pausing fails the clicks that wait for their stream to play.            *)
LEMMA PausedIs ==
    ASSUME NEW c \in [Cam!Clicks -> ClickStages]
    PROVE  /\ Cam!Paused(c) \in [Cam!Clicks -> ClickStages]
           /\ \A k \in Cam!Clicks : Cam!Paused(c)[k] # "playing"
BY DEF Cam!Paused, ClickStages

(* To stop is always right: no frame is left and, if one stream is all     *)
(* there is, no camera.                                                    *)
LEMMA StopIsClean ==
    ASSUME CamInv, NEW c \in [Cam!Clicks -> ClickStages], NEW left \in SUBSET frames,
           Cam!stopQrCamera(c, left), modal' \in BOOLEAN, ~lateStream => (modal' \/ live' = {})
    PROVE  /\ clicks' \in [Cam!Clicks -> ClickStages]
           /\ qrStream' = 0 /\ qrAnimationId' = 0 /\ live' \in SUBSET Cam!Clicks
           /\ frames' \in SUBSET (1..MaxFrames) /\ lateStream' = lateStream
           /\ CameraOK'
<1>1. /\ clicks' = Cam!Paused(c) /\ qrStream' = 0 /\ qrAnimationId' = 0
      /\ live' = live \ {qrStream} /\ frames' = left \ {qrAnimationId} /\ lateStream' = lateStream
  BY DEF Cam!stopQrCamera
<1>2. /\ clicks' \in [Cam!Clicks -> ClickStages]
      /\ \A k \in Cam!Clicks : clicks'[k] # "playing"
  BY <1>1, PausedIs
<1>3. live' \in SUBSET Cam!Clicks /\ frames' \in SUBSET (1..MaxFrames)
  BY <1>1 DEF CamInv, Cam!TypeOK
<1>4. CameraOK'
  BY <1>1, <1>2 DEF CamInv, CameraOK
<1> QED
  BY <1>1, <1>2, <1>3, <1>4

(* Frames can be counted, and fewer are no more.                           *)
LEMMA FramesCount ==
    ASSUME Cam!TypeOK, NEW left \in SUBSET frames
    PROVE  IsFiniteSet(left) /\ Cardinality(left) \in Nat /\ Cardinality(left) <= Cardinality(frames)
<1>1. IsFiniteSet(1..MaxFrames)
  BY CamConstants, FS_Interval
<1>2. IsFiniteSet(frames)
  BY <1>1, FS_Subset DEF Cam!TypeOK
<1> QED
  BY <1>2, FS_Subset, FS_CardinalityType

(* What the number of imports asks for.                                    *)
LEMMA Counted ==
    ASSUME CamInv, NEW left \in SUBSET frames, frames' \in SUBSET left,
           requested' \in 0..MaxFrames, files' \in 0..MaxFiles, chosen' \in 0..MaxFiles, imports' \in Nat,
           files' <= chosen', imports' + files' + Cardinality(left) <= requested' + chosen'
    PROVE  CountOK' /\ imports' \in 0..(MaxFrames + MaxFiles)
<1>1. /\ IsFiniteSet(left) /\ Cardinality(left) \in Nat
      /\ Cardinality(frames') \in Nat /\ Cardinality(frames') <= Cardinality(left)
  BY FramesCount, FS_Subset, FS_CardinalityType DEF CamInv
<1>2. MaxFrames \in Nat /\ MaxFiles \in Nat
  BY CamConstants
<1>3. imports' <= MaxFrames + MaxFiles /\ imports' + files' + Cardinality(frames') <= requested' + chosen'
  BY <1>1, <1>2
<1> QED
  BY <1>2, <1>3 DEF CountOK

LEMMA StopKeeps ==
    ASSUME CamInv, NEW c \in [Cam!Clicks -> ClickStages], NEW left \in SUBSET frames,
           Cam!stopQrCamera(c, left), modal' \in BOOLEAN,
           UNCHANGED requested, files' \in 0..MaxFiles, chosen' \in 0..MaxFiles, imports' \in Nat,
           files' <= chosen', imports' + files' + Cardinality(left) <= requested + chosen'
    PROVE  CamInv'
<1>1. ~lateStream => live' = {}
  BY DEF CamInv, CameraOK, Cam!stopQrCamera
<1>2. /\ clicks' \in [Cam!Clicks -> ClickStages]
      /\ qrStream' = 0 /\ qrAnimationId' = 0 /\ live' \in SUBSET Cam!Clicks
      /\ frames' \in SUBSET (1..MaxFrames) /\ lateStream' = lateStream
      /\ CameraOK'
  BY <1>1, StopIsClean
<1>3. CountOK' /\ imports' \in 0..(MaxFrames + MaxFiles) /\ requested' \in 0..MaxFrames
  <2>1. frames' \in SUBSET left
    BY DEF Cam!stopQrCamera
  <2>2. requested' \in 0..MaxFrames
    BY DEF CamInv, Cam!TypeOK
  <2> QED
    BY <2>1, <2>2, Counted
<1>4. Cam!TypeOK'
  BY <1>2, <1>3, CamConstants DEF CamInv, Cam!TypeOK, ClickStages
<1> QED
  BY <1>2, <1>3, <1>4 DEF CamInv

(* The numbers a step starts from.                                         *)
CamBounds ==
    /\ clicks \in [Cam!Clicks -> ClickStages] /\ lateStream \in BOOLEAN /\ modal \in BOOLEAN
    /\ requested \in 0..MaxFrames /\ files \in 0..MaxFiles /\ chosen \in 0..MaxFiles
    /\ imports \in Nat /\ Cardinality(frames) \in Nat /\ IsFiniteSet(frames)
    /\ imports + files + Cardinality(frames) <= requested + chosen /\ files <= chosen
    /\ MaxFrames \in Nat /\ MaxFiles \in Nat

LEMMA CamNumbers == CamInv => CamBounds
<1> SUFFICES ASSUME CamInv PROVE CamBounds
  OBVIOUS
<1>1. /\ imports \in Nat /\ clicks \in [Cam!Clicks -> ClickStages] /\ MaxFrames \in Nat /\ MaxFiles \in Nat
      /\ lateStream \in BOOLEAN /\ modal \in BOOLEAN
      /\ requested \in 0..MaxFrames /\ files \in 0..MaxFiles /\ chosen \in 0..MaxFiles
  BY CamConstants DEF CamInv, Cam!TypeOK, ClickStages
<1>2. IsFiniteSet(frames) /\ Cardinality(frames) \in Nat
  BY FramesCount DEF CamInv
<1> QED
  BY <1>1, <1>2 DEF CamBounds, CamInv, CountOK

LEMMA ImportKeeps ==
    ASSUME CamInv, NEW code, NEW left \in SUBSET frames, Cam!handleQrImport(code, left),
           UNCHANGED <<requested, chosen>>, files' \in 0..MaxFiles, files' <= chosen,
           imports + 1 + files' + Cardinality(left) <= requested + chosen
    PROVE  CamInv'
<1>0. CamBounds
  BY CamNumbers
<1>1. Cardinality(left) \in Nat
  BY FramesCount DEF CamInv
<1>2. /\ imports' \in Nat
      /\ imports' + files' + Cardinality(left) <= requested + chosen'
  BY <1>0, <1>1 DEF Cam!handleQrImport, Cam!closeQrModal, Cam!stopQrCamera, CamBounds
<1>3. CASE Cam!closeQrModal(left)
  BY <1>0, <1>2, <1>3, StopKeeps DEF Cam!closeQrModal, CamBounds
<1>4. CASE frames' = left /\ UNCHANGED <<modal, clicks, qrStream, live, qrAnimationId, lateStream>>
  <2>1. CountOK' /\ imports' \in 0..(MaxFrames + MaxFiles)
    BY <1>0, <1>2, <1>4, Counted DEF CamBounds
  <2> QED
    BY <1>4, <2>1 DEF CamInv, CameraOK, Cam!TypeOK
<1> QED
  BY <1>3, <1>4 DEF Cam!handleQrImport

(* A frame is asked for: when left are on their way none of them may       *)
(* be the one that stop would have to cancel.                              *)
LEMMA RequestKeeps ==
    ASSUME CamInv, NEW left \in SUBSET frames, Cam!Request(left),
           ~lateStream => left = {} /\ qrStream # 0,
           clicks' \in [Cam!Clicks -> ClickStages],
           \A k \in Cam!Clicks : clicks'[k] # "playing" \/ lateStream,
           UNCHANGED <<modal, qrStream, live, lateStream, files, chosen, imports>>
    PROVE  CamInv'
<1>0. CamBounds
  BY CamNumbers
<1>1. /\ requested' = requested + 1 /\ requested' \in 1..MaxFrames
      /\ frames' = left \cup {requested'} /\ qrAnimationId' = requested'
  BY <1>0 DEF Cam!Request, CamBounds
<1>2. CountOK'
  <2>1. IsFiniteSet(left) /\ Cardinality(left) \in Nat /\ Cardinality(left) <= Cardinality(frames)
    BY FramesCount DEF CamInv
  <2>2. Cardinality(frames') <= Cardinality(left) + 1 /\ Cardinality(frames') \in Nat
    <3>1. /\ IsFiniteSet(left \cup {requested'})
          /\ \/ Cardinality(left \cup {requested'}) = Cardinality(left)
             \/ Cardinality(left \cup {requested'}) = Cardinality(left) + 1
      BY <2>1, FS_AddElement
    <3> QED
      BY <1>1, <2>1, <3>1
  <2>3. /\ imports \in Nat /\ files \in Nat /\ requested \in Nat /\ chosen \in Nat
        /\ Cardinality(frames) \in Nat /\ files <= chosen
        /\ imports + files + Cardinality(frames) <= requested + chosen
    BY <1>0 DEF CountOK, CamBounds
  <2>4. imports + files + Cardinality(frames') <= requested + 1 + chosen
    BY <2>1, <2>2, <2>3
  <2> QED
    BY <1>1, <2>3, <2>4 DEF CountOK
<1>3. CameraOK'
  BY <1>1 DEF CamInv, CameraOK
<1>4. Cam!TypeOK'
  BY <1>0, <1>1 DEF CamBounds, CamInv, Cam!TypeOK, ClickStages
<1> QED
  BY <1>2, <1>3, <1>4 DEF CamInv

LEMMA DialogSteps ==
    ASSUME CamInv, Cam!OpenModal \/ Cam!Close \/ Cam!StartCamera \/ Cam!Saved \/ Cam!Upload
    PROVE  CamInv'
<1>0. CamBounds
  BY CamNumbers
<1>1. CASE Cam!OpenModal
  BY <1>1 DEF Cam!OpenModal, Cam!cameraVars, CamInv, CameraOK, CountOK, Cam!TypeOK
<1>2. CASE Cam!Close \/ Cam!Saved
  <2>1. /\ Cam!stopQrCamera(clicks, frames) /\ modal' = FALSE
        /\ UNCHANGED <<requested, files, chosen>> /\ imports' \in {imports, imports - 1} /\ imports' \in Nat
    BY <1>0, <1>2 DEF Cam!Close, Cam!Saved, Cam!closeQrModal, CamBounds
  <2>2. imports' + files' + Cardinality(frames) <= requested + chosen'
    BY <1>0, <2>1 DEF CamBounds
  <2> QED
    BY <1>0, <2>1, <2>2, StopKeeps DEF CamBounds
<1>3. CASE Cam!StartCamera
  <2>1. PICK k \in Cam!Clicks : Cam!stopQrCamera([clicks EXCEPT ![k] = "asking"], frames)
    BY <1>3 DEF Cam!StartCamera
  <2>2. [clicks EXCEPT ![k] = "asking"] \in [Cam!Clicks -> ClickStages]
    BY <1>0 DEF CamBounds, ClickStages
  <2>3. UNCHANGED <<modal, requested, files, chosen, imports>>
    BY <1>3 DEF Cam!StartCamera
  <2> QED
    BY <1>0, <2>1, <2>2, <2>3, StopKeeps DEF CamBounds
<1>4. CASE Cam!Upload
  <2>1. /\ Cam!stopQrCamera(clicks, frames) /\ UNCHANGED <<modal, requested, imports>>
        /\ files' \in {files, files + 1} /\ chosen' - chosen = files' - files /\ chosen' \in 0..MaxFiles
    BY <1>0, <1>4 DEF Cam!Upload, CamBounds
  <2>2. /\ files' \in 0..MaxFiles /\ files' <= chosen'
        /\ imports' + files' + Cardinality(frames) <= requested + chosen'
    BY <1>0, <2>1 DEF CamBounds
  <2> QED
    BY <1>0, <2>1, <2>2, StopKeeps DEF CamBounds
<1> QED
  BY <1>1, <1>2, <1>3, <1>4

LEMMA PermissionSteps ==
    ASSUME CamInv, NEW k \in Cam!Clicks, Cam!Granted(k) \/ Cam!Denied(k) \/ Cam!Plays(k)
    PROVE  CamInv'
<1>0. CamBounds
  BY CamNumbers
<1>1. CASE Cam!Granted(k)
  <2>1. /\ clicks' = [Cam!Paused(clicks) EXCEPT ![k] = "playing"]
        /\ qrStream' = k /\ live' = live \cup {k} /\ lateStream' = (lateStream \/ ~modal \/ qrStream # 0)
        /\ UNCHANGED <<modal, frames, qrAnimationId, requested, files, chosen, imports>>
    BY <1>1 DEF Cam!Granted
  <2>2. /\ clicks' \in [Cam!Clicks -> ClickStages]
        /\ \A j \in Cam!Clicks : clicks'[j] = "playing" => j = k
    BY <1>0, <2>1, PausedIs DEF CamBounds, ClickStages
  <2>3. Cam!TypeOK'
    BY <1>0, <2>1, <2>2 DEF CamInv, Cam!TypeOK, CamBounds, ClickStages
  <2>4. CameraOK'
    BY <2>1, <2>2, CamConstants DEF CamInv, CameraOK, Cam!TypeOK
  <2> QED
    BY <2>1, <2>3, <2>4 DEF CamInv, CountOK
<1>2. CASE Cam!Denied(k)
  <2>1. /\ clicks' = [clicks EXCEPT ![k] = "done"]
        /\ UNCHANGED <<modal, qrStream, live, frames, qrAnimationId, requested, lateStream,
                       files, chosen, imports>>
    BY <1>2 DEF Cam!Denied
  <2>2. /\ clicks' \in [Cam!Clicks -> ClickStages]
        /\ \A j \in Cam!Clicks : clicks'[j] = "playing" => clicks[j] = "playing"
    BY <1>0, <2>1 DEF CamBounds, ClickStages
  <2> QED
    BY <2>1, <2>2 DEF CamInv, CameraOK, CountOK, Cam!TypeOK, ClickStages
<1>3. CASE Cam!Plays(k)
  <2>1. /\ clicks[k] = "playing" /\ clicks' = [clicks EXCEPT ![k] = "scanning"] /\ Cam!Request(frames)
        /\ UNCHANGED <<modal, qrStream, live, lateStream, files, chosen, imports>>
    BY <1>3 DEF Cam!Plays
  <2>2. ~lateStream => frames = {} /\ qrStream # 0 /\ \A j \in Cam!Clicks : j # k => clicks[j] # "playing"
    BY <2>1, CamConstants DEF CamInv, CameraOK
  <2>3. clicks' \in [Cam!Clicks -> ClickStages] /\ \A j \in Cam!Clicks : clicks'[j] # "playing" \/ lateStream
    BY <1>0, <2>1, <2>2 DEF CamBounds, ClickStages
  <2> QED
    BY <2>1, <2>2, <2>3, RequestKeeps
<1> QED
  BY <1>1, <1>2, <1>3

LEMMA ReaderSteps ==
    ASSUME CamInv, Cam!FileIsRead \/ \E f \in frames : Cam!scanQrFrame(f)
    PROVE  CamInv'
<1>0. CamBounds
  BY CamNumbers
<1>1. CASE Cam!FileIsRead
  <2>1. files > 0 /\ files' = files - 1 /\ UNCHANGED <<requested, chosen>>
    BY <1>1 DEF Cam!FileIsRead
  <2>2. files' \in 0..MaxFiles /\ files' <= chosen /\ imports + 1 + files' + Cardinality(frames) <= requested + chosen
    BY <1>0, <2>1 DEF CamBounds
  <2>3. CASE UNCHANGED <<modal, clicks, qrStream, live, frames, qrAnimationId, lateStream, imports>>
    <3>1. CountOK'
      BY <1>0, <2>1, <2>2, <2>3 DEF CountOK, CamBounds
    <3> QED
      BY <2>1, <2>2, <2>3, <3>1 DEF CamInv, CameraOK, Cam!TypeOK
  <2>4. CASE \E code \in Cam!Codes \ {"none"} : Cam!handleQrImport(code, frames)
    BY <2>1, <2>2, <2>4, ImportKeeps
  <2> QED
    BY <1>1, <2>3, <2>4 DEF Cam!FileIsRead
<1>2. ASSUME NEW f \in frames, Cam!scanQrFrame(f) PROVE CamInv'
  <2> DEFINE left == frames \ {f}
  <2>1. left \in SUBSET frames /\ Cardinality(left) = Cardinality(frames) - 1
    BY <1>0, FS_RemoveElement DEF CamBounds
  <2> HIDE DEF left
  <2>2. UNCHANGED <<files, chosen>>
    BY <1>2 DEF Cam!scanQrFrame
  <2>3. imports + 1 + files' + Cardinality(left) <= requested + chosen
    BY <1>0, <2>1, <2>2 DEF CamBounds
  <2>4. CASE UNCHANGED requested /\ \E code \in Cam!Codes \ {"none"} : Cam!handleQrImport(code, left)
    BY <1>0, <2>1, <2>2, <2>3, <2>4, ImportKeeps DEF CamBounds
  <2>5. CASE Cam!Request(left) /\ qrStream # 0
             /\ UNCHANGED <<modal, clicks, qrStream, live, lateStream, imports>>
    <3>1. ~lateStream => left = {} /\ \A k \in Cam!Clicks : clicks[k] # "playing"
      BY <1>2 DEF CamInv, CameraOK, left
    <3> QED
      BY <1>0, <2>1, <2>2, <2>5, <3>1, RequestKeeps DEF CamBounds
  <2>6. CASE frames' = left /\ UNCHANGED <<requested, qrAnimationId, modal, clicks, qrStream, live,
                                           lateStream, imports>>
    <3>1. CountOK'
      BY <1>0, <2>1, <2>2, <2>6 DEF CountOK, CamBounds
    <3>2. CameraOK' /\ Cam!TypeOK'
      BY <2>1, <2>2, <2>6 DEF CamInv, CameraOK, Cam!TypeOK
    <3> QED
      BY <3>1, <3>2 DEF CamInv
  <2> QED
    BY <1>2, <2>4, <2>5, <2>6 DEF Cam!scanQrFrame, left
<1> QED
  BY <1>1, <1>2

THEOREM CameraCorrect == Cam!Spec => []CamInv
<1>1. Cam!Init => CamInv
  <2> SUFFICES ASSUME Cam!Init PROVE CamInv
    OBVIOUS
  <2>1. Cardinality({}) = 0
    BY FS_EmptySet
  <2>2. Cam!TypeOK
    <3>1. clicks \in [Cam!Clicks -> ClickStages]
      BY DEF Cam!Init, ClickStages
    <3>2. 0 \in 0..MaxFrames /\ 0 \in 0..MaxFiles /\ 0 \in 0..(MaxFrames + MaxFiles)
      BY CamConstants
    <3> QED
      BY <3>1, <3>2 DEF Cam!Init, Cam!TypeOK, ClickStages
  <2>3. CountOK
    BY <2>1 DEF Cam!Init, CountOK
  <2> QED
    BY <2>2, <2>3 DEF Cam!Init, CamInv, CameraOK
<1>2. CamInv /\ [Cam!Next]_(Cam!vars) => CamInv'
  <2> SUFFICES ASSUME CamInv, [Cam!Next]_(Cam!vars) PROVE CamInv'
    OBVIOUS
  <2>1. CASE UNCHANGED Cam!vars
    BY <2>1 DEF Cam!vars, Cam!cameraVars, CamInv, CameraOK, CountOK, Cam!TypeOK
  <2> QED
    BY <2>1, DialogSteps, PermissionSteps, ReaderSteps DEF Cam!Next
<1> QED
  BY <1>1, <1>2, PTL DEF Cam!Spec

LEMMA SameFrames == ASSUME NEW S PROVE Cam!Cardinality(S) = Cardinality(S)
BY Zenon DEF Cam!Cardinality, Cardinality

LEMMA CamInvGives == CamInv => Cam!CameraIsTheDialogs
<1> SUFFICES ASSUME CamInv, ~lateStream
             PROVE  live \subseteq {qrStream} /\ (live # {} => modal) /\ Cardinality(frames) <= 1
  BY SameFrames DEF Cam!CameraIsTheDialogs
<1>1. live \subseteq {qrStream} /\ (live # {} => modal) /\ frames \subseteq {qrAnimationId}
  BY DEF CamInv, CameraOK
<1>2. IsFiniteSet({qrAnimationId}) /\ Cardinality({qrAnimationId}) = 1
  BY FS_Singleton
<1>3. Cardinality(frames) <= 1
  BY <1>1, <1>2, FS_Subset
<1> QED
  BY <1>1, <1>3

(***************************************************************************)
(* The dialogs.                                                            *)
(***************************************************************************)
Positions(s) == 1..Len(s)

(* Every dialog has its own name, and a button closes one on the stack.    *)
NamesOK ==
    /\ Len(dialogStack) <= opened
    /\ \A i \in Positions(dialogStack) : dialogStack[i].id <= opened
    /\ \A i, j \in Positions(dialogStack) : dialogStack[i].id = dialogStack[j].id => i = j
    /\ \A o \in Dia!Overlay : handler[o] # 0 =>
          \E i \in Positions(dialogStack) : dialogStack[i].id = handler[o] /\ dialogStack[i].overlay = o

(* As long as no overlay was opened twice, the stack is what can be        *)
(* answered.                                                               *)
StackOK == "reused" \notin dialogMishaps =>
    /\ \A i \in Positions(dialogStack) :
          /\ dialogStack[i].id \in pending /\ dialogStack[i].overlay \in shown
          /\ handler[dialogStack[i].overlay] = dialogStack[i].id
    /\ \A p \in pending : \E i \in Positions(dialogStack) : dialogStack[i].id = p
    /\ \A o \in shown : \E i \in Positions(dialogStack) : dialogStack[i].overlay = o

(* ... and as none was closed below another, each dialog gives the focus   *)
(* back to the one below it, and the last of them to the page.             *)
FocusOK == dialogMishaps \cap {"reused", "overtaken"} = {} =>
    /\ home \in {"page", "body"}
    /\ dialogStack = <<>> => focus = home
    /\ dialogStack # <<>> =>
          dialogStack[1].restoreTo = home /\ focus \in {dialogStack[Len(dialogStack)].overlay, "body"}
    /\ \A i \in Positions(dialogStack) : i # 1 =>
          dialogStack[i].restoreTo \in {dialogStack[i - 1].overlay, "body"}

DiaInv == Dia!TypeOK /\ NamesOK /\ StackOK /\ FocusOK

LEMMA OverlayIs == Dia!Overlay = {"prompt", "update", "alert", "qr", "dns"}
BY DEF Dia!Overlay, Dia!Overlays, Dia!Range

LEMMA Removed ==
    ASSUME NEW S, NEW s \in Seq(S), NEW i \in 1..Len(s)
    PROVE  /\ Dia!RemoveAt(s, i) \in Seq(S)
           /\ Len(Dia!RemoveAt(s, i)) = Len(s) - 1
           /\ \A j \in 1..(Len(s) - 1) :
                 Dia!RemoveAt(s, i)[j] = IF j < i THEN s[j] ELSE s[j + 1]
<1> DEFINE front == SubSeq(s, 1, i - 1)
           back == SubSeq(s, i + 1, Len(s))
<1>0. Len(s) \in Nat
  BY LenProperties
<1>1. front \in Seq(S) /\ Len(front) = i - 1 /\ \A j \in 1..(i - 1) : front[j] = s[j]
  BY <1>0
<1>2. back \in Seq(S) /\ Len(back) = Len(s) - i /\ \A j \in 1..(Len(s) - i) : back[j] = s[i + j]
  BY <1>0
<1>3. Dia!RemoveAt(s, i) = front \o back
  BY DEF Dia!RemoveAt
<1> HIDE DEF front, back
<1>4. front \o back \in Seq(S) /\ Len(front \o back) = Len(s) - 1
  <2>1. front \o back \in Seq(S) /\ Len(front \o back) = Len(front) + Len(back)
    BY <1>1, <1>2, ConcatProperties
  <2> QED
    BY <1>0, <1>1, <1>2, <2>1
<1>5. ASSUME NEW j \in 1..(Len(s) - 1)
      PROVE  (front \o back)[j] = IF j < i THEN s[j] ELSE s[j + 1]
  <2>1. CASE j < i
    <3>1. j \in 1..Len(front) /\ (front \o back)[j] = front[j]
      BY <1>0, <1>1, <1>2, <2>1
    <3> QED
      BY <1>1, <2>1, <3>1
  <2>2. CASE ~(j < i)
    <3> DEFINE k == j - Len(front)
    <3>1. k \in 1..Len(back) /\ k = j - (i - 1) /\ i + k = j + 1
      BY <1>0, <1>1, <1>2, <2>2
    <3>2. (front \o back)[j] = back[k]
      BY <1>0, <1>1, <1>2, <3>1
    <3> HIDE DEF k
    <3> QED
      BY <1>2, <2>2, <3>1, <3>2
  <2> QED
    BY <2>1, <2>2
<1> QED
  BY <1>3, <1>4, <1>5

(* What the dialog of an update keeps beside the stack.                    *)
DownloadOK ==
    /\ download \in {"none", "offered", "running", "failed", "verified", "installing", "denied"}
    /\ told \in Seq({"complete", "error"}) /\ listening \in BOOLEAN

LEMMA StackIs ==
    ASSUME DiaInv
    PROVE  /\ dialogStack \in Seq(Dia!Entries) /\ Len(dialogStack) \in Nat
           /\ opened \in 0..MaxDialogs /\ MaxDialogs \in Nat /\ Len(dialogStack) <= MaxDialogs
           /\ handler \in [Dia!Overlay -> {0} \cup Dia!Ids] /\ shown \in SUBSET Dia!Overlay
           /\ \A i \in Positions(dialogStack) :
                 /\ dialogStack[i] \in Dia!Entries
                 /\ dialogStack[i].id \in Dia!Ids /\ dialogStack[i].overlay \in Dia!Overlay
                 /\ dialogStack[i].restoreTo \in Dia!Places
           /\ dialogStack = <<>> <=> Len(dialogStack) = 0
<1>1. dialogStack \in Seq(Dia!Entries) /\ MaxDialogs \in Nat
  BY PagePartsAssumption DEF DiaInv, Dia!TypeOK, Dia!DialogsAssumption
<1>2. Len(dialogStack) \in Nat /\ (dialogStack = <<>> <=> Len(dialogStack) = 0)
      /\ \A i \in Positions(dialogStack) : dialogStack[i] \in Dia!Entries
  BY <1>1, EmptySeq DEF Positions
<1> QED
  BY <1>1, <1>2 DEF DiaInv, Dia!TypeOK, Dia!Entries

LEMMA OpenKeeps ==
    ASSUME DiaInv, NEW o \in Dia!Overlay, Dia!trapFocus(o), DownloadOK'
    PROVE  DiaInv'
<1> DEFINE n == Len(dialogStack)
           e == [id |-> opened', overlay |-> o, restoreTo |-> focus]
<1>1. /\ opened' = opened + 1 /\ opened' \in 1..MaxDialogs /\ opened \in Nat /\ opened' # 0
      /\ dialogStack' = Append(dialogStack, e) /\ shown' = shown \cup {o} /\ focus' = o
      /\ handler' = [handler EXCEPT ![o] = opened'] /\ pending' = pending \cup {opened'}
      /\ home' = (IF dialogStack = <<>> THEN focus ELSE home)
      /\ dialogMishaps' = (IF o \in shown THEN dialogMishaps \cup {"reused"} ELSE dialogMishaps)
  BY StackIs DEF Dia!trapFocus
<1>2. e \in Dia!Entries /\ e.id = opened' /\ e.overlay = o /\ e.restoreTo = focus
  BY <1>1 DEF Dia!Entries, Dia!Ids, DiaInv, Dia!TypeOK
<1> HIDE DEF e
<1>3. /\ n \in Nat /\ dialogStack' \in Seq(Dia!Entries) /\ Len(dialogStack') = n + 1
      /\ \A i \in 1..n : dialogStack'[i] = dialogStack[i]
      /\ dialogStack'[n + 1] = e /\ dialogStack' # <<>>
  BY <1>1, <1>2, StackIs
<1>4. NamesOK'
  <2>1. n + 1 <= opened'
    BY <1>1, <1>3 DEF DiaInv, NamesOK
  <2>2. \A i \in 1..n : dialogStack[i].id <= opened /\ dialogStack[i].id \in Nat
    BY StackIs DEF DiaInv, NamesOK, Positions, Dia!Ids
  <2>3. \A i \in 1..(n + 1) : (i \in 1..n /\ dialogStack'[i] = dialogStack[i]) \/ (i = n + 1 /\ dialogStack'[i] = e)
    BY <1>3
  <2>4. \A i \in 1..(n + 1) : dialogStack'[i].id <= opened'
    BY <1>1, <1>2, <2>2, <2>3
  <2>5. \A i, j \in 1..(n + 1) : dialogStack'[i].id = dialogStack'[j].id => i = j
    BY <1>1, <1>2, <2>2, <2>3 DEF DiaInv, NamesOK, Positions
  <2>6. ASSUME NEW p \in Dia!Overlay, handler'[p] # 0
        PROVE  \E i \in 1..(n + 1) : dialogStack'[i].id = handler'[p] /\ dialogStack'[i].overlay = p
    <3>1. CASE p = o
      <4>1. handler'[p] = opened' /\ n + 1 \in 1..(n + 1)
        BY <1>1, <1>3, <3>1, StackIs
      <4> QED
        BY <1>2, <1>3, <3>1, <4>1
    <3>2. CASE p # o
      <4>1. handler'[p] = handler[p]
        BY <1>1, <3>2, StackIs
      <4>2. PICK i \in 1..n : dialogStack[i].id = handler[p] /\ dialogStack[i].overlay = p
        BY <2>6, <4>1 DEF DiaInv, NamesOK, Positions
      <4> QED
        BY <1>3, <4>1, <4>2
    <3> QED
      BY <3>1, <3>2
  <2> QED
    BY <1>3, <2>1, <2>4, <2>5, <2>6 DEF NamesOK, Positions
<1>5. Dia!TypeOK'
  <2>1. n + 1 <= MaxDialogs
    BY <1>1, <1>3, <1>4, StackIs DEF NamesOK
  <2>2. handler' \in [Dia!Overlay -> {0} \cup Dia!Ids] /\ opened' \in Dia!Ids /\ opened' \in 0..MaxDialogs
    BY <1>1, StackIs DEF Dia!Ids
  <2>3. focus' \in Dia!Places /\ home' \in Dia!Places
    BY <1>1 DEF Dia!Places, DiaInv, Dia!TypeOK
  <2>4. dialogMishaps' \in SUBSET Dia!Mishap
    BY <1>1 DEF DiaInv, Dia!TypeOK, Dia!Mishap
  <2> QED
    BY <1>1, <1>3, <2>1, <2>2, <2>3, <2>4 DEF DiaInv, Dia!TypeOK, DownloadOK
<1>6. StackOK'
  <2> SUFFICES ASSUME "reused" \notin dialogMishaps'
               PROVE  /\ \A i \in 1..(n + 1) :
                            /\ dialogStack'[i].id \in pending' /\ dialogStack'[i].overlay \in shown'
                            /\ handler'[dialogStack'[i].overlay] = dialogStack'[i].id
                      /\ \A p \in pending' : \E i \in 1..(n + 1) : dialogStack'[i].id = p
                      /\ \A p \in shown' : \E i \in 1..(n + 1) : dialogStack'[i].overlay = p
    BY <1>3 DEF StackOK, Positions
  <2>1. o \notin shown /\ "reused" \notin dialogMishaps
    BY <1>1
  <2>2. ASSUME NEW i \in 1..n
        PROVE  /\ dialogStack[i].id \in pending /\ dialogStack[i].overlay \in shown
               /\ handler'[dialogStack[i].overlay] = dialogStack[i].id
    <3>1. dialogStack[i].overlay # o /\ dialogStack[i].overlay \in Dia!Overlay
      BY <2>1, StackIs DEF DiaInv, StackOK, Positions
    <3> QED
      BY <1>1, <2>1, <3>1, StackIs DEF DiaInv, StackOK, Positions
  <2>3. handler'[o] = opened' /\ n + 1 \in 1..(n + 1)
    BY <1>1, <1>3, StackIs
  <2>4. \A i \in 1..(n + 1) : (i \in 1..n /\ dialogStack'[i] = dialogStack[i]) \/ (i = n + 1 /\ dialogStack'[i] = e)
    BY <1>3
  <2>5. \A i \in 1..n : i \in 1..(n + 1) /\ dialogStack'[i] = dialogStack[i]
    BY <1>3
  <2>6. \A p \in pending' : \E i \in 1..(n + 1) : dialogStack'[i].id = p
    BY <1>1, <1>2, <1>3, <2>1, <2>3, <2>5 DEF DiaInv, StackOK, Positions
  <2>7. \A p \in shown' : \E i \in 1..(n + 1) : dialogStack'[i].overlay = p
    BY <1>1, <1>2, <1>3, <2>1, <2>3, <2>5 DEF DiaInv, StackOK, Positions
  <2> QED
    BY <1>1, <1>2, <2>2, <2>3, <2>4, <2>6, <2>7
<1>7. FocusOK'
  <2> SUFFICES ASSUME dialogMishaps' \cap {"reused", "overtaken"} = {}
               PROVE  /\ home' \in {"page", "body"} /\ dialogStack'[1].restoreTo = home'
                      /\ \A i \in 1..(n + 1) : i # 1 =>
                            dialogStack'[i].restoreTo \in {dialogStack'[i - 1].overlay, "body"}
    BY <1>1, <1>2, <1>3 DEF FocusOK, Positions
  <2>1. dialogMishaps \cap {"reused", "overtaken"} = {}
    BY <1>1
  <2>2. CASE dialogStack = <<>>
    <3>1. n = 0
      BY <2>2, StackIs
    <3>2. home' \in {"page", "body"} /\ dialogStack'[1].restoreTo = home'
      BY <1>1, <1>2, <1>3, <2>1, <2>2, <3>1 DEF DiaInv, FocusOK
    <3> QED
      BY <3>1, <3>2
  <2>3. CASE dialogStack # <<>>
    <3>1. n \in Nat \ {0}
      BY <1>3, <2>3, StackIs
    <3>2. home' \in {"page", "body"} /\ dialogStack'[1].restoreTo = home'
      BY <1>1, <1>3, <2>1, <2>3, <3>1 DEF DiaInv, FocusOK
    <3>3. ASSUME NEW i \in 1..(n + 1), i # 1
          PROVE  dialogStack'[i].restoreTo \in {dialogStack'[i - 1].overlay, "body"}
      <4>1. i - 1 \in 1..n /\ dialogStack'[i - 1] = dialogStack[i - 1]
        BY <1>3, <3>1, <3>3
      <4>2. CASE i = n + 1
        BY <1>2, <1>3, <2>1, <2>3, <3>1, <4>1, <4>2 DEF DiaInv, FocusOK
      <4>3. CASE i # n + 1
        <5>1. i \in 1..n
          BY <1>3, <4>3
        <5> QED
          BY <1>3, <2>1, <3>3, <4>1, <5>1 DEF DiaInv, FocusOK, Positions
      <4> QED
        BY <4>2, <4>3
    <3> QED
      BY <3>2, <3>3
  <2> QED
    BY <2>2, <2>3
<1> QED
  BY <1>4, <1>5, <1>6, <1>7 DEF DiaInv

(* Closing removes the one dialog whose button it is.                      *)
LEMMA ClosedIs ==
    ASSUME DiaInv, NEW o \in Dia!Overlay, Dia!Close(o)
    PROVE  \E k \in 1..Len(dialogStack) :
              /\ dialogStack[k].id = handler[o] /\ dialogStack[k].overlay = o /\ o \in shown
              /\ dialogStack' \in Seq(Dia!Entries) /\ Len(dialogStack') = Len(dialogStack) - 1
              /\ \A j \in 1..(Len(dialogStack) - 1) :
                    dialogStack'[j] = IF j < k THEN dialogStack[j] ELSE dialogStack[j + 1]
              /\ shown' = shown \ {o} /\ handler' = [handler EXCEPT ![o] = 0]
              /\ pending' = pending \ {dialogStack[k].id} /\ UNCHANGED <<opened, home>>
              /\ focus' = (IF Dia!GivenBack(dialogStack[k], o) THEN dialogStack[k].restoreTo
                           ELSE IF focus = o THEN "body" ELSE focus)
              /\ dialogMishaps \subseteq dialogMishaps' /\ dialogMishaps' \subseteq Dia!Mishap
              /\ "reused" \in dialogMishaps' => "reused" \in dialogMishaps
              /\ "overtaken" \notin dialogMishaps' => k = Len(dialogStack)
<1>0. /\ dialogStack \in Seq(Dia!Entries) /\ Len(dialogStack) \in Nat
      /\ \A i \in 1..Len(dialogStack) : dialogStack[i] \in Dia!Entries
      /\ DOMAIN dialogStack = 1..Len(dialogStack)
  BY StackIs DEF Positions
<1>1. PICK k \in 1..Len(dialogStack) : dialogStack[k].id = handler[o] /\ dialogStack[k].overlay = o
  BY DEF Dia!Close, DiaInv, NamesOK, Positions
<1>2. \A i \in 1..Len(dialogStack) : dialogStack[i].id = handler[o] => i = k
  BY <1>1 DEF DiaInv, NamesOK, Positions
<1>3. Dia!ToSet(dialogStack) = {dialogStack[i] : i \in 1..Len(dialogStack)}
  BY <1>0 DEF Dia!ToSet
<1>4. (CHOOSE e \in Dia!ToSet(dialogStack) : e.id = handler[o]) = dialogStack[k]
  BY <1>1, <1>2, <1>3
<1>5. (CHOOSE i \in DOMAIN dialogStack : dialogStack[i] = dialogStack[k]) = k
  BY <1>0, <1>1, <1>2
<1>6. dialogStack' = Dia!RemoveAt(dialogStack, k)
  <2>1. dialogStack' = Dia!Released(dialogStack[k])
    BY <1>4 DEF Dia!Close
  <2> QED
    BY <1>5, <2>1 DEF Dia!Released
<1>7. /\ dialogStack' \in Seq(Dia!Entries) /\ Len(dialogStack') = Len(dialogStack) - 1
      /\ \A j \in 1..(Len(dialogStack) - 1) :
            dialogStack'[j] = IF j < k THEN dialogStack[j] ELSE dialogStack[j + 1]
  BY <1>0, <1>6, Removed
<1>8. /\ o \in shown /\ shown' = shown \ {o} /\ handler' = [handler EXCEPT ![o] = 0]
      /\ pending' = pending \ {dialogStack[k].id} /\ UNCHANGED <<opened, home>>
  BY <1>4 DEF Dia!Close
<1>9. focus' = (IF Dia!GivenBack(dialogStack[k], o) THEN dialogStack[k].restoreTo
                 ELSE IF focus = o THEN "body" ELSE focus)
  <2> DEFINE d == CHOOSE e \in Dia!ToSet(dialogStack) : e.id = handler[o]
  <2>1. focus' = (IF Dia!GivenBack(d, o) THEN d.restoreTo ELSE IF focus = o THEN "body" ELSE focus)
    BY Zenon DEF Dia!Close
  <2> HIDE DEF d
  <2>2. d = dialogStack[k]
    BY <1>4 DEF d
  <2> QED
    BY <2>1, <2>2, Zenon
<1>10. dialogMishaps' = dialogMishaps
            \cup (IF dialogStack[k] # Dia!Last(dialogStack) THEN {"overtaken"} ELSE {})
            \cup (IF o = "update" /\ download \in {"running", "verified"} /\ listening
                  THEN {"unheeded"} ELSE {})
  BY <1>4 DEF Dia!Close
<1>11. dialogStack[k] = Dia!Last(dialogStack) => k = Len(dialogStack)
  <2>1. Len(dialogStack) \in 1..Len(dialogStack)
    BY <1>0, <1>1
  <2>2. Dia!Last(dialogStack) = dialogStack[Len(dialogStack)]
    BY DEF Dia!Last
  <2> QED
    BY <1>1, <1>2, <2>1, <2>2
<1>12. /\ dialogMishaps \subseteq dialogMishaps' /\ dialogMishaps' \subseteq Dia!Mishap
       /\ "reused" \in dialogMishaps' => "reused" \in dialogMishaps
       /\ "overtaken" \notin dialogMishaps' => k = Len(dialogStack)
  BY <1>11, <1>10 DEF DiaInv, Dia!TypeOK, Dia!Mishap
<1> QED
  BY <1>1, <1>7, <1>8, <1>12, <1>9

LEMMA CloseKeeps ==
    ASSUME DiaInv, NEW o \in Dia!Overlay, Dia!Close(o), DownloadOK'
    PROVE  DiaInv'
<1> DEFINE n == Len(dialogStack)
           s == dialogStack'
<1>1. PICK k \in 1..n :
         /\ dialogStack[k].id = handler[o] /\ dialogStack[k].overlay = o /\ o \in shown
         /\ s \in Seq(Dia!Entries) /\ Len(s) = n - 1
         /\ \A j \in 1..(n - 1) : s[j] = IF j < k THEN dialogStack[j] ELSE dialogStack[j + 1]
         /\ shown' = shown \ {o} /\ handler' = [handler EXCEPT ![o] = 0]
         /\ pending' = pending \ {dialogStack[k].id} /\ UNCHANGED <<opened, home>>
         /\ focus' = (IF Dia!GivenBack(dialogStack[k], o) THEN dialogStack[k].restoreTo
                      ELSE IF focus = o THEN "body" ELSE focus)
         /\ dialogMishaps \subseteq dialogMishaps' /\ dialogMishaps' \subseteq Dia!Mishap
         /\ "reused" \in dialogMishaps' => "reused" \in dialogMishaps
         /\ "overtaken" \notin dialogMishaps' => k = n
  BY ClosedIs
<1>2. /\ n \in Nat \ {0} /\ dialogStack \in Seq(Dia!Entries) /\ n <= MaxDialogs /\ MaxDialogs \in Nat
      /\ handler \in [Dia!Overlay -> {0} \cup Dia!Ids] /\ opened \in 0..MaxDialogs
      /\ shown \subseteq Dia!Overlay /\ pending \subseteq Dia!Ids
      /\ \A i \in 1..n : dialogStack[i] \in Dia!Entries /\ dialogStack[i].restoreTo \in Dia!Places
                         /\ dialogStack[i].overlay \in Dia!Overlay
  <2>1. n \in Nat /\ k \in 1..n
    BY StackIs
  <2> QED
    BY <2>1, StackIs DEF Positions, DiaInv, Dia!TypeOK
<1>3. \A i, j \in 1..n : dialogStack[i].id = dialogStack[j].id => i = j
  BY DEF DiaInv, NamesOK, Positions
(* Who is left was there, and everybody but k is left.                     *)
<1>4. ASSUME NEW j \in 1..(n - 1)
      PROVE  \E i \in 1..n : i # k /\ s[j] = dialogStack[i] /\ i = IF j < k THEN j ELSE j + 1
  <2>1. CASE j < k
    BY <1>1, <1>2, <2>1
  <2>2. CASE ~(j < k)
    BY <1>1, <1>2, <2>2
  <2> QED
    BY <2>1, <2>2
<1>5. ASSUME NEW i \in 1..n, i # k
      PROVE  \E j \in 1..(n - 1) : s[j] = dialogStack[i]
  <2>1. CASE i < k
    BY <1>1, <1>2, <2>1
  <2>2. CASE ~(i < k)
    <3>1. i - 1 \in 1..(n - 1) /\ ~(i - 1 < k) /\ (i - 1) + 1 = i
      BY <1>2, <1>5, <2>2
    <3> QED
      BY <1>1, <3>1
  <2> QED
    BY <2>1, <2>2
<1>6. NamesOK'
  <2>1. n - 1 <= opened
    BY <1>2 DEF DiaInv, NamesOK
  <2>2. \A j \in 1..(n - 1) : s[j].id <= opened
    BY <1>4 DEF DiaInv, NamesOK, Positions
  <2>3. ASSUME NEW j \in 1..(n - 1), NEW l \in 1..(n - 1), s[j].id = s[l].id PROVE j = l
    <3>1. PICK a \in 1..n : s[j] = dialogStack[a] /\ a = IF j < k THEN j ELSE j + 1
      BY <1>4
    <3>2. PICK b \in 1..n : s[l] = dialogStack[b] /\ b = IF l < k THEN l ELSE l + 1
      BY <1>4
    <3>3. a = b
      BY <1>3, <2>3, <3>1, <3>2
    <3> QED
      BY <1>2, <3>1, <3>2, <3>3
  <2>4. ASSUME NEW p \in Dia!Overlay, handler'[p] # 0
        PROVE  \E j \in 1..(n - 1) : s[j].id = handler'[p] /\ s[j].overlay = p
    <3>1. p # o /\ handler'[p] = handler[p]
      BY <1>1, <1>2, <2>4
    <3>2. PICK i \in 1..n : dialogStack[i].id = handler[p] /\ dialogStack[i].overlay = p
      BY <2>4, <3>1 DEF DiaInv, NamesOK, Positions
    <3>3. i # k
      BY <1>1, <3>1, <3>2
    <3>4. PICK j \in 1..(n - 1) : s[j] = dialogStack[i]
      BY <1>5, <3>3
    <3> QED
      BY <3>1, <3>2, <3>4
  <2> QED
    BY <1>1, <2>1, <2>2, <2>3, <2>4 DEF NamesOK, Positions
<1>7. Dia!TypeOK'
  <2>1. handler' \in [Dia!Overlay -> {0} \cup Dia!Ids] /\ Len(s) <= MaxDialogs
    BY <1>1, <1>2
  <2>2. focus' \in Dia!Places /\ home' \in Dia!Places
    <3>1. focus \in Dia!Places /\ home \in Dia!Places
      BY DEF DiaInv, Dia!TypeOK
    <3>2. focus' \in {dialogStack[k].restoreTo, "body", focus}
      BY <1>1
    <3>3. "body" \in Dia!Places
      BY DEF Dia!Places
    <3> QED
      BY <1>1, <1>2, <3>1, <3>2, <3>3
  <2>3. shown' \in SUBSET Dia!Overlay /\ pending' \in SUBSET Dia!Ids /\ dialogMishaps' \in SUBSET Dia!Mishap
    BY <1>1, <1>2
  <2> QED
    BY <1>1, <1>2, <2>1, <2>2, <2>3 DEF Dia!TypeOK, DownloadOK
<1>8. StackOK'
  <2> SUFFICES ASSUME "reused" \notin dialogMishaps'
               PROVE  /\ \A j \in 1..(n - 1) :
                            /\ s[j].id \in pending' /\ s[j].overlay \in shown'
                            /\ handler'[s[j].overlay] = s[j].id
                      /\ \A p \in pending' : \E j \in 1..(n - 1) : s[j].id = p
                      /\ \A p \in shown' : \E j \in 1..(n - 1) : s[j].overlay = p
    BY <1>1 DEF StackOK, Positions
  <2>1. "reused" \notin dialogMishaps
    BY <1>1
  <2>2. /\ \A i \in 1..n : /\ dialogStack[i].id \in pending /\ dialogStack[i].overlay \in shown
                           /\ handler[dialogStack[i].overlay] = dialogStack[i].id
        /\ \A p \in pending : \E i \in 1..n : dialogStack[i].id = p
        /\ \A p \in shown : \E i \in 1..n : dialogStack[i].overlay = p
    BY <2>1 DEF DiaInv, StackOK, Positions
  <2>3. ASSUME NEW j \in 1..(n - 1)
        PROVE  /\ s[j].id \in pending' /\ s[j].overlay \in shown'
               /\ handler'[s[j].overlay] = s[j].id
    <3>1. PICK i \in 1..n : i # k /\ s[j] = dialogStack[i]
      BY <1>4
    <3>2. dialogStack[i].id # dialogStack[k].id
      BY <1>3, <3>1
    <3>3. dialogStack[i].overlay # o
      BY <1>1, <2>2, <3>2
    <3> QED
      BY <1>1, <1>2, <2>2, <3>1, <3>2, <3>3
  <2>4. ASSUME NEW p \in pending' PROVE \E j \in 1..(n - 1) : s[j].id = p
    <3>1. PICK i \in 1..n : dialogStack[i].id = p
      BY <1>1, <2>2, <2>4
    <3>2. i # k
      BY <1>1, <2>4, <3>1
    <3> QED
      BY <1>5, <3>1, <3>2
  <2>5. ASSUME NEW p \in shown' PROVE \E j \in 1..(n - 1) : s[j].overlay = p
    <3>1. PICK i \in 1..n : dialogStack[i].overlay = p
      BY <1>1, <2>2, <2>5
    <3>2. i # k
      BY <1>1, <2>5, <3>1
    <3> QED
      BY <1>5, <3>1, <3>2
  <2> QED
    BY <2>3, <2>4, <2>5
<1>9. FocusOK'
  <2> SUFFICES ASSUME dialogMishaps' \cap {"reused", "overtaken"} = {}
               PROVE  /\ home \in {"page", "body"}
                      /\ s = <<>> => focus' = home
                      /\ s # <<>> => s[1].restoreTo = home /\ focus' \in {s[Len(s)].overlay, "body"}
                      /\ \A i \in 1..(n - 1) : i # 1 =>
                            s[i].restoreTo \in {s[i - 1].overlay, "body"}
    BY <1>1 DEF FocusOK, Positions
  <2>1. dialogMishaps \cap {"reused", "overtaken"} = {} /\ k = n /\ dialogStack # <<>>
    BY <1>1, <1>2, StackIs
  <2>2. /\ home \in {"page", "body"} /\ dialogStack[1].restoreTo = home
        /\ focus \in {o, "body"}
        /\ \A i \in 1..n : i # 1 => dialogStack[i].restoreTo \in {dialogStack[i - 1].overlay, "body"}
    BY <1>1, <2>1 DEF DiaInv, FocusOK, Positions
  <2>3. \A i \in 1..(n - 1) : s[i] = dialogStack[i]
    BY <1>1, <1>2, <2>1
  <2>4. s = <<>> <=> n = 1
    BY <1>1, <1>2, EmptySeq
  <2>5. focus' \in {dialogStack[n].restoreTo, "body"}
    BY <1>1, <2>1, <2>2
  <2>6. CASE n = 1
    <3>1. dialogStack[k].restoreTo = home
      BY <2>1, <2>2, <2>6
    <3>2. focus' = home
      BY <1>1, <1>2, <2>2, <3>1, OverlayIs DEF Dia!GivenBack
    <3> QED
      BY <2>2, <2>4, <2>6, <3>2
  <2>7. CASE n # 1
    <3>1. n - 1 \in 1..(n - 1) /\ n - 1 \in 1..n /\ 1 \in 1..(n - 1) /\ n \in 1..n
      <4>1. n \in Nat \ {0, 1}
        BY <1>2, <2>7
      <4> HIDE DEF n
      <4> QED
        BY <4>1
    <3>2. focus' \in {s[n - 1].overlay, "body"}
      BY <2>2, <2>3, <2>5, <2>7, <3>1
    <3>3. ASSUME NEW i \in 1..(n - 1), i # 1 PROVE s[i].restoreTo \in {s[i - 1].overlay, "body"}
      <4>1. i - 1 \in 1..(n - 1) /\ i \in 1..n
        BY <1>2, <3>3
      <4> QED
        BY <2>2, <2>3, <3>3, <4>1
    <3> QED
      BY <1>1, <2>2, <2>3, <2>4, <2>7, <3>1, <3>2, <3>3
  <2> QED
    BY <2>6, <2>7
<1> QED
  BY <1>6, <1>7, <1>8, <1>9 DEF DiaInv

(* An overlay that is displayed lies over all others: the one that comes   *)
(* last in the page.                                                       *)
LEMMA InFrontIs == ASSUME shown \subseteq Dia!Overlay, shown # {} PROVE Dia!InFront \in shown
<1>1. /\ Dia!Depth("prompt") = 1 /\ Dia!Depth("update") = 2 /\ Dia!Depth("alert") = 3
      /\ Dia!Depth("qr") = 4 /\ Dia!Depth("dns") = 5
  BY DEF Dia!Depth, Dia!Overlays
<1>2. \E o \in shown : \A p \in shown : Dia!Depth(p) <= Dia!Depth(o)
  <2>1. \A p \in shown : p \in {"prompt", "update", "alert", "qr", "dns"}
    BY OverlayIs
  <2> QED
    BY <1>1, <2>1
<1> QED
  BY <1>2 DEF Dia!InFront

(* Steps that open or close nothing.                                       *)
LEMMA FocusSteps ==
    ASSUME DiaInv, Dia!ClickBackdrop \/ Dia!Tab \/ Dia!MoveFocus
    PROVE  DiaInv'
<1>1. /\ UNCHANGED <<dialogStack, shown, handler, opened, pending, dialogMishaps, download, told, listening>>
      /\ home' \in Dia!Places /\ focus' \in Dia!Places
  <2>1. \A i \in Positions(dialogStack) : dialogStack[i].overlay \in Dia!Places
    BY StackIs DEF Dia!Places
  <2>2. CASE Dia!Tab
    <3>1. Len(dialogStack) \in Positions(dialogStack) /\ Dia!Last(dialogStack) = dialogStack[Len(dialogStack)]
      BY <2>2, StackIs DEF Dia!Tab, Dia!Last, Positions
    <3> QED
      BY <2>1, <2>2, <3>1 DEF Dia!Tab, Dia!dialogVars, Dia!DownloadKeeps, DiaInv, Dia!TypeOK
  <2>3. CASE Dia!ClickBackdrop \/ Dia!MoveFocus
    BY <2>3 DEF Dia!ClickBackdrop, Dia!MoveFocus, Dia!dialogVars, Dia!DownloadKeeps, Dia!Places,
                DiaInv, Dia!TypeOK
  <2> QED
    BY <2>2, <2>3
<1>2. Dia!TypeOK' /\ NamesOK' /\ StackOK'
  BY <1>1 DEF DiaInv, Dia!TypeOK, NamesOK, StackOK
<1>3. FocusOK'
  <2> SUFFICES ASSUME dialogMishaps \cap {"reused", "overtaken"} = {}
               PROVE  /\ home' \in {"page", "body"}
                      /\ dialogStack = <<>> => focus' = home'
                      /\ dialogStack # <<>> =>
                            /\ dialogStack[1].restoreTo = home'
                            /\ focus' \in {dialogStack[Len(dialogStack)].overlay, "body"}
    BY <1>1 DEF DiaInv, FocusOK
  <2>1. CASE Dia!MoveFocus
    BY <2>1 DEF Dia!MoveFocus, DiaInv, FocusOK
  <2>2. CASE Dia!Tab
    <3>1. home' = home /\ dialogStack # <<>> /\ focus' = Dia!Last(dialogStack).overlay
      BY <2>2 DEF Dia!Tab, Dia!dialogVars
    <3> QED
      BY <3>1 DEF DiaInv, FocusOK, Dia!Last
  <2>3. CASE Dia!ClickBackdrop
    <3>1. home' = home /\ focus' = "body" /\ shown # {}
      BY <2>3 DEF Dia!ClickBackdrop, Dia!dialogVars
    <3>2. dialogStack # <<>>
      <4>1. \E i \in Positions(dialogStack) : TRUE
        BY <3>1 DEF DiaInv, StackOK
      <4> QED
        BY <4>1, StackIs DEF Positions
    <3> QED
      BY <3>1, <3>2 DEF DiaInv, FocusOK
  <2> QED
    BY <2>1, <2>2, <2>3
<1> QED
  BY <1>2, <1>3 DEF DiaInv

LEMMA DownloadSteps ==
    ASSUME DiaInv, UNCHANGED <<dialogStack, shown, handler, opened, pending, home, focus, dialogMishaps>>,
           DownloadOK'
    PROVE  DiaInv'
BY DEF DiaInv, Dia!TypeOK, NamesOK, StackOK, FocusOK, DownloadOK

LEMMA DiaNext == ASSUME DiaInv, Dia!Next PROVE DiaInv'
<1>0. /\ DownloadOK /\ shown \subseteq Dia!Overlay
      /\ (shown # {} => Dia!InFront \in Dia!Overlay)
  <2>1. DownloadOK /\ shown \subseteq Dia!Overlay
    BY DEF DiaInv, Dia!TypeOK, DownloadOK
  <2>2. ASSUME shown # {} PROVE Dia!InFront \in shown
    BY <2>1, <2>2, InFrontIs
  <2> QED
    BY <2>1, <2>2
<1>1. ASSUME NEW o \in Dia!Overlay, Dia!OpenFromPage(o) PROVE DiaInv'
  BY <1>0, <1>1, OpenKeeps DEF Dia!OpenFromPage, DownloadOK
<1>2. CASE Dia!showAlert \/ Dia!showUpdateModal
  BY <1>0, <1>2, OpenKeeps, OverlayIs DEF Dia!showAlert, Dia!showUpdateModal, DownloadOK
<1>3. CASE Dia!ClickClose
  BY <1>0, <1>3, CloseKeeps DEF Dia!ClickClose, Dia!DownloadKeeps, DownloadOK
<1>4. CASE Dia!Escape
  <2>1. Dia!Last(dialogStack).overlay \in Dia!Overlay
    BY <1>0, <1>4 DEF Dia!Escape, Dia!EscapeReaches
  <2> QED
    BY <1>0, <1>4, <2>1, CloseKeeps DEF Dia!Escape, Dia!DownloadKeeps, DownloadOK
<1>5. CASE Dia!UpdateNow
  <2>1. CASE Dia!Close("update") /\ Dia!DownloadKeeps
    BY <1>0, <2>1, CloseKeeps, OverlayIs DEF Dia!DownloadKeeps, DownloadOK
  <2>2. CASE download' = "running" /\ listening' = TRUE
             /\ UNCHANGED <<told, Dia!dialogVars, focus, dialogMishaps>>
    BY <1>0, <2>2, DownloadSteps DEF Dia!dialogVars, DownloadOK
  <2> QED
    BY <1>5, <2>1, <2>2 DEF Dia!UpdateNow
<1>6. CASE Dia!DownloadFails \/ Dia!DownloadVerified \/ Dia!InstallerStarts \/ Dia!InstallerDenied
  <2>1. /\ download' \in {"failed", "verified", "installing", "denied"} /\ UNCHANGED listening
        /\ \/ UNCHANGED told
           \/ \E e \in {"complete", "error"} : told' = Append(told, e)
        /\ UNCHANGED <<dialogStack, shown, handler, opened, pending, home, focus, dialogMishaps>>
    BY <1>6 DEF Dia!DownloadFails, Dia!DownloadVerified, Dia!InstallerStarts, Dia!InstallerDenied,
                Dia!Emit, Dia!dialogVars
  <2>2. DownloadOK'
    BY <1>0, <2>1 DEF DownloadOK
  <2> QED
    BY <2>1, <2>2, DownloadSteps
<1>7. CASE Dia!OnUpdateEvent
  <2>1. /\ told # <<>> /\ told' = Tail(told) /\ listening' = FALSE /\ UNCHANGED download
        /\ UNCHANGED <<dialogStack, shown, handler, opened, pending, home, focus, dialogMishaps>>
    BY <1>7 DEF Dia!OnUpdateEvent, Dia!dialogVars
  <2>2. Tail(told) \in Seq({"complete", "error"})
    BY <1>0, <2>1, HeadTailProperties DEF DownloadOK
  <2>3. DownloadOK'
    BY <1>0, <2>1, <2>2 DEF DownloadOK
  <2> QED
    BY <2>1, <2>3, DownloadSteps
<1>8. CASE Dia!CloseWhenComplete
  BY <1>0, <1>8, CloseKeeps, OverlayIs DEF Dia!CloseWhenComplete, Dia!DownloadKeeps, DownloadOK
<1> QED
  BY <1>1, <1>2, <1>3, <1>4, <1>5, <1>6, <1>7, <1>8, FocusSteps DEF Dia!Next

THEOREM DialogsCorrect == Dia!Spec => []DiaInv
<1>1. Dia!Init => DiaInv
  <2> SUFFICES ASSUME Dia!Init PROVE DiaInv
    OBVIOUS
  <2>1. /\ Len(dialogStack) = 0 /\ dialogStack \in Seq(Dia!Entries) /\ told \in Seq({"complete", "error"})
        /\ MaxDialogs \in Nat /\ dialogStack = <<>>
    BY PagePartsAssumption DEF Dia!Init, Dia!DialogsAssumption
  <2>2. Dia!TypeOK
    <3>1. handler \in [Dia!Overlay -> {0} \cup Dia!Ids] /\ 0 \in 0..MaxDialogs /\ focus \in Dia!Places
      BY <2>1 DEF Dia!Init, Dia!Places
    <3>2. Len(dialogStack) <= MaxDialogs
      BY <2>1
    <3> QED
      BY <2>1, <3>1, <3>2 DEF Dia!Init, Dia!TypeOK
  <2>3. NamesOK /\ StackOK /\ FocusOK
    BY <2>1 DEF Dia!Init, NamesOK, StackOK, FocusOK, Positions
  <2> QED
    BY <2>2, <2>3 DEF DiaInv
<1>2. DiaInv /\ [Dia!Next]_(Dia!vars) => DiaInv'
  <2> SUFFICES ASSUME DiaInv, [Dia!Next]_(Dia!vars) PROVE DiaInv'
    OBVIOUS
  <2>1. CASE UNCHANGED Dia!vars
    <3>1. DownloadOK
      BY DEF DiaInv, Dia!TypeOK, DownloadOK
    <3> QED
      BY <2>1, <3>1, DownloadSteps DEF Dia!vars, Dia!dialogVars, DownloadOK
  <2> QED
    BY <2>1, DiaNext
<1> QED
  BY <1>1, <1>2, PTL DEF Dia!Spec

(* Every dialog can be answered unless its overlay was opened twice; the   *)
(* focus comes back unless, besides, one was closed below another; and the *)
(* camera is the dialog's unless permission for it came late.              *)
THEOREM DialogsEndCorrect == Dia!Spec /\ Cam!Spec => []DialogsEnd
<1>1. DiaInv => Dia!EveryDialogCanEnd /\ Dia!FocusComesBack
  <2> SUFFICES ASSUME DiaInv PROVE Dia!EveryDialogCanEnd /\ Dia!FocusComesBack
    OBVIOUS
  <2>1. Dia!ToSet(dialogStack) = {dialogStack[i] : i \in Positions(dialogStack)}
    BY StackIs DEF Dia!ToSet, Positions
  <2>2. Dia!EveryDialogCanEnd
    <3> SUFFICES ASSUME "reused" \notin dialogMishaps
                 PROVE  /\ {d.id : d \in Dia!ToSet(dialogStack)} = pending
                        /\ \A d \in Dia!ToSet(dialogStack) :
                              d.overlay \in shown /\ handler[d.overlay] = d.id
                        /\ shown = {d.overlay : d \in Dia!ToSet(dialogStack)}
      BY DEF Dia!EveryDialogCanEnd
    <3>1. /\ \A d \in Dia!ToSet(dialogStack) :
                d.id \in pending /\ d.overlay \in shown /\ handler[d.overlay] = d.id
          /\ \A p \in pending : \E d \in Dia!ToSet(dialogStack) : d.id = p
          /\ \A o \in shown : \E d \in Dia!ToSet(dialogStack) : d.overlay = o
      BY <2>1 DEF DiaInv, StackOK
    <3> QED
      BY <3>1
  <2>3. Dia!FocusComesBack
    BY DEF Dia!FocusComesBack, DiaInv, FocusOK
  <2> QED
    BY <2>2, <2>3
<1> QED
  BY <1>1, CamInvGives, DialogsCorrect, CameraCorrect, PTL DEF DialogsEnd

(***************************************************************************)
(* The history.                                                            *)
(***************************************************************************)
Kept == His!Sessions \ removed

(* Lists are numbered in the order in which the page sent them.            *)
ListsOK ==
    /\ \A s \in saves : s.id <= lists
    /\ \A s, t \in saves : s.id = t.id => s = t

(* Old records are sent once at a time, and leave the page's storage only  *)
(* when they are written.                                                  *)
MovesOK ==
    /\ \A s \in saves : s.move => phase = "moving" /\ s.list = legacy
    /\ \A s, t \in saves : s.move /\ t.move => s = t

(* While nothing has gone wrong the sessions are in the file until the     *)
(* page has read it, and from then on in the page's list and in the last   *)
(* list it has sent.                                                       *)
KeptSafe ==
    /\ phase \in {"reading", "read"} => saves = {} /\ Kept \subseteq historyFile
    /\ phase = "read" => answer = historyFile
    /\ phase = "moving" => Kept = {} /\ \A s \in saves : s.move
    /\ phase = "open" =>
         /\ Kept \subseteq historyCache
         /\ saves = {} => Kept \subseteq historyFile
         /\ saves # {} => \E s \in saves : s.id = lists /\ Kept \subseteq s.list
KeptOK == historyMishaps \subseteq {"notMoved"} => KeptSafe

HisInv == His!TypeOK /\ ListsOK /\ MovesOK /\ KeptOK

LEMMA HisConstants == /\ MaxRecords \in Nat /\ MaxLoads \in Nat /\ MaxLists \in Nat
                      /\ {} \subseteq His!Records /\ LegacyRecords \subseteq His!Records
                      /\ StoredRecords \subseteq His!Records /\ 1..MaxRecords \subseteq His!Records
  BY PagePartsAssumption DEF His!HistoryAssumption, His!Records

(* A list that is sent is the newest.                                      *)
LEMMA SendIs ==
  ASSUME HisInv, NEW list \in SUBSET His!Records, NEW move \in BOOLEAN, His!Send(list, move)
  PROVE  /\ lists' = lists + 1 /\ lists' \in 0..MaxLists
         /\ saves' \in SUBSET [id: 1..MaxLists, list: SUBSET His!Records, move: BOOLEAN]
         /\ ListsOK'
         /\ \E s \in saves' : s.id = lists' /\ s.list = list /\ s.move = move
                              /\ saves' = saves \cup {s}
<1> DEFINE new == [id |-> lists + 1, list |-> list, move |-> move]
<1>1. /\ lists < MaxLists /\ lists' = lists + 1 /\ saves' = saves \cup {new}
      /\ lists \in 0..MaxLists /\ MaxLists \in Nat
      /\ saves \subseteq [id: 1..MaxLists, list: SUBSET His!Records, move: BOOLEAN]
  BY HisConstants DEF His!Send, His!Save, HisInv, His!TypeOK
<1>2. new \in [id: 1..MaxLists, list: SUBSET His!Records, move: BOOLEAN]
      /\ new.id = lists + 1 /\ new.list = list /\ new.move = move
  BY <1>1
<1> HIDE DEF new
<1>3. \A s \in saves : s.id \in 1..MaxLists /\ s.id <= lists
  BY <1>1 DEF HisInv, ListsOK
<1>4. \A s \in saves' : s.id <= lists'
  BY <1>1, <1>2, <1>3
<1>5. \A s, t \in saves' : s.id = t.id => s = t
  <2> SUFFICES ASSUME NEW s \in saves', NEW t \in saves', s.id = t.id PROVE s = t
    OBVIOUS
  <2>1. CASE s \in saves /\ t \in saves
    BY <2>1 DEF HisInv, ListsOK
  <2>2. CASE s = new \/ t = new
    BY <2>2, <1>1, <1>2, <1>3
  <2> QED
    BY <2>1, <2>2, <1>1
<1> QED
  BY <1>1, <1>2, <1>4, <1>5 DEF ListsOK

(* What the page sends of its own: the list it holds from then on.         *)
LEMMA SaveKeeps ==
  ASSUME HisInv, NEW list \in SUBSET His!Records, His!saveHistory(list),
         UNCHANGED <<phase, answer, legacy, historyFile, loads>>,
         ended' \in 0..MaxRecords, removed' \in SUBSET His!Records,
         phase = "open" => Kept' \subseteq list \/ ~(Kept \subseteq historyCache)
  PROVE  HisInv'
<1>1. /\ historyCache' = list /\ His!Send(list, FALSE)
      /\ historyMishaps' = (IF phase = "open" THEN historyMishaps
                            ELSE historyMishaps \cup {"early"})
  BY DEF His!saveHistory, His!Early
<1>2. PICK s \in saves' : s.id = lists' /\ s.list = list /\ s.move = FALSE
                          /\ saves' = saves \cup {s}
  BY <1>1, SendIs
<1>3. His!TypeOK' /\ ListsOK'
  BY <1>1, SendIs DEF HisInv, His!TypeOK, His!Mishap
<1>4. MovesOK'
  BY <1>2 DEF HisInv, MovesOK
<1>5. KeptOK'
  BY <1>1, <1>2 DEF HisInv, KeptOK, KeptSafe
<1> QED
  BY <1>3, <1>4, <1>5 DEF HisInv

LEMMA HistorySteps ==
  /\ HisInv /\ His!RecordSession => HisInv'
  /\ \A e \in historyCache : HisInv /\ His!DeleteEntry(e) => HisInv'
  /\ HisInv /\ His!ClearHistory => HisInv'
<1>1. ASSUME HisInv, His!RecordSession PROVE HisInv'
  <2>1. /\ ended \in 0..MaxRecords /\ ended < MaxRecords /\ ended' = ended + 1
        /\ removed' = removed /\ MaxRecords \in Nat
    BY <1>1, HisConstants DEF His!RecordSession, HisInv, His!TypeOK
  <2>2. ended' \in 0..MaxRecords /\ ended + 1 \in 1..MaxRecords
        /\ His!Sessions' \subseteq His!Sessions \cup {ended + 1}
    BY <2>1 DEF His!Sessions
  <2>3. historyCache \cup {ended + 1} \in SUBSET His!Records /\ removed' \in SUBSET His!Records
    BY <1>1, <2>1, <2>2, HisConstants DEF HisInv, His!TypeOK
  <2>4. Kept' \subseteq Kept \cup {ended + 1}
    BY <2>1, <2>2 DEF Kept
  <2> QED
    BY <1>1, <2>2, <2>3, <2>4, SaveKeeps DEF His!RecordSession
<1>2. ASSUME NEW e \in historyCache, HisInv, His!DeleteEntry(e) PROVE HisInv'
  <2>1. historyCache \ {e} \in SUBSET His!Records /\ removed' = removed \cup {e}
        /\ removed' \in SUBSET His!Records /\ ended' \in 0..MaxRecords /\ ended' = ended
    BY <1>2 DEF His!DeleteEntry, HisInv, His!TypeOK
  <2>2. Kept' \subseteq Kept \ {e}
    BY <2>1 DEF Kept, His!Sessions
  <2> QED
    BY <1>2, <2>1, <2>2, SaveKeeps DEF His!DeleteEntry
<1>3. ASSUME HisInv, His!ClearHistory PROVE HisInv'
  <2>1. {} \in SUBSET His!Records /\ removed' = removed \cup historyCache
        /\ removed' \in SUBSET His!Records /\ ended' \in 0..MaxRecords /\ ended' = ended
    BY <1>3 DEF His!ClearHistory, HisInv, His!TypeOK
  <2>2. Kept' \subseteq Kept \ historyCache
    BY <2>1 DEF Kept, His!Sessions
  <2> QED
    BY <1>3, <2>1, <2>2, SaveKeeps DEF His!ClearHistory
<1> QED
  BY <1>1, <1>2, <1>3

(* Go writes a list: the newest of those that are left, or a mishap.       *)
LEMMA WriteKeeps == ASSUME HisInv, NEW s \in saves, His!SaveHistory(s) PROVE HisInv'
<1>1. /\ saves' = saves \ {s} /\ UNCHANGED <<answer, ended, loads, lists, removed>>
      /\ saves \subseteq [id: 1..MaxLists, list: SUBSET His!Records, move: BOOLEAN]
      /\ s.list \in SUBSET His!Records /\ s.move \in BOOLEAN
      /\ Kept' = Kept
  BY DEF His!SaveHistory, HisInv, His!TypeOK, Kept, His!Sessions
<1>2. ListsOK'
  BY <1>1 DEF HisInv, ListsOK
<1>3. CASE s.move
  <2>1. /\ phase = "moving" /\ s.list = legacy /\ phase' = "open"
        /\ \A t \in saves' : ~t.move
    BY <1>1, <1>3 DEF HisInv, MovesOK, His!SaveHistory
  <2>2. /\ \/ historyFile' = s.list /\ historyCache' = legacy /\ legacy' = {}
           \/ UNCHANGED <<historyFile, historyCache, legacy>>
        /\ historyMishaps' \subseteq historyMishaps \cup {"crossed", "notMoved"}
        /\ historyMishaps \subseteq historyMishaps'
    BY <1>3 DEF His!SaveHistory
  <2>3. His!TypeOK'
    BY <1>1, <2>1, <2>2 DEF HisInv, His!TypeOK, His!Mishap
  <2>4. KeptOK'
    BY <1>1, <2>1, <2>2 DEF HisInv, KeptOK, KeptSafe
  <2> QED
    BY <1>2, <2>1, <2>3, <2>4 DEF HisInv, MovesOK
<1>4. CASE ~s.move
  <2>1. UNCHANGED <<historyCache, legacy, phase>>
    BY <1>4 DEF His!SaveHistory
  <2>2. \/ /\ historyFile' = s.list
           /\ historyMishaps' = IF \E t \in saves : t.id < s.id
                                THEN historyMishaps \cup {"crossed"} ELSE historyMishaps
        \/ historyFile' = historyFile /\ historyMishaps' = historyMishaps \cup {"failed"}
    BY <1>4 DEF His!SaveHistory
  <2>3. His!TypeOK'
    BY <1>1, <2>1, <2>2 DEF HisInv, His!TypeOK, His!Mishap
  <2>4. MovesOK'
    BY <1>1, <2>1 DEF HisInv, MovesOK
  <2>5. KeptOK'
    <3> SUFFICES ASSUME historyMishaps' \subseteq {"notMoved"} PROVE KeptSafe'
      BY DEF KeptOK
    <3>1. /\ historyFile' = s.list /\ historyMishaps' = historyMishaps
          /\ \A t \in saves : ~(t.id < s.id)
      BY <2>2
    <3>2. phase = "open"
      BY <1>4, <2>3, <3>1, <2>1 DEF HisInv, KeptOK, KeptSafe, His!TypeOK
    <3>3. PICK n \in saves : n.id = lists /\ Kept \subseteq n.list
      BY <3>1, <3>2 DEF HisInv, KeptOK, KeptSafe
    <3>4. \A t \in saves : t.id <= lists /\ t.id \in Nat
      BY <1>1 DEF HisInv, ListsOK
    <3>5. Kept \subseteq historyCache
      BY <3>1, <3>2 DEF HisInv, KeptOK, KeptSafe
    <3>6. CASE s = n
      <4>1. \A t \in saves : t.id = n.id
        BY <3>1, <3>3, <3>4, <3>6
      <4>2. saves' = {}
        BY <4>1, <3>6, <1>1 DEF HisInv, ListsOK
      <4> QED
        BY <4>2, <3>1, <3>2, <3>3, <3>5, <3>6, <1>1, <2>1 DEF KeptSafe
    <3>7. CASE s # n
      <4>1. n \in saves' /\ n.id = lists' /\ Kept' \subseteq n.list
        BY <3>7, <3>3, <1>1
      <4> QED
        BY <4>1, <3>1, <3>2, <3>5, <1>1, <2>1 DEF KeptSafe
    <3> QED
      BY <3>6, <3>7
  <2> QED
    BY <1>2, <2>3, <2>4, <2>5 DEF HisInv
<1> QED
  BY <1>1, <1>3, <1>4

(* The page reads the file and, once it has, moves old records or drops    *)
(* them; a page that starts anew begins so.                                *)
LEMMA ReadKeeps ==
  /\ HisInv /\ His!GetHistory => HisInv'
  /\ HisInv /\ His!ReadArrives => HisInv'
  /\ HisInv /\ His!Restart => HisInv'
<1>1. ASSUME HisInv, His!GetHistory PROVE HisInv'
  <2>1. /\ phase = "reading" /\ phase' = "read" /\ Kept' = Kept
        /\ UNCHANGED <<historyCache, legacy, historyFile, saves, ended, loads, lists, removed>>
    BY <1>1 DEF His!GetHistory, Kept, His!Sessions
  <2>2. \/ answer' = historyFile /\ historyMishaps' = historyMishaps
        \/ answer' = {} /\ historyMishaps' = historyMishaps \cup {"unread"}
    BY <1>1 DEF His!GetHistory
  <2>3. His!TypeOK'
    BY <1>1, <2>1, <2>2 DEF HisInv, His!TypeOK, His!Mishap
  <2>4. KeptOK'
    <3> SUFFICES ASSUME historyMishaps' \subseteq {"notMoved"}
                 PROVE  saves = {} /\ Kept \subseteq historyFile /\ answer' = historyFile
      BY <2>1 DEF KeptOK, KeptSafe
    <3>1. answer' = historyFile /\ historyMishaps' = historyMishaps
      BY <2>2
    <3> QED
      BY <1>1, <2>1, <3>1 DEF HisInv, KeptOK, KeptSafe
  <2> QED
    BY <1>1, <2>1, <2>3, <2>4 DEF HisInv, ListsOK, MovesOK
<1>2. ASSUME HisInv, His!ReadArrives PROVE HisInv'
  <2>1. /\ phase = "read" /\ historyCache' = answer /\ Kept' = Kept
        /\ UNCHANGED <<answer, historyFile, ended, loads, removed, historyMishaps>>
        /\ answer \in SUBSET His!Records /\ legacy \in {{}, LegacyRecords}
        /\ \A s \in saves : ~s.move
    BY <1>2 DEF His!ReadArrives, Kept, His!Sessions, HisInv, His!TypeOK, MovesOK
  <2>2. CASE answer = {} /\ legacy # {}
    <3>1. phase' = "moving" /\ His!Send(legacy, TRUE) /\ legacy' = legacy
      BY <1>2, <2>2 DEF His!ReadArrives
    <3>2. legacy \in SUBSET His!Records
      BY <2>1, HisConstants
    <3>3. PICK s \in saves' : s.id = lists' /\ s.list = legacy /\ s.move = TRUE
                              /\ saves' = saves \cup {s}
      BY <1>2, <3>1, <3>2, SendIs
    <3>4. His!TypeOK' /\ ListsOK'
      BY <1>2, <2>1, <3>1, <3>2, SendIs DEF HisInv, His!TypeOK
    <3>5. MovesOK'
      BY <2>1, <3>1, <3>3 DEF MovesOK
    <3>6. KeptOK'
      <4> SUFFICES ASSUME historyMishaps' \subseteq {"notMoved"}
                   PROVE  Kept' = {} /\ \A t \in saves' : t.move
        BY <3>1 DEF KeptOK, KeptSafe
      <4>1. saves = {} /\ Kept \subseteq {}
        BY <1>2, <2>1, <2>2 DEF HisInv, KeptOK, KeptSafe
      <4> QED
        BY <4>1, <2>1, <3>3
    <3> QED
      BY <3>4, <3>5, <3>6 DEF HisInv
  <2>3. CASE ~(answer = {} /\ legacy # {})
    <3>1. phase' = "open" /\ legacy' = {} /\ UNCHANGED <<saves, lists>>
      BY <1>2, <2>3 DEF His!ReadArrives
    <3>2. His!TypeOK'
      BY <1>2, <2>1, <3>1 DEF HisInv, His!TypeOK
    <3>3. KeptOK'
      BY <1>2, <2>1, <3>1 DEF HisInv, KeptOK, KeptSafe
    <3> QED
      BY <1>2, <2>1, <3>1, <3>2, <3>3 DEF HisInv, ListsOK, MovesOK
  <2> QED
    BY <2>2, <2>3
<1>3. ASSUME HisInv, His!Restart PROVE HisInv'
  <2>1. /\ phase' = "reading" /\ answer' = {} /\ historyCache' = {} /\ saves' = {}
        /\ loads < MaxLoads /\ loads' = loads + 1 /\ Kept' = Kept
        /\ UNCHANGED <<legacy, historyFile, ended, lists, removed>>
        /\ historyMishaps' = (IF \E s \in saves : ~s.move THEN historyMishaps \cup {"cut"}
                              ELSE historyMishaps)
    BY <1>3 DEF His!Restart, Kept, His!Sessions
  <2>2. loads' \in 0..MaxLoads
    BY <1>3, <2>1, HisConstants DEF HisInv, His!TypeOK
  <2>3. His!TypeOK'
    BY <1>3, <2>1, <2>2 DEF HisInv, His!TypeOK, His!Mishap
  <2>4. KeptOK'
    <3> SUFFICES ASSUME historyMishaps' \subseteq {"notMoved"} PROVE Kept \subseteq historyFile
      BY <2>1 DEF KeptOK, KeptSafe
    <3>1. (\A s \in saves : s.move) /\ historyMishaps \subseteq {"notMoved"}
      BY <2>1
    <3>2. phase \in {"reading", "read", "moving", "open"}
      BY <1>3 DEF HisInv, His!TypeOK
    <3>3. phase = "open" => saves = {}
      BY <1>3, <3>1 DEF HisInv, MovesOK
    <3> QED
      BY <1>3, <3>1, <3>2, <3>3 DEF HisInv, KeptOK, KeptSafe
  <2> QED
    BY <2>1, <2>3, <2>4 DEF HisInv, ListsOK, MovesOK
<1> QED
  BY <1>1, <1>2, <1>3

THEOREM HistoryCorrect == His!Spec => []HisInv
<1>1. His!Init => HisInv
  <2> SUFFICES ASSUME His!Init PROVE HisInv
    OBVIOUS
  <2>1. His!TypeOK
    BY HisConstants DEF His!Init, His!TypeOK
  <2>2. Kept = {}
    BY DEF His!Init, Kept, His!Sessions
  <2> QED
    BY <2>1, <2>2 DEF His!Init, HisInv, ListsOK, MovesOK, KeptOK, KeptSafe
<1>2. HisInv /\ [His!Next]_(His!vars) => HisInv'
  <2> SUFFICES ASSUME HisInv, [His!Next]_(His!vars) PROVE HisInv'
    OBVIOUS
  <2>1. CASE UNCHANGED His!vars
    BY <2>1 DEF His!vars, HisInv, His!TypeOK, ListsOK, MovesOK, KeptOK, KeptSafe, Kept, His!Sessions
  <2> QED
    BY <2>1, HistorySteps, WriteKeeps, ReadKeeps DEF His!Next
<1> QED
  BY <1>1, <1>2, PTL DEF His!Spec

(* Sessions are kept over restarts, and a step that takes old records out  *)
(* of the page's storage finds them, or a history, in the file.            *)
THEOREM HistoryKept == His!Spec => HistoryIsKept
<1>1. HisInv => His!SessionsKept
  <2> SUFFICES ASSUME HisInv, saves = {}, historyMishaps \subseteq {"notMoved"}
               PROVE  Kept \subseteq historyFile
    BY DEF His!SessionsKept, Kept
  <2> QED
    BY DEF HisInv, His!TypeOK, KeptOK, KeptSafe
<1>2. HisInv /\ [His!Next]_(His!vars) => [His!MovesOver]_hisVars
  <2> SUFFICES ASSUME HisInv, His!Next, legacy # legacy'
               PROVE  legacy \subseteq historyFile' \/ answer # {}
    BY DEF His!MovesOver, hisVars, His!vars
  <2>1. ASSUME NEW s \in saves, His!SaveHistory(s) PROVE legacy \subseteq historyFile'
    <3>1. s.move /\ historyFile' = s.list
      BY <2>1 DEF His!SaveHistory
    <3> QED
      BY <3>1 DEF HisInv, MovesOK
  <2>2. ASSUME His!ReadArrives PROVE answer # {}
    BY <2>2 DEF His!ReadArrives
  <2> QED
    BY <2>1, <2>2 DEF His!Next, His!GetHistory, His!RecordSession, His!ClearHistory,
                      His!DeleteEntry, His!Restart
<1> QED
  BY <1>1, <1>2, HistoryCorrect, PTL DEF His!Spec, HistoryIsKept

(***************************************************************************)
(* Whether the window is seen.                                             *)
(***************************************************************************)
NoEmit == \A p \in procs : p.next # "emit"
ToBeMarked == \E p \in procs : p.next = "mark" /\ p.what = "restored"

(* Unless two handlers of Go met at opposite events: Go's word is that of  *)
(* the event it sends next, or has sent last; and a window that Go takes   *)
(* for hidden and the page does not is hidden, or about to be marked.      *)
WordOK == ~crossed =>
    /\ \A p \in procs : p.next = "emit" => goVisible = (p.what = "restored")
    /\ NoEmit /\ mail # <<>> => goVisible = (mail[Len(mail)] = "restored")
    /\ NoEmit /\ mail = <<>> /\ ~view.thinksHidden /\ ~goVisible =>
         (os = "hidden" /\ leaving = {}) \/ ToBeMarked

(* Since a focus event met a quiet system nothing but good news is on its  *)
(* way, and some is while the page still believes in the tray.             *)
AwakeOK == awake =>
    /\ os = "shown" /\ leaving = {} /\ view.uiActive
    /\ \A p \in procs : p.what = "restored"
    /\ \A i \in 1..Len(mail) : mail[i] = "restored"
    /\ view.thinksHidden => procs # {} \/ mail # <<>>

FadeOK == leaving = {} => ~view.faded

ScrInv == /\ Scr!TypeOK /\ WordOK /\ AwakeOK /\ FadeOK
          /\ Scr!OnlyWhileSeen /\ Scr!NoGhosts

Tabs == [tab: {"home", "connections"}, state: {"off", "connecting", "on"},
         timer: BOOLEAN, tun: BOOLEAN, polling: BOOLEAN, inFlight: BOOLEAN,
         rows: 0..MaxCores, last: Scr!Snapshots]
Working(t, active) ==
    /\ t.timer => active /\ t.state # "off"
    /\ t.tun => active /\ t.state = "on"
    /\ active /\ t.state = "on" => t.timer /\ t.tun
    /\ t.polling = Scr!connectionsShouldPoll(t, active)
RowsOf(t) == t.rows # 0 => t.state = "on" /\ t.tab = "connections"

LEMMA ScrConstants == MaxCores \in Nat /\ MaxMoves \in Nat
                      /\ 0 \in 0..MaxCores /\ Scr!NoAnswer = MaxCores + 1
  BY PagePartsAssumption DEF Scr!ScreenAssumption, Scr!NoAnswer

(* Polling follows the tab, the window and the connection, and rows go     *)
(* with their connection.                                                  *)
LEMMA SyncIs ==
  ASSUME NEW t \in Tabs, NEW active \in BOOLEAN
  PROVE  LET r == Scr!syncConnectionsPolling(t, active)
         IN  /\ r \in Tabs /\ RowsOf(r) /\ r.tab = t.tab /\ r.state = t.state
             /\ r.timer = t.timer /\ r.tun = t.tun
             /\ r.polling = Scr!connectionsShouldPoll(r, active)
<1>1. /\ t.tab \in {"home", "connections"} /\ t.state \in {"off", "connecting", "on"}
      /\ t.rows \in 0..MaxCores /\ t.polling \in BOOLEAN /\ t.inFlight \in BOOLEAN
      /\ 0 \in 0..MaxCores
  BY ScrConstants DEF Tabs
<1>2. CASE Scr!connectionsShouldPoll(t, active)
  <2> DEFINE r == [t EXCEPT !.polling = TRUE, !.inFlight = @ \/ ~t.polling]
  <2>1. Scr!syncConnectionsPolling(t, active) = r
    BY <1>2 DEF Scr!syncConnectionsPolling
  <2>2. /\ r \in Tabs /\ r.tab = t.tab /\ r.state = t.state
        /\ r.timer = t.timer /\ r.tun = t.tun /\ r.polling = TRUE
    BY <1>1 DEF Tabs
  <2> HIDE DEF r
  <2> QED
    BY <1>2, <2>1, <2>2 DEF RowsOf, Scr!connectionsShouldPoll
<1>3. CASE ~Scr!connectionsShouldPoll(t, active) /\ t.tab = "connections" /\ t.state = "on"
  <2> DEFINE r == [t EXCEPT !.polling = FALSE]
  <2>1. Scr!syncConnectionsPolling(t, active) = r
    BY <1>3 DEF Scr!syncConnectionsPolling
  <2>2. /\ r \in Tabs /\ r.tab = t.tab /\ r.state = t.state
        /\ r.timer = t.timer /\ r.tun = t.tun /\ r.polling = FALSE
    BY <1>1 DEF Tabs
  <2> HIDE DEF r
  <2> QED
    BY <1>3, <2>1, <2>2 DEF RowsOf, Scr!connectionsShouldPoll
<1>4. CASE ~Scr!connectionsShouldPoll(t, active) /\ ~(t.tab = "connections" /\ t.state = "on")
  <2> DEFINE r == [[t EXCEPT !.polling = FALSE] EXCEPT !.rows = 0]
  <2>1. Scr!syncConnectionsPolling(t, active) = r
    BY <1>4 DEF Scr!syncConnectionsPolling, Scr!resetConnectionsView
  <2>2. /\ r \in Tabs /\ r.tab = t.tab /\ r.state = t.state
        /\ r.timer = t.timer /\ r.tun = t.tun /\ r.polling = FALSE /\ r.rows = 0
    BY <1>1 DEF Tabs
  <2> HIDE DEF r
  <2> QED
    BY <1>4, <2>1, <2>2 DEF RowsOf, Scr!connectionsShouldPoll
<1> QED
  BY <1>2, <1>3, <1>4

(* Timers, as the page starts and stops them.                              *)
LEMMA TimersAre ==
  ASSUME NEW t \in Tabs, NEW active \in BOOLEAN
  PROVE  /\ LET r == Scr!startLiveTimers(t, active)
            IN  /\ r \in Tabs /\ r.tab = t.tab /\ r.state = t.state
                /\ r.timer = (active /\ t.state = "on") /\ r.tun = (active /\ t.state = "on")
         /\ LET r == Scr!stopLiveTimers(t)
            IN  /\ r \in Tabs /\ r.tab = t.tab /\ r.state = t.state
                /\ r.timer = FALSE /\ r.tun = FALSE
  BY DEF Scr!startLiveTimers, Scr!stopLiveTimers, Tabs

LEMMA SetUiActiveIs ==
  ASSUME NEW t \in Tabs, NEW was \in BOOLEAN, NEW active \in BOOLEAN, Working(t, was)
  PROVE  LET r == Scr!setUiActive(t, was, active)
         IN  /\ r \in Tabs /\ Working(r, active)
             /\ RowsOf(t) => RowsOf(r)
<1>1. CASE was = active
  BY <1>1 DEF Scr!setUiActive
<1>2. CASE was # active
  <2> DEFINE s == IF active THEN Scr!startLiveTimers(t, TRUE) ELSE Scr!stopLiveTimers(t)
             r == Scr!syncConnectionsPolling(s, active)
  <2>1. Scr!setUiActive(t, was, active) = r
    BY <1>2 DEF Scr!setUiActive
  <2>2. /\ s \in Tabs /\ s.state = t.state
        /\ s.timer = (active /\ t.state = "on") /\ s.tun = (active /\ t.state = "on")
    BY TimersAre
  <2> HIDE DEF s
  <2>3. /\ r \in Tabs /\ RowsOf(r) /\ r.state = s.state /\ r.timer = s.timer /\ r.tun = s.tun
        /\ r.polling = Scr!connectionsShouldPoll(r, active)
    BY <2>2, SyncIs
  <2> HIDE DEF r
  <2>4. t.state \in {"off", "connecting", "on"}
    BY DEF Tabs
  <2> QED
    BY <2>1, <2>2, <2>3, <2>4 DEF Working
<1> QED
  BY <1>1, <1>2

LEMMA UpdateIs ==
  ASSUME NEW t \in Tabs, NEW active \in BOOLEAN, Working(t, active),
         NEW state \in {"off", "connecting", "on"}, state = "connecting" => t.state # "connecting"
  PROVE  LET r == Scr!updateAppInterface(t, active, state)
         IN  r \in Tabs /\ Working(r, active) /\ RowsOf(r)
<1> DEFINE s == [t EXCEPT !.state = state]
           u == CASE state = "on" -> Scr!startLiveTimers(s, active)
                  [] state = "connecting" -> [s EXCEPT !.tun = FALSE]
                  [] state = "off" -> Scr!stopLiveTimers(s)
           r == Scr!syncConnectionsPolling(u, active)
<1>1. Scr!updateAppInterface(t, active, state) = r
  BY DEF Scr!updateAppInterface
<1>2. s \in Tabs /\ s.state = state /\ s.timer = t.timer
  BY DEF Tabs
<1> HIDE DEF s
<1>3. /\ u \in Tabs /\ u.state = state
      /\ u.timer => active /\ u.state # "off"
      /\ u.tun => active /\ u.state = "on"
      /\ active /\ u.state = "on" => u.timer /\ u.tun
  <2>1. CASE state = "on"
    BY <2>1, <1>2, TimersAre
  <2>2. CASE state = "off"
    BY <2>2, <1>2, TimersAre
  <2>3. CASE state = "connecting"
    <3> DEFINE w == [s EXCEPT !.tun = FALSE]
    <3>1. u = w
      BY <2>3
    <3>2. w \in Tabs /\ w.state = state /\ w.timer = t.timer /\ w.tun = FALSE
      BY <1>2 DEF Tabs
    <3> HIDE DEF w, u
    <3> QED
      BY <2>3, <3>1, <3>2 DEF Working
  <2> QED
    BY <2>1, <2>2, <2>3
<1> HIDE DEF u
<1>4. /\ r \in Tabs /\ RowsOf(r) /\ r.state = u.state /\ r.timer = u.timer /\ r.tun = u.tun
      /\ r.polling = Scr!connectionsShouldPoll(r, active)
  BY <1>3, SyncIs
<1> HIDE DEF r
<1> QED
  BY <1>1, <1>3, <1>4 DEF Working

(* What a step that leaves the window alone has to keep.                   *)
TabsOK == tabs \in Tabs /\ Working(tabs, view.uiActive) /\ (~stirred => RowsOf(tabs))

LEMMA TabsAre == ASSUME Scr!TypeOK
                 PROVE  /\ tabs \in Tabs /\ view.uiActive \in BOOLEAN
                        /\ TabsOK <=> Scr!OnlyWhileSeen /\ Scr!NoGhosts
  BY DEF Scr!TypeOK, Tabs, Working, RowsOf, TabsOK, Scr!OnlyWhileSeen, Scr!NoGhosts

LEMMA WindowRests ==
  ASSUME ScrInv, UNCHANGED Scr!windowVars, TabsOK',
         screenCore' \in 0..MaxCores, cores' \in 0..MaxCores, snapshot' \in Scr!Snapshots,
         stirred' \in BOOLEAN
  PROVE  ScrInv'
<1>1. Scr!TypeOK'
  BY DEF ScrInv, Scr!TypeOK, Scr!windowVars, TabsOK, Tabs
<1>2. Scr!OnlyWhileSeen' /\ Scr!NoGhosts'
  BY <1>1 DEF Scr!TypeOK, Tabs, Working, RowsOf, TabsOK, Scr!OnlyWhileSeen, Scr!NoGhosts
<1>3. WordOK' /\ AwakeOK' /\ FadeOK'
  BY DEF ScrInv, WordOK, AwakeOK, FadeOK, NoEmit, ToBeMarked, Scr!windowVars
<1> QED
  BY <1>1, <1>2, <1>3 DEF ScrInv

(* The tab, the requests, the connection.                                  *)
PageStep ==
    \/ \E tab \in {"home", "connections"} : tab # tabs.tab /\ Scr!selectTab(tab)
    \/ Scr!Tick \/ Scr!GetConnections \/ Scr!Answered \/ Scr!setConnectionsSort
    \/ Scr!Connect \/ Scr!CoreStarts \/ Scr!CoreStops
    \/ \E state \in {"off", "connecting", "on"} : Scr!Told(state)

LEMMA PageKeeps == ScrInv /\ PageStep => ScrInv'
<1> SUFFICES ASSUME ScrInv, PageStep PROVE ScrInv'
  OBVIOUS
<1>1. /\ Scr!TypeOK /\ tabs \in Tabs /\ view.uiActive \in BOOLEAN /\ TabsOK
      /\ Working(tabs, view.uiActive) /\ (~stirred => RowsOf(tabs))
      /\ screenCore \in 0..MaxCores /\ cores \in 0..MaxCores /\ stirred \in BOOLEAN
      /\ snapshot \in Scr!Snapshots
  BY TabsAre DEF ScrInv, TabsOK, Scr!TypeOK
<1>2. MaxCores \in Nat /\ Scr!Snapshots = 0..(MaxCores + 1) /\ Scr!NoAnswer = MaxCores + 1
  BY ScrConstants DEF Scr!Snapshots
<1>3. ASSUME NEW tab \in {"home", "connections"}, Scr!selectTab(tab) PROVE ScrInv'
  <2> DEFINE t == [tabs EXCEPT !.tab = tab]
  <2>1. /\ tabs' = Scr!syncConnectionsPolling(t, view.uiActive)
        /\ UNCHANGED <<Scr!windowVars, screenCore, cores, snapshot, stirred>>
    BY <1>3 DEF Scr!selectTab
  <2>2. t \in Tabs /\ t.state = tabs.state /\ t.timer = tabs.timer /\ t.tun = tabs.tun
    BY <1>1 DEF Tabs
  <2> HIDE DEF t
  <2>3. /\ tabs' \in Tabs /\ RowsOf(tabs') /\ tabs'.state = t.state
        /\ tabs'.timer = t.timer /\ tabs'.tun = t.tun
        /\ tabs'.polling = Scr!connectionsShouldPoll(tabs', view.uiActive)
    BY <1>1, <2>1, <2>2, SyncIs
  <2>4. TabsOK'
    BY <1>1, <2>1, <2>2, <2>3 DEF TabsOK, Working, RowsOf, Scr!windowVars
  <2> QED
    BY <1>1, <2>1, <2>4, WindowRests
<1>4. ASSUME Scr!Tick PROVE ScrInv'
  <2>1. /\ tabs' = [tabs EXCEPT !.inFlight = TRUE]
        /\ UNCHANGED <<Scr!windowVars, screenCore, cores, snapshot, stirred>>
    BY <1>4 DEF Scr!Tick
  <2>2. TabsOK'
    BY <1>1, <2>1 DEF TabsOK, Tabs, Working, RowsOf, Scr!windowVars, Scr!connectionsShouldPoll
  <2> QED
    BY <1>1, <2>1, <2>2, WindowRests
<1>5. ASSUME Scr!GetConnections PROVE ScrInv'
  <2>1. snapshot' = screenCore /\ UNCHANGED <<Scr!windowVars, screenCore, cores, tabs, stirred>>
    BY <1>5 DEF Scr!GetConnections
  <2>2. TabsOK' /\ snapshot' \in Scr!Snapshots
    BY <1>1, <1>2, <2>1 DEF TabsOK, Working, RowsOf, Scr!windowVars
  <2> QED
    BY <1>1, <2>1, <2>2, WindowRests
<1>6. ASSUME Scr!Answered PROVE ScrInv'
  <2> DEFINE done == [tabs EXCEPT !.inFlight = FALSE]
             drawn == [done EXCEPT !.rows = snapshot, !.last = snapshot]
  <2>1. /\ tabs' = IF Scr!connectionsShouldPoll(tabs, view.uiActive) THEN drawn ELSE done
        /\ snapshot # Scr!NoAnswer /\ snapshot' = Scr!NoAnswer
        /\ UNCHANGED <<Scr!windowVars, screenCore, cores, stirred>>
    BY <1>6 DEF Scr!Answered, Scr!renderConnections
  <2>2. snapshot \in 0..MaxCores /\ snapshot' \in Scr!Snapshots
    BY <1>1, <1>2, <2>1
  <2>3. /\ done \in Tabs /\ done.tab = tabs.tab /\ done.state = tabs.state
        /\ done.timer = tabs.timer /\ done.tun = tabs.tun /\ done.polling = tabs.polling
        /\ done.rows = tabs.rows
    BY <1>1 DEF Tabs
  <2>4. /\ drawn \in Tabs /\ drawn.tab = tabs.tab /\ drawn.state = tabs.state
        /\ drawn.timer = tabs.timer /\ drawn.tun = tabs.tun /\ drawn.polling = tabs.polling
    BY <1>1, <2>2 DEF Tabs
  <2> HIDE DEF done, drawn
  <2>5. TabsOK'
    BY <1>1, <2>1, <2>3, <2>4 DEF TabsOK, Working, RowsOf, Scr!windowVars, Scr!connectionsShouldPoll
  <2> QED
    BY <1>1, <2>1, <2>2, <2>5, WindowRests
<1>7. ASSUME Scr!setConnectionsSort PROVE ScrInv'
  <2>1. /\ tabs' = [tabs EXCEPT !.rows = tabs.last, !.last = tabs.last]
        /\ tabs.last # Scr!NoAnswer /\ stirred' = (stirred \/ ~tabs.polling)
        /\ UNCHANGED <<Scr!windowVars, screenCore, cores, snapshot>>
    BY <1>7 DEF Scr!setConnectionsSort, Scr!renderConnections
  <2>2. tabs.last \in 0..MaxCores
    BY <1>1, <1>2, <2>1 DEF Tabs
  <2>3. /\ tabs' \in Tabs /\ tabs'.tab = tabs.tab /\ tabs'.state = tabs.state
        /\ tabs'.timer = tabs.timer /\ tabs'.tun = tabs.tun /\ tabs'.polling = tabs.polling
    BY <1>1, <2>1, <2>2 DEF Tabs
  <2>4. TabsOK'
    BY <1>1, <2>1, <2>3 DEF TabsOK, Working, RowsOf, Scr!windowVars, Scr!connectionsShouldPoll
  <2> QED
    BY <1>1, <2>1, <2>4, WindowRests
<1>8. ASSUME NEW state \in {"off", "connecting", "on"}, state # tabs.state,
             tabs' = Scr!updateAppInterface(tabs, view.uiActive, state),
             UNCHANGED <<Scr!windowVars, Scr!sessionVars>>
      PROVE  ScrInv'
  <2>1. tabs' \in Tabs /\ Working(tabs', view.uiActive) /\ RowsOf(tabs')
    BY <1>1, <1>8, UpdateIs
  <2>2. TabsOK'
    BY <1>8, <2>1 DEF TabsOK, Working, RowsOf, Scr!windowVars
  <2> QED
    BY <1>1, <1>8, <2>2, WindowRests DEF Scr!sessionVars
<1>9. ASSUME Scr!Connect PROVE ScrInv'
  BY <1>9, <1>8 DEF Scr!Connect, Scr!sessionVars
<1>10. ASSUME NEW state \in {"off", "connecting", "on"}, Scr!Told(state) PROVE ScrInv'
  BY <1>10, <1>8 DEF Scr!Told, Scr!sessionVars
<1>11. ASSUME Scr!CoreStarts \/ Scr!CoreStops PROVE ScrInv'
  <2>1. screenCore' \in 0..MaxCores /\ cores' \in 0..MaxCores
        /\ UNCHANGED <<Scr!windowVars, tabs, snapshot, stirred>>
    BY <1>1, <1>2, <1>11 DEF Scr!CoreStarts, Scr!CoreStops
  <2>2. TabsOK'
    BY <1>1, <2>1 DEF TabsOK, Working, RowsOf, Scr!windowVars
  <2> QED
    BY <1>1, <2>1, <2>2, WindowRests
<1> QED
  BY <1>3, <1>4, <1>5, <1>6, <1>7, <1>9, <1>10, <1>11 DEF PageStep

(* The window, its handlers and its events.                                *)
Handlers == [id: 1..MaxMoves, next: {"check", "mark", "emit"}, what: Scr!Kinds]
WindowType ==
    /\ os \in {"shown", "minimised", "hidden"} /\ goVisible \in BOOLEAN
    /\ procs \subseteq Handlers
    /\ view \in [uiActive: BOOLEAN, thinksHidden: BOOLEAN, faded: BOOLEAN]
    /\ leaving \subseteq [id: 1..MaxMoves, to: {"minimised", "hidden"}]
    /\ mail \in Seq(Scr!Kinds) /\ onFocus \in BOOLEAN /\ moves \in 0..MaxMoves
    /\ awake \in BOOLEAN /\ crossed \in BOOLEAN

(* What a step of the window has to keep: the page's timers and polling    *)
(* follow by themselves.                                                   *)
LEMMA WindowMoves ==
  ASSUME ScrInv, WindowType', WordOK', AwakeOK', FadeOK', UNCHANGED Scr!sessionVars,
         \/ tabs' = tabs /\ view'.uiActive = view.uiActive
         \/ tabs' = Scr!setUiActive(tabs, view.uiActive, view'.uiActive)
  PROVE  ScrInv'
<1>1. /\ Scr!TypeOK /\ tabs \in Tabs /\ view.uiActive \in BOOLEAN /\ TabsOK
      /\ Working(tabs, view.uiActive) /\ (~stirred => RowsOf(tabs))
  BY TabsAre DEF ScrInv, TabsOK
<1>2. view'.uiActive \in BOOLEAN
  BY DEF WindowType
<1>3. tabs' \in Tabs /\ Working(tabs', view'.uiActive) /\ (~stirred => RowsOf(tabs'))
  BY <1>1, <1>2, SetUiActiveIs
<1>4. Scr!TypeOK'
  BY <1>1, <1>3 DEF WindowType, Handlers, Scr!TypeOK, Tabs, Scr!sessionVars
<1>5. Scr!OnlyWhileSeen' /\ Scr!NoGhosts'
  BY <1>3 DEF Working, RowsOf, Scr!OnlyWhileSeen, Scr!NoGhosts, Scr!sessionVars
<1> QED
  BY <1>4, <1>5 DEF ScrInv

LEMMA WindowIs ==
  ASSUME ScrInv
  PROVE  /\ WindowType /\ WordOK /\ AwakeOK /\ FadeOK /\ MaxMoves \in Nat
         /\ moves < MaxMoves => moves + 1 \in 1..MaxMoves /\ moves + 1 \in 0..MaxMoves
         /\ \A what \in Scr!Kinds, next \in {"check", "mark", "emit"} :
              moves < MaxMoves =>
                /\ Scr!Handler(next, what) \in Handlers
                /\ Scr!Handler(next, what).next = next /\ Scr!Handler(next, what).what = what
<1>1. WindowType
  BY DEF ScrInv, Scr!TypeOK, WindowType, Handlers
<1>2. MaxMoves \in Nat
      /\ (moves < MaxMoves => moves + 1 \in 1..MaxMoves /\ moves + 1 \in 0..MaxMoves)
  BY <1>1, ScrConstants DEF WindowType
<1> QED
  BY <1>1, <1>2 DEF ScrInv, Scr!Handler, Handlers

(* The tray's click adds a handler that will mark the window as it now is. *)
LEMMA TrayKeeps == ScrInv /\ Scr!TrayToggle => ScrInv'
<1> SUFFICES ASSUME ScrInv, Scr!TrayToggle PROVE ScrInv'
  OBVIOUS
<1> DEFINE what == IF os = "shown" THEN "hidden" ELSE "restored"
           p == Scr!Handler("mark", what)
<1>1. /\ moves < MaxMoves /\ moves' = moves + 1 /\ awake' = FALSE
      /\ os' = (IF os = "shown" THEN "hidden" ELSE "shown") /\ procs' = procs \cup {p}
      /\ onFocus' \in {onFocus, TRUE}
      /\ UNCHANGED <<goVisible, view, leaving, mail, crossed, tabs, Scr!sessionVars>>
  BY DEF Scr!TrayToggle
<1>2. p \in Handlers /\ p.next = "mark" /\ p.what = what
  BY <1>1, WindowIs DEF Scr!Kinds
<1> HIDE DEF p
<1>3. WindowType'
  BY <1>1, <1>2, WindowIs DEF WindowType
<1>4. WordOK'
  <2>1. NoEmit' = NoEmit
    BY <1>1, <1>2 DEF NoEmit
  <2>2. ToBeMarked' = (ToBeMarked \/ os # "shown")
    BY <1>1, <1>2 DEF ToBeMarked
  <2>3. \A q \in procs' : q.next = "emit" => q \in procs
    BY <1>1, <1>2
  <2> QED
    BY <1>1, <2>1, <2>2, <2>3, WindowIs DEF WordOK
<1>5. AwakeOK' /\ FadeOK'
  BY <1>1, WindowIs DEF AwakeOK, FadeOK
<1> QED
  BY <1>1, <1>3, <1>4, <1>5, WindowMoves

(* A handler of Go looks, marks the window, or sends its event.            *)
LEMMA HandlerKeeps == ASSUME ScrInv, NEW p \in procs, Scr!Step(p) PROVE ScrInv'
<1>1. /\ UNCHANGED <<os, view, leaving, onFocus, moves, awake, tabs, Scr!sessionVars>>
      /\ WindowType /\ WordOK /\ AwakeOK /\ FadeOK /\ p \in Handlers
      /\ p.next \in {"check", "mark", "emit"} /\ p.what \in Scr!Kinds
  BY WindowIs DEF Scr!Step, WindowType, Handlers
<1>2. CASE p.next = "check"
  <2> DEFINE m == [p EXCEPT !.next = "mark"]
  <2>1. /\ procs' = (procs \ {p}) \cup (IF os = "shown" THEN {m} ELSE {})
        /\ UNCHANGED <<goVisible, mail, crossed>>
    BY <1>2 DEF Scr!Step
  <2>2. m \in Handlers /\ m.next = "mark" /\ m.what = p.what
    BY <1>1 DEF Handlers
  <2> HIDE DEF m
  <2>3. WindowType'
    BY <1>1, <2>1, <2>2 DEF WindowType
  <2>4. NoEmit' = NoEmit /\ (ToBeMarked => ToBeMarked')
        /\ \A q \in procs' : q.next = "emit" => q \in procs
    BY <1>2, <2>1, <2>2 DEF NoEmit, ToBeMarked
  <2>5. WordOK'
    BY <1>1, <2>1, <2>4 DEF WordOK
  <2>6. AwakeOK' /\ FadeOK'
    <3>1. awake => procs' # {} /\ \A q \in procs' : q.what = "restored"
      BY <1>1, <2>1, <2>2 DEF AwakeOK
    <3> QED
      BY <1>1, <2>1, <3>1 DEF AwakeOK, FadeOK
  <2> QED
    BY <1>1, <2>3, <2>5, <2>6, WindowMoves
<1>3. CASE p.next = "mark"
  <2> DEFINE e == [p EXCEPT !.next = "emit"]
  <2>1. /\ procs' = (procs \ {p}) \cup {e} /\ goVisible' = (p.what = "restored")
        /\ crossed' = (crossed \/ \E q \in procs \ {p} : q.what # p.what)
        /\ mail' = mail
    BY <1>3 DEF Scr!Step
  <2>2. e \in Handlers /\ e.next = "emit" /\ e.what = p.what
    BY <1>1 DEF Handlers
  <2> HIDE DEF e
  <2>3. WindowType'
    BY <1>1, <2>1, <2>2 DEF WindowType
  <2>4. WordOK'
    <3>1. ~NoEmit'
      BY <2>1, <2>2 DEF NoEmit
    <3>2. ~crossed' => \A q \in procs' : q.what = p.what
      BY <2>1, <2>2
    <3> QED
      BY <2>1, <3>1, <3>2 DEF WordOK
  <2>5. AwakeOK' /\ FadeOK'
    <3>1. procs' # {} /\ (awake => \A q \in procs' : q.what = "restored")
      BY <1>1, <2>1, <2>2 DEF AwakeOK
    <3> QED
      BY <1>1, <2>1, <3>1 DEF AwakeOK, FadeOK
  <2> QED
    BY <1>1, <2>3, <2>4, <2>5, WindowMoves
<1>4. CASE p.next = "emit"
  <2>1. procs' = procs \ {p} /\ mail' = Append(mail, p.what) /\ UNCHANGED <<goVisible, crossed>>
    BY <1>4 DEF Scr!Step
  <2>2. /\ mail \in Seq(Scr!Kinds) /\ mail' \in Seq(Scr!Kinds) /\ Len(mail) \in Nat
        /\ Len(mail') = Len(mail) + 1 /\ mail' # <<>> /\ mail'[Len(mail')] = p.what
        /\ \A i \in 1..Len(mail) : mail'[i] = mail[i]
    BY <1>1, <2>1 DEF WindowType
  <2>3. WindowType'
    BY <1>1, <2>1, <2>2 DEF WindowType
  <2>4. WordOK'
    BY <1>1, <1>4, <2>1, <2>2 DEF WordOK
  <2>5. AwakeOK' /\ FadeOK'
    <3>1. awake => /\ p.what = "restored" /\ \A q \in procs' : q.what = "restored"
                   /\ \A i \in 1..Len(mail') : mail'[i] = "restored"
      BY <1>1, <2>1, <2>2 DEF AwakeOK
    <3> QED
      BY <1>1, <2>1, <2>2, <3>1 DEF AwakeOK, FadeOK
  <2> QED
    BY <1>1, <2>3, <2>4, <2>5, WindowMoves
<1> QED
  BY <1>1, <1>2, <1>3, <1>4

(* The page's own buttons: the animation, then the window goes.            *)
LEMMA LeavingKeeps ==
  /\ \A to \in {"minimised", "hidden"} : ScrInv /\ Scr!animateAndAction(to) => ScrInv'
  /\ \A l \in leaving : ScrInv /\ Scr!Left(l) => ScrInv'
<1>1. ASSUME NEW to \in {"minimised", "hidden"}, ScrInv, Scr!animateAndAction(to) PROVE ScrInv'
  <2> DEFINE l == [id |-> moves + 1, to |-> to]
  <2>1. /\ os = "shown" /\ moves < MaxMoves /\ moves' = moves + 1 /\ awake' = FALSE
        /\ view' = [view EXCEPT !.faded = TRUE] /\ leaving' = leaving \cup {l}
        /\ UNCHANGED <<os, goVisible, procs, mail, onFocus, crossed, tabs, Scr!sessionVars>>
    BY <1>1 DEF Scr!animateAndAction
  <2>2. /\ WindowType /\ WordOK /\ l \in [id: 1..MaxMoves, to: {"minimised", "hidden"}]
        /\ leaving' # {} /\ moves' \in 0..MaxMoves
    BY <1>1, <2>1, WindowIs
  <2>3. /\ view' \in [uiActive: BOOLEAN, thinksHidden: BOOLEAN, faded: BOOLEAN]
        /\ view'.uiActive = view.uiActive /\ view'.thinksHidden = view.thinksHidden
    BY <2>1, <2>2 DEF WindowType
  <2> HIDE DEF l
  <2>4. WindowType'
    BY <2>1, <2>2, <2>3 DEF WindowType
  <2>5. WordOK' /\ AwakeOK' /\ FadeOK'
    BY <2>1, <2>2, <2>3 DEF WordOK, AwakeOK, FadeOK, NoEmit, ToBeMarked
  <2> QED
    BY <1>1, <2>1, <2>3, <2>4, <2>5, WindowMoves
<1>2. ASSUME NEW l \in leaving, ScrInv, Scr!Left(l) PROVE ScrInv'
  <2> DEFINE p == [id |-> l.id, next |-> "mark", what |-> "hidden"]
  <2>1. /\ leaving' = leaving \ {l} /\ os' = l.to /\ awake' = FALSE
        /\ procs' = procs \cup {p}
        /\ view' = [view EXCEPT !.uiActive = FALSE, !.faded = FALSE]
        /\ tabs' = Scr!setUiActive(tabs, view.uiActive, FALSE)
        /\ UNCHANGED <<goVisible, mail, onFocus, moves, crossed, Scr!sessionVars>>
    BY <1>2 DEF Scr!Left, Scr!SetActive
  <2>2. /\ WindowType /\ WordOK /\ leaving # {} /\ l.to \in {"minimised", "hidden"}
        /\ p \in Handlers /\ p.next = "mark" /\ p.what = "hidden"
    BY <1>2, WindowIs DEF WindowType, Handlers, Scr!Kinds
  <2>3. /\ view' \in [uiActive: BOOLEAN, thinksHidden: BOOLEAN, faded: BOOLEAN]
        /\ view'.uiActive = FALSE /\ view'.faded = FALSE
        /\ view'.thinksHidden = view.thinksHidden
    BY <2>1, <2>2 DEF WindowType
  <2> HIDE DEF p
  <2>4. WindowType'
    BY <2>1, <2>2, <2>3 DEF WindowType
  <2>5. NoEmit' = NoEmit /\ (ToBeMarked => ToBeMarked')
        /\ \A q \in procs' : q.next = "emit" => q \in procs
    BY <2>1, <2>2 DEF NoEmit, ToBeMarked
  <2>6. WordOK' /\ AwakeOK' /\ FadeOK'
    BY <2>1, <2>2, <2>3, <2>5 DEF WordOK, AwakeOK, FadeOK
  <2> QED
    BY <1>2, <2>1, <2>3, <2>4, <2>6, WindowMoves
<1> QED
  BY <1>1, <1>2

(* What the user does with Windows alone.                                  *)
LEMMA GestureKeeps == ScrInv /\ (Scr!TaskbarMinimise \/ Scr!TaskbarRestore \/ Scr!SwitchTo) => ScrInv'
<1> SUFFICES ASSUME ScrInv, Scr!TaskbarMinimise \/ Scr!TaskbarRestore \/ Scr!SwitchTo PROVE ScrInv'
  OBVIOUS
<1>1. /\ WindowType /\ WordOK /\ AwakeOK /\ FadeOK
      /\ moves' \in 0..MaxMoves /\ onFocus' \in BOOLEAN
      /\ awake' \in BOOLEAN /\ (awake' => awake)
      /\ os \in {"shown", "minimised"} /\ os' \in {"shown", "minimised"}
      /\ os = os' \/ os = "minimised" \/ ~awake'
      /\ UNCHANGED <<goVisible, procs, view, leaving, mail, crossed, tabs, Scr!sessionVars>>
  <2>1. WindowType /\ WordOK /\ AwakeOK /\ FadeOK /\ moves \in 0..MaxMoves
        /\ onFocus \in BOOLEAN /\ awake \in BOOLEAN
        /\ (moves < MaxMoves => moves + 1 \in 0..MaxMoves)
    BY WindowIs DEF WindowType
  <2>2. CASE Scr!TaskbarMinimise
    BY <2>1, <2>2 DEF Scr!TaskbarMinimise
  <2>3. CASE Scr!TaskbarRestore \/ Scr!SwitchTo
    <3>1. /\ os' = "shown" /\ os \in {"shown", "minimised"} /\ onFocus' = TRUE
          /\ UNCHANGED <<goVisible, procs, view, leaving, mail, moves, awake, crossed, tabs,
                         Scr!sessionVars>>
      BY <2>3 DEF Scr!TaskbarRestore, Scr!SwitchTo
    <3>2. awake' \in BOOLEAN /\ (awake' => awake)
      BY <2>1, <3>1
    <3> QED
      BY <2>1, <3>1, <3>2
  <2> QED
    BY <2>2, <2>3
<1>2. WindowType'
  BY <1>1 DEF WindowType
<1>3. WordOK' /\ AwakeOK' /\ FadeOK'
  BY <1>1 DEF WordOK, AwakeOK, FadeOK, NoEmit, ToBeMarked
<1> QED
  BY <1>1, <1>2, <1>3, WindowMoves

(* An event reaches the page.                                              *)
LEMMA NotifiedKeeps == ScrInv /\ Scr!Notified => ScrInv'
<1> SUFFICES ASSUME ScrInv, Scr!Notified PROVE ScrInv'
  OBVIOUS
<1>1. /\ WindowType /\ WordOK /\ AwakeOK /\ FadeOK
      /\ mail # <<>> /\ mail' = Tail(mail)
      /\ UNCHANGED <<os, goVisible, procs, leaving, onFocus, moves, awake, crossed, Scr!sessionVars>>
  BY WindowIs DEF Scr!Notified
<1>2. /\ mail \in Seq(Scr!Kinds) /\ Len(mail) \in Nat \ {0} /\ mail' \in Seq(Scr!Kinds)
      /\ Len(mail') = Len(mail) - 1 /\ \A i \in 1..Len(mail') : mail'[i] = mail[i + 1]
      /\ Head(mail) = mail[1] /\ mail[1] \in Scr!Kinds
  BY <1>1 DEF WindowType
<1>3. /\ mail' # <<>> => mail'[Len(mail')] = mail[Len(mail)]
      /\ mail' = <<>> => mail[1] = mail[Len(mail)]
  BY <1>2
<1>4. NoEmit' = NoEmit /\ ToBeMarked' = ToBeMarked
  BY <1>1 DEF NoEmit, ToBeMarked
<1>5. CASE mail[1] = "hidden"
  <2>1. /\ view' = [view EXCEPT !.thinksHidden = TRUE, !.uiActive = FALSE]
        /\ tabs' = Scr!setUiActive(tabs, view.uiActive, FALSE)
    BY <1>2, <1>5 DEF Scr!Notified
  <2>2. /\ view' \in [uiActive: BOOLEAN, thinksHidden: BOOLEAN, faded: BOOLEAN]
        /\ view'.uiActive = FALSE /\ view'.faded = view.faded /\ view'.thinksHidden = TRUE
    BY <1>1, <2>1 DEF WindowType
  <2>3. ~awake
    BY <1>1, <1>2, <1>5 DEF AwakeOK
  <2>4. WindowType'
    BY <1>1, <1>2, <2>2 DEF WindowType
  <2>5. WordOK' /\ AwakeOK' /\ FadeOK'
    BY <1>1, <1>3, <1>4, <2>2, <2>3 DEF WordOK, AwakeOK, FadeOK
  <2> QED
    BY <1>1, <2>1, <2>2, <2>4, <2>5, WindowMoves
<1>6. CASE mail[1] = "restored"
  <2>1. /\ view' = [uiActive |-> TRUE, thinksHidden |-> FALSE, faded |-> FALSE]
        /\ tabs' = Scr!setUiActive(tabs, view.uiActive, TRUE)
    BY <1>2, <1>6 DEF Scr!Notified
  <2>2. WindowType'
    BY <1>1, <1>2, <2>1 DEF WindowType
  <2>3. WordOK'
    BY <1>1, <1>3, <1>4, <1>6, <2>1 DEF WordOK
  <2>4. AwakeOK' /\ FadeOK'
    <3>1. awake => \A i \in 1..Len(mail') : mail'[i] = "restored"
      BY <1>1, <1>2 DEF AwakeOK
    <3> QED
      BY <1>1, <2>1, <3>1 DEF AwakeOK, FadeOK
  <2> QED
    BY <1>1, <2>1, <2>2, <2>3, <2>4, WindowMoves
<1> QED
  BY <1>2, <1>5, <1>6 DEF Scr!Kinds

(* The focus comes back: Go is told when the page believes in the tray.    *)
LEMMA FocusKeeps == ScrInv /\ Scr!onWindowBackOnScreen => ScrInv'
<1> SUFFICES ASSUME ScrInv, Scr!onWindowBackOnScreen PROVE ScrInv'
  OBVIOUS
<1> DEFINE p == Scr!Handler("check", "restored")
<1>1. /\ WindowType /\ WordOK /\ AwakeOK /\ FadeOK
      /\ onFocus' = FALSE /\ awake' = (awake \/ (os = "shown" /\ Scr!Quiet))
      /\ view' = [view EXCEPT !.uiActive = TRUE, !.faded = FALSE]
      /\ tabs' = Scr!setUiActive(tabs, view.uiActive, TRUE)
      /\ UNCHANGED <<os, goVisible, leaving, mail, crossed, Scr!sessionVars>>
      /\ view.thinksHidden => moves < MaxMoves
      /\ IF view.thinksHidden THEN procs' = procs \cup {p} /\ moves' = moves + 1
                              ELSE procs' = procs /\ moves' = moves
  BY WindowIs DEF Scr!onWindowBackOnScreen, Scr!SetActive
<1>2. view.thinksHidden => /\ p \in Handlers /\ p.next = "check" /\ p.what = "restored"
                           /\ moves' \in 0..MaxMoves
  BY <1>1, WindowIs DEF Scr!Kinds
<1> HIDE DEF p
<1>3. /\ view' \in [uiActive: BOOLEAN, thinksHidden: BOOLEAN, faded: BOOLEAN]
      /\ view'.uiActive = TRUE /\ view'.faded = FALSE
      /\ view'.thinksHidden = view.thinksHidden
  BY <1>1 DEF WindowType
<1>4. WindowType'
  BY <1>1, <1>2, <1>3 DEF WindowType
<1>5. /\ \A q \in procs' : q \in procs \/ (view.thinksHidden /\ q = p)
      /\ procs \subseteq procs'
  BY <1>1
<1>6. WordOK'
  <2>1. NoEmit' = NoEmit /\ (~view.thinksHidden => ToBeMarked' = ToBeMarked)
        /\ \A q \in procs' : q.next = "emit" => q \in procs
    BY <1>1, <1>2, <1>5 DEF NoEmit, ToBeMarked
  <2> QED
    BY <1>1, <1>3, <2>1 DEF WordOK
<1>7. AwakeOK' /\ FadeOK'
  <2>1. awake' => /\ os = "shown" /\ leaving = {}
                  /\ \A q \in procs : q.what = "restored"
                  /\ \A i \in 1..Len(mail) : mail[i] = "restored"
    <3>1. CASE awake
      BY <1>1, <3>1 DEF AwakeOK
    <3>2. CASE os = "shown" /\ Scr!Quiet
      <4>1. procs = {} /\ leaving = {} /\ Len(mail) = 0
        BY <3>2 DEF Scr!Quiet
      <4> QED
        BY <3>2, <4>1
    <3> QED
      BY <1>1, <3>1, <3>2
  <2>2. view.thinksHidden => procs' # {}
    BY <1>1
  <2> QED
    BY <1>1, <1>2, <1>3, <1>5, <2>1, <2>2 DEF AwakeOK, FadeOK
<1> QED
  BY <1>1, <1>3, <1>4, <1>6, <1>7, WindowMoves

THEOREM ScreenCorrect == Scr!Spec => []ScrInv
<1>1. Scr!Init => ScrInv
  <2> SUFFICES ASSUME Scr!Init PROVE ScrInv
    OBVIOUS
  <2>1. MaxCores \in Nat /\ MaxMoves \in Nat /\ Scr!NoAnswer \in Scr!Snapshots /\ Len(mail) = 0
    BY ScrConstants DEF Scr!Init, Scr!Snapshots
  <2>2. Scr!TypeOK
    <3>1. os \in {"shown", "hidden"} /\ goVisible \in BOOLEAN /\ mail \in Seq(Scr!Kinds)
      BY DEF Scr!Init
    <3>2. 0 \in 0..MaxCores /\ 0 \in 0..MaxMoves
      BY <2>1
    <3>3. tabs \in Tabs
      BY <2>1, <3>2 DEF Scr!Init, Tabs
    <3> QED
      BY <2>1, <3>1, <3>2, <3>3 DEF Scr!Init, Scr!TypeOK, Tabs
  <2>3. WordOK /\ AwakeOK /\ FadeOK
    BY <2>1 DEF Scr!Init, WordOK, AwakeOK, FadeOK
  <2>4. Scr!OnlyWhileSeen /\ Scr!NoGhosts
    BY DEF Scr!Init, Scr!OnlyWhileSeen, Scr!NoGhosts, Scr!connectionsShouldPoll
  <2> QED
    BY <2>2, <2>3, <2>4 DEF ScrInv
<1>2. ScrInv /\ [Scr!Next]_(Scr!vars) => ScrInv'
  <2> SUFFICES ASSUME ScrInv, [Scr!Next]_(Scr!vars) PROVE ScrInv'
    OBVIOUS
  <2>1. CASE UNCHANGED Scr!vars
    <3>1. Scr!TypeOK /\ Scr!OnlyWhileSeen /\ Scr!NoGhosts
      BY DEF ScrInv
    <3>2. TabsOK /\ Scr!TypeOK
      BY <3>1, TabsAre
    <3>3. TabsOK'
      BY <2>1, <3>2 DEF Scr!vars, Scr!windowVars, TabsOK, Working, RowsOf
    <3> QED
      BY <2>1, <3>2, <3>3, WindowRests DEF Scr!vars, Scr!TypeOK
  <2>2. CASE PageStep
    BY <2>2, PageKeeps
  <2>3. CASE \/ \E p \in procs : Scr!Step(p)
             \/ \E l \in leaving : Scr!Left(l)
             \/ \E to \in {"minimised", "hidden"} : Scr!animateAndAction(to)
    BY <2>3, HandlerKeeps, LeavingKeeps
  <2>4. CASE \/ Scr!TrayToggle \/ Scr!TaskbarMinimise \/ Scr!TaskbarRestore \/ Scr!SwitchTo
             \/ Scr!Notified \/ Scr!onWindowBackOnScreen
    BY <2>4, TrayKeeps, GestureKeeps, NotifiedKeeps, FocusKeeps
  <2> QED
    BY <2>1, <2>2, <2>3, <2>4 DEF Scr!Next, PageStep
<1> QED
  BY <1>1, <1>2, PTL DEF Scr!Spec

(* One focus event that meets a quiet system brings page and Go to the     *)
(* truth; timers and polling run for a window that is seen, and no rows    *)
(* outlive their connection.                                               *)
THEOREM SeenCorrect == Scr!Spec => []SeenIsAlive
<1>1. ScrInv => SeenIsAlive
  <2> SUFFICES ASSUME ScrInv PROVE SeenIsAlive
    OBVIOUS
  <2>1. ASSUME awake, Scr!Quiet, ~crossed
        PROVE  view.uiActive /\ goVisible /\ ~view.thinksHidden
    <3>1. procs = {} /\ mail = <<>> /\ NoEmit /\ ~ToBeMarked
      BY <2>1 DEF Scr!Quiet, NoEmit, ToBeMarked
    <3>2. os = "shown" /\ view.uiActive /\ ~view.thinksHidden
      BY <2>1, <3>1 DEF ScrInv, AwakeOK
    <3> QED
      BY <2>1, <3>1, <3>2 DEF ScrInv, WordOK
  <2>2. leaving = {} => ~view.faded
    BY DEF ScrInv, FadeOK
  <2>3. Scr!WakesUp
    BY <2>1, <2>2 DEF Scr!WakesUp
  <2> QED
    BY <2>3 DEF SeenIsAlive, ScrInv
<1> QED
  BY <1>1, ScreenCorrect, PTL

(***************************************************************************)
(* The settings.                                                           *)
(***************************************************************************)
(* No two saves at once, none before the page had read the settings or     *)
(* around an import, and none that failed.                                 *)
Smooth == Sav!Without({"crossed", "early", "failed", "import"})

(* A start is under way as long as the page says it connects.              *)
StartOK == start # "none" <=> app = "connecting"

(* 0, what the page shows before it has read anything, is nowhere else.    *)
IsRead(object) == \A f \in Sav!Fields : object[f] # 0
ReadOK == Sav!Without({"early"}) =>
    /\ IsRead(disk) /\ \A s \in settingsSaves : IsRead(s.object)
    /\ initPhase = "filling" => IsRead(got)
    /\ initPhase = "open" => IsRead(mem)

(* An object with what the page shows, the theme not yet saved apart.      *)
Agreed(object) == \A f \in Sav!Fields : object[f] = mem[f] \/ (f = "theme" /\ timer)

(* One save at a time takes what the page shows to both files, then to the *)
(* tray; while the page starts, or its settings are imported, it is the    *)
(* files that hold the user's choices.                                     *)
SaveIs(s) ==
    /\ s.stage = "half" => \A f \in Sav!Secret : disk[f] = s.object[f]
    /\ s.stage = "written" => disk = s.object
    /\ s.next = "alert" <=> transfer = "saving"
SavedOK == Smooth =>
    /\ \A s, t \in settingsSaves : s = t
    /\ \A s \in settingsSaves : SaveIs(s)
    /\ settingsSaves = {} => transfer # "saving" /\ tray = disk["rules"]
    /\ transfer \in {"asked", "done"} => settingsSaves = {}
    /\ initPhase # "open" => settingsSaves = {} /\ transfer = "no"
    /\ initPhase = "filling" => got = disk
    /\ initPhase = "open" /\ transfer \in {"no", "asked"} =>
         /\ settingsSaves = {} => Agreed(disk)
         /\ \A s \in settingsSaves : Agreed(s.object)
    /\ transfer = "asked" => ~timer

(* A start that has read the rules has read those the page shows, or will  *)
(* show; so has the core, unless the bar says otherwise or a save is to    *)
(* end in a restart.                                                       *)
Rules == IF initPhase = "open" THEN mem["rules"] ELSE disk["rules"]
AppliedOK == Smooth /\ Sav!Without({"overtaken"}) /\ transfer \in {"no", "asked"} =>
    /\ start = "read" => config = Rules
    /\ app = "on" /\ ~rulesPending =>
         config = Rules \/ \E s \in settingsSaves : s.next = "restart"

SavInv == Sav!TypeOK /\ StartOK /\ ReadOK /\ SavedOK /\ AppliedOK

SaveType == [object: Sav!Objects, next: {"nothing", "restart", "alert"},
             stage: {"sent", "half", "written"}]

LEMMA SavConstants ==
  /\ MaxChanges \in Nat /\ MaxCrashes \in Nat
  /\ Sav!Values = 0..(MaxChanges + 2) /\ Sav!Imported \in Sav!Values /\ Sav!Imported # 0
  /\ Sav!Fields = {"favorites", "rules", "theme"} /\ Sav!Secret = {"favorites"}
  /\ Sav!Objects = [Sav!Fields -> Sav!Values] /\ 0 \in Sav!Values /\ 1 \in Sav!Values
  /\ Sav!Mishaps = {"crossed", "early", "failed", "import", "overtaken"}
  BY PagePartsAssumption DEF Sav!SettingsAssumption, Sav!Values, Sav!Imported, Sav!Fields,
     Sav!Secret, Sav!Objects, Sav!Mishaps

(* The record of what has gone wrong, now and after a step.                *)
Clean == /\ Smooth <=> settingsMishaps \cap {"crossed", "early", "failed", "import"} = {}
         /\ Sav!Without({"early"}) <=> "early" \notin settingsMishaps
         /\ Sav!Without({"overtaken"}) <=> "overtaken" \notin settingsMishaps
LEMMA CleanIs == Clean /\ Clean'
  BY DEF Clean, Smooth, Sav!Without

(* The page sends all it shows, with one field changed or the theme of     *)
(* before the pause.                                                       *)
LEMMA SendKeeps ==
  ASSUME SavInv, NEW next \in {"nothing", "restart"},
         Sav!collectAndSaveSettings(mem', next),
         mem' \in Sav!Objects, \A f \in Sav!Fields : mem'[f] = mem[f] \/ mem'[f] # 0,
         UNCHANGED <<initPhase, got, crashes, disk, tray, transfer, app, start, config>>,
         timer' \in BOOLEAN, timer' => timer, changes' \in 0..MaxChanges,
         rulesPending' \in BOOLEAN, rulesPending => rulesPending',
         settingsMishaps \cup Sav!SendMishaps \subseteq settingsMishaps',
         settingsMishaps' \subseteq Sav!Mishaps,
         \/ mem'["rules"] = mem["rules"]
         \/ /\ app = "connecting" => "overtaken" \in settingsMishaps'
            /\ app = "on" => rulesPending' \/ next = "restart"
  PROVE  SavInv'
<1>1. PICK new : new = [object |-> mem', next |-> next, stage |-> "sent"]
  OBVIOUS
<1>2. /\ settingsSaves' = settingsSaves \cup {new} /\ new \in SaveType
      /\ new.object = mem' /\ new.next = next /\ new.stage = "sent" /\ next # "alert"
  BY <1>1 DEF Sav!collectAndSaveSettings, SaveType
<1>3. /\ Sav!TypeOK /\ settingsSaves \subseteq SaveType /\ initPhase \in {"settings", "filling", "open"}
      /\ transfer \in {"no", "asked", "saving", "done"} /\ start \in {"none", "asked", "read"}
      /\ app \in {"off", "connecting", "on"} /\ timer \in BOOLEAN
  BY DEF SavInv, Sav!TypeOK, SaveType
<1>4. /\ settingsSaves # {} => "crossed" \in settingsMishaps'
      /\ initPhase # "open" => "early" \in settingsMishaps'
      /\ transfer # "no" => "import" \in settingsMishaps'
      /\ \A m \in settingsMishaps : m \in settingsMishaps'
  BY SavConstants DEF Sav!SendMishaps
<1>5. Sav!TypeOK'
  BY <1>2, <1>3 DEF Sav!TypeOK, SaveType
<1>6. StartOK'
  BY DEF SavInv, StartOK
<1>7. ReadOK'
  <2> SUFFICES ASSUME "early" \notin settingsMishaps'
               PROVE  /\ IsRead(disk) /\ \A s \in settingsSaves' : IsRead(s.object)
                      /\ initPhase = "open" /\ IsRead(mem')
    BY CleanIs DEF Clean, ReadOK
  <2>1. /\ initPhase = "open" /\ IsRead(disk) /\ IsRead(mem)
        /\ \A s \in settingsSaves : IsRead(s.object)
    BY <1>4, CleanIs DEF Clean, SavInv, ReadOK
  <2>2. IsRead(mem')
    BY <2>1 DEF IsRead
  <2> QED
    BY <1>2, <2>1, <2>2
<1>8. Smooth' => /\ Smooth /\ settingsSaves = {} /\ settingsSaves' = {new}
                 /\ initPhase = "open" /\ transfer = "no"
  BY <1>2, <1>4, CleanIs DEF Clean
<1>9. SavedOK'
  <2> SUFFICES ASSUME Smooth'
               PROVE  SaveIs(new)' /\ (\A f \in Sav!Fields : new.object[f] = mem'[f])
    BY <1>8 DEF SavedOK, Agreed
  <2> QED
    BY <1>2, <1>8 DEF SaveIs
<1>10. AppliedOK'
  <2> SUFFICES ASSUME Smooth', "overtaken" \notin settingsMishaps'
               PROVE  /\ start = "read" => config = mem'["rules"]
                      /\ app = "on" /\ ~rulesPending' =>
                           config = mem'["rules"] \/ next = "restart"
    BY <1>2, <1>8, CleanIs DEF Clean, AppliedOK, Rules
  <2>1. /\ start = "read" => config = mem["rules"]
        /\ app = "on" /\ ~rulesPending => config = mem["rules"]
    BY <1>4, <1>8, CleanIs DEF Clean, SavInv, AppliedOK, Rules
  <2>2. start = "read" => app = "connecting"
    BY DEF SavInv, StartOK
  <2> QED
    BY <2>1, <2>2
<1> QED
  BY <1>5, <1>6, <1>7, <1>9, <1>10 DEF SavInv

SavTypes ==
    /\ initPhase \in {"settings", "filling", "open"}
    /\ mem \in Sav!Objects /\ got \in Sav!Objects /\ disk \in Sav!Objects /\ timer \in BOOLEAN
    /\ settingsSaves \subseteq SaveType /\ tray \in Sav!Values
    /\ transfer \in {"no", "asked", "saving", "done"}
    /\ app \in {"off", "connecting", "on"} /\ start \in {"none", "asked", "read"}
    /\ config \in Sav!Values /\ rulesPending \in BOOLEAN
    /\ changes \in 0..MaxChanges /\ crashes \in 0..MaxCrashes
    /\ settingsMishaps \subseteq Sav!Mishaps
    /\ \A s, t \in settingsSaves : s.stage = "half" /\ t.stage = "half" => s = t

LEMMA SavTypesAre == /\ Sav!TypeOK <=> SavTypes
                     /\ Sav!TypeOK' <=> SavTypes'
  BY DEF Sav!TypeOK, SavTypes, SaveType

(* A changed field is not the one that was read, and nothing was read as 0.*)
LEMMA ChangedIs ==
  ASSUME SavTypes, Sav!Change, NEW f \in Sav!Fields
  PROVE  /\ Sav!Changed(f) \in Sav!Objects /\ changes' \in 0..MaxChanges
         /\ Sav!Changed(f)[f] # 0
         /\ \A g \in Sav!Fields : g # f => Sav!Changed(f)[g] = mem[g]
<1>1. /\ changes \in 0..MaxChanges /\ changes < MaxChanges /\ changes' = changes + 1
      /\ mem \in [Sav!Fields -> Sav!Values] /\ Sav!Values = 0..(MaxChanges + 2)
      /\ MaxChanges \in Nat
  BY SavConstants DEF SavTypes, Sav!Change
<1>2. changes' \in 0..MaxChanges /\ Sav!NewValue \in Sav!Values /\ Sav!NewValue # 0
  BY <1>1 DEF Sav!NewValue
<1>3. /\ Sav!Changed(f) \in [Sav!Fields -> Sav!Values]
      /\ Sav!Changed(f)[f] = Sav!NewValue
      /\ \A g \in Sav!Fields : g # f => Sav!Changed(f)[g] = mem[g]
  BY <1>1, <1>2 DEF Sav!Changed
<1> QED
  BY <1>2, <1>3, SavConstants

LEMMA SendSteps ==
  /\ SavInv /\ Sav!ChangeSecret => SavInv'
  /\ SavInv /\ Sav!LinkEvent => SavInv'
  /\ SavInv /\ Sav!ChangeRule => SavInv'
  /\ SavInv /\ Sav!ChangeBox => SavInv'
  /\ SavInv /\ Sav!applyProfile => SavInv'
  /\ SavInv /\ Sav!SaveTimer => SavInv'
<1>0. /\ Sav!SendMishaps \subseteq Sav!Mishaps /\ Sav!RuleMishaps \subseteq Sav!Mishaps
      /\ app = "connecting" => "overtaken" \in Sav!RuleMishaps
  BY SavConstants DEF Sav!SendMishaps, Sav!RuleMishaps
<1>1. ASSUME SavInv, NEW f \in Sav!Fields, NEW next \in {"nothing", "restart"},
             NEW kinds, kinds \subseteq Sav!Mishaps, Sav!SendMishaps \subseteq kinds,
             Sav!Change, Sav!Save(f, next), Sav!Mishap(kinds),
             rulesPending' \in BOOLEAN, rulesPending => rulesPending',
             \/ f # "rules"
             \/ /\ app = "connecting" => "overtaken" \in kinds
                /\ app = "on" => rulesPending' \/ next = "restart"
      PROVE  SavInv'
  <2>1. SavTypes
    BY <1>1, SavTypesAre DEF SavInv
  <2>2. /\ mem' \in Sav!Objects /\ changes' \in 0..MaxChanges /\ mem' = Sav!Changed(f)
        /\ \A g \in Sav!Fields : mem'[g] = mem[g] \/ mem'[g] # 0
        /\ f # "rules" => mem'["rules"] = mem["rules"]
    BY <1>1, <2>1, ChangedIs, SavConstants DEF Sav!Save
  <2>3. /\ Sav!collectAndSaveSettings(mem', next)
        /\ UNCHANGED <<initPhase, got, crashes, disk, tray, transfer, app, start, config, timer>>
    BY <1>1 DEF Sav!Save, Sav!coreVars, Sav!PageKeeps
  <2>4. /\ settingsMishaps' = settingsMishaps \cup kinds
        /\ settingsMishaps \subseteq Sav!Mishaps /\ timer \in BOOLEAN
    BY <1>1, <2>1 DEF Sav!Mishap, SavTypes
  <2> QED
    BY <1>1, <2>2, <2>3, <2>4, SendKeeps
<1>2. ASSUME SavInv, Sav!SaveTimer PROVE SavInv'
  <2>1. SavTypes
    BY <1>2, SavTypesAre DEF SavInv
  <2>2. /\ timer' = FALSE /\ Sav!collectAndSaveSettings(mem', "nothing") /\ mem' = mem
        /\ settingsMishaps' = settingsMishaps \cup Sav!SendMishaps
        /\ UNCHANGED <<initPhase, got, crashes, disk, tray, transfer, app, start, config,
                       rulesPending, changes>>
    BY <1>2 DEF Sav!SaveTimer, Sav!Mishap, Sav!PageKeeps, Sav!coreVars,
                Sav!collectAndSaveSettings
  <2> QED
    BY <1>0, <1>2, <2>1, <2>2, SendKeeps DEF SavTypes
<1>3. SavInv => rulesPending \in BOOLEAN
  BY SavTypesAre DEF SavInv, SavTypes
<1>4. "favorites" \in Sav!Fields /\ "rules" \in Sav!Fields
  BY SavConstants
<1>5. ASSUME SavInv, Sav!ChangeSecret \/ Sav!LinkEvent PROVE SavInv'
  BY <1>0, <1>1, <1>3, <1>4, <1>5 DEF Sav!ChangeSecret, Sav!LinkEvent
<1>6. ASSUME SavInv, Sav!ChangeRule PROVE SavInv'
  BY <1>0, <1>1, <1>3, <1>4, <1>6 DEF Sav!ChangeRule
<1>7. ASSUME SavInv, Sav!ChangeBox PROVE SavInv'
  <2>1. rulesPending' = (rulesPending \/ app = "on")
    BY <1>7 DEF Sav!ChangeBox
  <2> QED
    BY <1>0, <1>1, <1>3, <1>4, <1>7, <2>1 DEF Sav!ChangeBox
<1>8. ASSUME SavInv, Sav!applyProfile PROVE SavInv'
  BY <1>0, <1>1, <1>3, <1>4, <1>8 DEF Sav!applyProfile
<1> QED
  BY <1>2, <1>5, <1>6, <1>7, <1>8

(* What a step starts from.                                                *)
LEMMA SavIs ==
  ASSUME SavInv
  PROVE  SavTypes /\ StartOK /\ ReadOK /\ SavedOK /\ AppliedOK
  BY SavTypesAre DEF SavInv

LEMMA ReadingSteps ==
  /\ SavInv /\ Sav!GetSettings => SavInv'
  /\ SavInv /\ Sav!Fill => SavInv'
<1>1. ASSUME SavInv, Sav!GetSettings PROVE SavInv'
  <2>1. /\ initPhase = "settings" /\ got' = disk /\ initPhase' = "filling"
        /\ UNCHANGED <<mem, timer, settingsSaves, disk, tray, transfer, app, start, config,
                       rulesPending, changes, crashes, settingsMishaps>>
    BY <1>1 DEF Sav!GetSettings, Sav!InitKeeps, Sav!coreVars, Sav!fileVars
  <2>2. SavTypes'
    BY <1>1, <2>1, SavIs DEF SavTypes
  <2>3. StartOK' /\ ReadOK'
    BY <1>1, <2>1, SavIs, CleanIs DEF Clean, StartOK, ReadOK
  <2>4. SavedOK'
    BY <1>1, <2>1, SavIs, CleanIs DEF Clean, SavedOK, SaveIs
  <2>5. AppliedOK'
    BY <1>1, <2>1, SavIs, CleanIs DEF Clean, AppliedOK, Rules
  <2> QED
    BY <2>2, <2>3, <2>4, <2>5, SavTypesAre DEF SavInv
<1>2. ASSUME SavInv, Sav!Fill PROVE SavInv'
  <2>1. /\ initPhase = "filling" /\ mem' = got /\ initPhase' = "open"
        /\ UNCHANGED <<got, timer, settingsSaves, disk, tray, transfer, app, start, config,
                       rulesPending, changes, crashes, settingsMishaps>>
    BY <1>2 DEF Sav!Fill, Sav!InitKeeps, Sav!coreVars, Sav!fileVars
  <2>2. SavTypes'
    BY <1>2, <2>1, SavIs DEF SavTypes
  <2>3. StartOK' /\ ReadOK'
    BY <1>2, <2>1, SavIs, CleanIs DEF Clean, StartOK, ReadOK
  <2>4. Smooth => settingsSaves = {} /\ got = disk /\ transfer = "no" /\ tray = disk["rules"]
    BY <1>2, <2>1, SavIs DEF SavedOK
  <2>5. SavedOK'
    BY <2>1, <2>4, CleanIs DEF Clean, SavedOK, SaveIs, Agreed
  <2>6. AppliedOK'
    BY <1>2, <2>1, <2>4, SavIs, CleanIs DEF Clean, AppliedOK, Rules
  <2> QED
    BY <2>2, <2>3, <2>5, <2>6, SavTypesAre DEF SavInv
<1> QED
  BY <1>1, <1>2

LEMMA UserSteps ==
  /\ SavInv /\ Sav!setTheme => SavInv'
  /\ SavInv /\ Sav!Connect => SavInv'
  /\ SavInv /\ Sav!AskImport => SavInv'
<1>1. ASSUME SavInv, Sav!setTheme PROVE SavInv'
  <2>1. /\ Sav!Change /\ mem' = Sav!Changed("theme") /\ timer' = TRUE /\ transfer = "no"
        /\ UNCHANGED <<initPhase, got, settingsSaves, disk, tray, transfer, app, start, config,
                       rulesPending, crashes, settingsMishaps>>
    BY <1>1 DEF Sav!setTheme, Sav!UserCan, Sav!PageKeeps, Sav!coreVars, Sav!fileVars
  <2>2. /\ mem' \in Sav!Objects /\ changes' \in 0..MaxChanges /\ mem'["theme"] # 0
        /\ \A f \in Sav!Fields : f # "theme" => mem'[f] = mem[f]
        /\ mem'["rules"] = mem["rules"]
    BY <1>1, <2>1, SavIs, ChangedIs, SavConstants
  <2>3. SavTypes'
    BY <1>1, <2>1, <2>2, SavIs DEF SavTypes
  <2>4. StartOK' /\ ReadOK'
    BY <1>1, <2>1, <2>2, SavIs, CleanIs DEF Clean, StartOK, ReadOK, IsRead
  <2>5. SavedOK'
    <3>1. \A o : Agreed(o) => Agreed(o)'
      BY <2>1, <2>2 DEF Agreed
    <3> QED
      BY <1>1, <2>1, <3>1, SavIs, CleanIs DEF Clean, SavedOK, SaveIs
  <2>6. AppliedOK'
    BY <1>1, <2>1, <2>2, SavIs, CleanIs DEF Clean, AppliedOK, Rules
  <2> QED
    BY <2>3, <2>4, <2>5, <2>6, SavTypesAre DEF SavInv
<1>2. ASSUME SavInv, Sav!Connect PROVE SavInv'
  <2>1. /\ Sav!Change /\ app' = "connecting" /\ start' = "asked"
        /\ UNCHANGED <<initPhase, mem, got, timer, settingsSaves, disk, tray, transfer, config,
                       rulesPending, crashes, settingsMishaps>>
    BY <1>2 DEF Sav!Connect, Sav!Begin, Sav!PageKeeps, Sav!fileVars
  <2>2. changes' \in 0..MaxChanges
    BY <1>2, <2>1, SavIs, ChangedIs, SavConstants
  <2>3. SavTypes'
    BY <1>2, <2>1, <2>2, SavIs DEF SavTypes
  <2>4. StartOK' /\ ReadOK' /\ AppliedOK'
    BY <1>2, <2>1, SavIs, CleanIs DEF Clean, StartOK, ReadOK, AppliedOK
  <2>5. SavedOK'
    BY <1>2, <2>1, SavIs, CleanIs DEF Clean, SavedOK, SaveIs, Agreed
  <2> QED
    BY <2>3, <2>4, <2>5, SavTypesAre DEF SavInv
<1>3. ASSUME SavInv, Sav!AskImport PROVE SavInv'
  <2>1. /\ Sav!Change /\ initPhase = "open" /\ transfer = "no" /\ transfer' = "asked"
        /\ settingsMishaps' = settingsMishaps
             \cup {m \in Sav!Mishaps : m = "import" /\ (settingsSaves # {} \/ timer)}
        /\ UNCHANGED <<initPhase, mem, got, timer, settingsSaves, disk, tray, app, start,
                       config, rulesPending, crashes>>
    BY <1>3 DEF Sav!AskImport, Sav!UserCan, Sav!Mishap, Sav!PageKeeps, Sav!coreVars,
                Sav!fileVars
  <2>2. changes' \in 0..MaxChanges
    BY <1>3, <2>1, SavIs, ChangedIs, SavConstants
  <2>3. SavTypes'
    BY <1>3, <2>1, <2>2, SavIs DEF SavTypes
  <2>4. /\ settingsSaves # {} \/ timer => "import" \in settingsMishaps'
        /\ settingsMishaps \subseteq settingsMishaps'
    BY <2>1, SavConstants
  <2>5. StartOK' /\ ReadOK'
    BY <1>3, <2>1, <2>4, SavIs, CleanIs DEF Clean, StartOK, ReadOK
  <2>6. AppliedOK'
    BY <1>3, <2>1, <2>4, SavIs, CleanIs DEF Clean, AppliedOK, Rules
  <2>7. SavedOK'
    BY <1>3, <2>1, <2>4, SavIs, CleanIs DEF Clean, SavedOK, SaveIs, Agreed
  <2> QED
    BY <2>3, <2>5, <2>6, <2>7, SavTypesAre DEF SavInv
<1> QED
  BY <1>1, <1>2, <1>3

(* A page that has just been loaded finds no save under way, or the record *)
(* has why.                                                                *)
LEMMA LoadSteps ==
  /\ SavInv /\ Sav!Reload => SavInv'
  /\ SavInv /\ Sav!Crash => SavInv'
<1>1. ASSUME SavInv, Sav!Loaded, disk' = disk, start' = "none", changes' = changes,
             crashes' \in 0..MaxCrashes, settingsMishaps' = settingsMishaps,
             config' \in Sav!Values, tray' \in Sav!Values,
             settingsSaves' = {} \/ settingsSaves' = settingsSaves,
             Smooth => settingsSaves' = {} /\ tray' = disk["rules"]
      PROVE  SavInv'
  <2>1. /\ initPhase' = "settings" /\ timer' = FALSE /\ transfer' = "no" /\ app' = "off"
        /\ rulesPending' = FALSE /\ mem' = Sav!Defaults /\ got' = Sav!Defaults
    BY <1>1 DEF Sav!Loaded
  <2>2. Sav!Defaults \in Sav!Objects
    BY SavConstants DEF Sav!Defaults
  <2>3. SavTypes'
    BY <1>1, <2>1, <2>2, SavIs DEF SavTypes
  <2>4. StartOK' /\ ReadOK'
    BY <1>1, <2>1, SavIs, CleanIs DEF Clean, StartOK, ReadOK
  <2>5. SavedOK' /\ AppliedOK'
    BY <1>1, <2>1, CleanIs DEF Clean, SavedOK, AppliedOK
  <2> QED
    BY <2>3, <2>4, <2>5, SavTypesAre DEF SavInv
<1>2. ASSUME SavInv, Sav!Reload PROVE SavInv'
  <2>1. /\ transfer = "done" /\ start' = "none" /\ config' = config /\ crashes' = crashes
        /\ UNCHANGED <<disk, tray, settingsSaves, changes, settingsMishaps>> /\ Sav!Loaded
    BY <1>2 DEF Sav!Reload, Sav!coreVars, Sav!fileVars
  <2>2. Smooth => settingsSaves = {} /\ tray = disk["rules"]
    BY <1>2, <2>1, SavIs DEF SavedOK
  <2> QED
    BY <1>1, <1>2, <2>1, <2>2, SavIs DEF SavTypes
<1>3. ASSUME SavInv, Sav!Crash PROVE SavInv'
  <2>1. /\ crashes < MaxCrashes /\ crashes' = crashes + 1 /\ settingsSaves' = {}
        /\ tray' = disk["rules"] /\ start' = "none" /\ config' = 0
        /\ UNCHANGED <<disk, changes, settingsMishaps>> /\ Sav!Loaded
    BY <1>3 DEF Sav!Crash
  <2>2. crashes' \in 0..MaxCrashes
    BY <1>3, <2>1, SavIs, SavConstants DEF SavTypes
  <2>3. tray' \in Sav!Values /\ config' \in Sav!Values
    BY <1>3, <2>1, SavIs, SavConstants DEF SavTypes
  <2> QED
    BY <1>1, <1>3, <2>1, <2>2, <2>3
<1> QED
  BY <1>2, <1>3

(* A core that starts reads the rules when it may, and comes up or not.    *)
LEMMA StartSteps ==
  /\ SavInv /\ Sav!StartReads => SavInv'
  /\ SavInv /\ (Sav!Started \/ Sav!Refused) => SavInv'
<1>1. ASSUME SavInv, Sav!StartReads PROVE SavInv'
  <2>1. /\ start = "asked" /\ config' = disk["rules"] /\ start' = "read"
        /\ settingsMishaps' = settingsMishaps
             \cup {m \in Sav!Mishaps : m = "overtaken" /\ settingsSaves # {}}
        /\ UNCHANGED <<initPhase, mem, got, timer, rulesPending, changes, crashes,
                       settingsSaves, disk, tray, transfer, app>>
    BY <1>1 DEF Sav!StartReads, Sav!Mishap, Sav!GoKeeps, Sav!fileVars
  <2>2. disk["rules"] \in Sav!Values
    BY <1>1, SavIs, SavConstants DEF SavTypes
  <2>3. SavTypes'
    BY <1>1, <2>1, <2>2, SavIs DEF SavTypes
  <2>4. StartOK' /\ ReadOK'
    BY <1>1, <2>1, SavIs, CleanIs DEF Clean, StartOK, ReadOK
  <2>5. SavedOK'
    BY <1>1, <2>1, SavIs, CleanIs DEF Clean, SavedOK, SaveIs, Agreed
  <2>6. AppliedOK'
    <3> SUFFICES ASSUME Smooth', "overtaken" \notin settingsMishaps',
                        transfer \in {"no", "asked"}
                 PROVE  config' = Rules' /\ app' # "on"
      BY <2>1, CleanIs DEF Clean, AppliedOK
    <3>1. settingsSaves = {} /\ Smooth
      BY <2>1, SavConstants, CleanIs DEF Clean
    <3>2. initPhase = "open" => disk["rules"] = mem["rules"]
      BY <1>1, <3>1, SavIs, SavConstants DEF SavedOK, Agreed
    <3>3. app # "on"
      BY <1>1, <2>1, SavIs DEF StartOK
    <3> QED
      BY <2>1, <3>2, <3>3 DEF Rules
  <2> QED
    BY <2>3, <2>4, <2>5, <2>6, SavTypesAre DEF SavInv
<1>2. ASSUME SavInv, Sav!Started \/ Sav!Refused PROVE SavInv'
  <2>1. /\ start' = "none" /\ app' \in {"on", "off"} /\ rulesPending' \in {rulesPending, FALSE}
        /\ app' = "on" => start = "read"
        /\ UNCHANGED <<initPhase, mem, got, timer, changes, crashes, settingsSaves, disk,
                       tray, transfer, config, settingsMishaps>>
    BY <1>2 DEF Sav!Started, Sav!Refused, Sav!GoKeeps, Sav!fileVars
  <2>2. SavTypes'
    BY <1>2, <2>1, SavIs DEF SavTypes
  <2>3. StartOK' /\ ReadOK'
    BY <1>2, <2>1, SavIs, CleanIs DEF Clean, StartOK, ReadOK
  <2>4. SavedOK'
    BY <1>2, <2>1, SavIs, CleanIs DEF Clean, SavedOK, SaveIs, Agreed
  <2>5. AppliedOK'
    BY <1>2, <2>1, SavIs, CleanIs DEF Clean, AppliedOK, Rules
  <2> QED
    BY <2>2, <2>3, <2>4, <2>5, SavTypesAre DEF SavInv
<1> QED
  BY <1>1, <1>2

(* The import saves the files as they are with the imported values laid    *)
(* over them, when nothing else is under way.                              *)
LEMMA ImportRuns == SavInv /\ Sav!ImportReads => SavInv'
<1> SUFFICES ASSUME SavInv, Sav!ImportReads PROVE SavInv'
  OBVIOUS
<1>1. /\ transfer = "asked"
      /\ UNCHANGED <<initPhase, mem, got, timer, rulesPending, changes, crashes, disk, tray,
                     app, start, config, settingsMishaps>>
  BY DEF Sav!ImportReads, Sav!GoKeeps, Sav!coreVars
<1>2. CASE transfer' = "no" /\ settingsSaves' = settingsSaves
  <2>1. SavTypes'
    BY <1>1, <1>2, SavIs DEF SavTypes
  <2>2. StartOK' /\ ReadOK'
    BY <1>1, <1>2, SavIs, CleanIs DEF Clean, StartOK, ReadOK
  <2>3. SavedOK'
    BY <1>1, <1>2, SavIs, CleanIs DEF Clean, SavedOK, SaveIs, Agreed
  <2>4. AppliedOK'
    BY <1>1, <1>2, SavIs, CleanIs DEF Clean, AppliedOK, Rules
  <2> QED
    BY <2>1, <2>2, <2>3, <2>4, SavTypesAre DEF SavInv
<1>3. ASSUME transfer' = "saving",
             Sav!collectAndSaveSettings(
               [f \in Sav!Fields |-> IF f \in Sav!Secret THEN disk[f] ELSE Sav!Imported], "alert")
      PROVE  SavInv'
  <2>1. PICK new : new = [object |-> [f \in Sav!Fields |-> IF f \in Sav!Secret THEN disk[f]
                                                           ELSE Sav!Imported],
                          next |-> "alert", stage |-> "sent"]
    OBVIOUS
  <2>2. settingsSaves' = settingsSaves \cup {new}
    BY <1>3, <2>1 DEF Sav!collectAndSaveSettings
  <2>3. /\ new \in SaveType /\ new.next = "alert" /\ new.stage = "sent"
        /\ \A f \in Sav!Fields : new.object[f] = IF f \in Sav!Secret THEN disk[f] ELSE Sav!Imported
    <3>1. [f \in Sav!Fields |-> IF f \in Sav!Secret THEN disk[f] ELSE Sav!Imported] \in Sav!Objects
      BY SavIs, SavConstants DEF SavTypes
    <3> QED
      BY <2>1, <3>1 DEF SaveType
  <2>4. SavTypes'
    BY <1>1, <1>3, <2>2, <2>3, SavIs DEF SavTypes
  <2>5. IsRead(disk) => IsRead(new.object)
    BY <2>3, SavConstants DEF IsRead
  <2>6. StartOK' /\ ReadOK'
    BY <1>1, <2>2, <2>5, SavIs, CleanIs DEF Clean, StartOK, ReadOK
  <2>7. Smooth => settingsSaves' = {new} /\ initPhase = "open"
    BY <1>1, <2>2, SavIs DEF SavedOK
  <2>8. SavedOK'
    BY <1>1, <1>3, <2>3, <2>7, CleanIs DEF Clean, SavedOK, SaveIs
  <2>9. AppliedOK'
    BY <1>3 DEF AppliedOK
  <2> QED
    BY <2>4, <2>6, <2>8, <2>9, SavTypesAre DEF SavInv
<1> QED
  BY <1>2, <1>3 DEF Sav!ImportReads

(* Go takes a save to the first file, to the second, to the tray.          *)
LEMMA WriteSteps ==
  /\ \A s \in settingsSaves : SavInv /\ Sav!WriteSecrets(s) => SavInv'
  /\ \A s \in settingsSaves : SavInv /\ Sav!WritePlain(s) => SavInv'
<1>1. ASSUME SavInv, NEW s \in settingsSaves, NEW reached \in {"half", "written"},
             NEW part \in SUBSET Sav!Fields,
             disk' = Sav!Halves(s.object, part), Sav!Step(s, reached),
             reached = "half" => \A t \in settingsSaves : t.stage # "half",
             reached = "half" => part = Sav!Secret,
             reached = "written" => s.stage = "half" /\ part = Sav!Fields \ Sav!Secret,
             UNCHANGED <<initPhase, mem, got, timer, rulesPending, changes, crashes,
                         tray, transfer, app, start, config, settingsMishaps>>
      PROVE  SavInv'
  <2>1. PICK t : t = [s EXCEPT !.stage = reached]
    OBVIOUS
  <2>2. /\ settingsSaves' = (settingsSaves \ {s}) \cup {t} /\ s \in SaveType
        /\ settingsSaves \subseteq SaveType
    BY <1>1, <2>1, SavIs DEF Sav!Step, SavTypes
  <2>3. t \in SaveType /\ t.object = s.object /\ t.next = s.next /\ t.stage = reached
    BY <2>1, <2>2 DEF SaveType
  <2>4. /\ disk' \in Sav!Objects
        /\ \A f \in Sav!Fields : disk'[f] = IF f \in part THEN s.object[f] ELSE disk[f]
    BY <1>1, <2>2, SavIs, SavConstants DEF Sav!Halves, SavTypes, SaveType
  <2>5. SavTypes'
    BY <1>1, <2>2, <2>3, <2>4, SavIs DEF SavTypes
  <2>6. IsRead(disk) /\ IsRead(s.object) => IsRead(disk')
    BY <2>4 DEF IsRead
  <2>7. StartOK' /\ ReadOK'
    BY <1>1, <2>2, <2>3, <2>6, SavIs, CleanIs DEF Clean, StartOK, ReadOK
  <2>8. Smooth => settingsSaves' = {t} /\ initPhase = "open" /\ transfer \in {"no", "saving"}
    BY <1>1, <2>2, SavIs DEF SavedOK, SavTypes
  <2>9. Smooth => SaveIs(t)'
    <3> SUFFICES ASSUME Smooth PROVE SaveIs(t)'
      OBVIOUS
    <3>1. SaveIs(s)
      BY <1>1, SavIs DEF SavedOK
    <3>2. reached = "half" => \A f \in Sav!Secret : disk'[f] = s.object[f]
      BY <1>1, <2>4, SavConstants
    <3>3. reached = "written" => disk' = s.object
      <4> SUFFICES ASSUME reached = "written" PROVE disk' = s.object
        OBVIOUS
      <4>1. \A f \in Sav!Fields : disk'[f] = s.object[f]
        BY <1>1, <2>4, <3>1 DEF SaveIs
      <4>2. disk' \in [Sav!Fields -> Sav!Values] /\ s.object \in [Sav!Fields -> Sav!Values]
        BY <2>2, <2>4, SavConstants DEF SaveType
      <4> QED
        BY <4>1, <4>2
    <3> QED
      BY <1>1, <2>3, <3>1, <3>2, <3>3 DEF SaveIs
  <2>10. SavedOK'
    <3>1. Smooth /\ transfer = "no" => Agreed(t.object)'
      BY <1>1, <2>3, <2>8, SavIs DEF SavedOK, Agreed
    <3> QED
      BY <1>1, <2>8, <2>9, <3>1, CleanIs DEF Clean, SavedOK
  <2>11. AppliedOK'
    BY <1>1, <2>2, <2>3, <2>8, SavIs, CleanIs DEF Clean, AppliedOK, Rules
  <2> QED
    BY <2>5, <2>7, <2>10, <2>11, SavTypesAre DEF SavInv
<1>2. ASSUME SavInv, NEW s \in settingsSaves, Sav!WriteSecrets(s) PROVE SavInv'
  BY <1>1, <1>2, SavConstants DEF Sav!WriteSecrets, Sav!Free, Sav!GoKeeps, Sav!coreVars
<1>3. ASSUME SavInv, NEW s \in settingsSaves, Sav!WritePlain(s) PROVE SavInv'
  BY <1>1, <1>3, SavConstants DEF Sav!WritePlain, Sav!GoKeeps, Sav!coreVars
<1> QED
  BY <1>2, <1>3

(* The answer ends a save, and may begin a restart.                        *)
LEMMA AnswerSteps ==
  /\ \A s \in settingsSaves : SavInv /\ Sav!applyTrayToggles(s) => SavInv'
  /\ \A s \in settingsSaves : SavInv /\ Sav!WriteFails(s) => SavInv'
<1>1. ASSUME SavInv, NEW s \in settingsSaves, Sav!Answer(s)
      PROVE  /\ StartOK' /\ start' \in {"none", "asked", "read"}
             /\ app' \in {"off", "connecting", "on"}
             /\ transfer' = (IF s.next = "alert" THEN "done" ELSE transfer)
             /\ start' = "read" => start = "read"
             /\ app' = "on" => app = "on" /\ s.next # "restart"
  BY <1>1, SavIs DEF Sav!Answer, Sav!Begin, StartOK, SavTypes
<1>2. ASSUME SavInv, NEW s \in settingsSaves, Sav!applyTrayToggles(s) PROVE SavInv'
  <2>1. /\ s.stage = "written" /\ tray' = s.object["rules"] /\ settingsSaves' = settingsSaves \ {s}
        /\ Sav!Answer(s)
        /\ UNCHANGED <<initPhase, mem, got, timer, rulesPending, changes, crashes, disk,
                       config, settingsMishaps>>
    BY <1>2 DEF Sav!applyTrayToggles, Sav!GoKeeps
  <2>2. tray' \in Sav!Values /\ transfer' \in {"no", "asked", "saving", "done"}
    BY <1>1, <1>2, <2>1, SavIs, SavConstants DEF SavTypes, SaveType
  <2>3. SavTypes'
    BY <1>1, <1>2, <2>1, <2>2, SavIs DEF SavTypes
  <2>4. ReadOK'
    BY <1>2, <2>1, SavIs, CleanIs DEF Clean, ReadOK
  <2>5. Smooth => /\ settingsSaves = {s} /\ settingsSaves' = {} /\ initPhase = "open"
                  /\ disk = s.object /\ (s.next = "alert" <=> transfer = "saving")
                  /\ transfer \in {"no", "saving"}
    BY <1>2, <2>1, SavIs DEF SavedOK, SaveIs, SavTypes
  <2>6. SavedOK'
    BY <1>1, <1>2, <2>1, <2>5, SavIs, CleanIs DEF Clean, SavedOK, Agreed
  <2>7. AppliedOK'
    BY <1>1, <1>2, <2>1, <2>5, SavIs, CleanIs DEF Clean, AppliedOK, Rules
  <2> QED
    BY <1>1, <1>2, <2>1, <2>3, <2>4, <2>6, <2>7, SavTypesAre DEF SavInv
<1>3. ASSUME SavInv, NEW s \in settingsSaves, Sav!WriteFails(s) PROVE SavInv'
  <2>1. /\ settingsSaves' = settingsSaves \ {s}
        /\ settingsMishaps' = settingsMishaps \cup {"failed"}
        /\ UNCHANGED <<initPhase, mem, got, timer, rulesPending, changes, crashes, disk,
                       tray, config>>
        /\ IF s.next = "alert" THEN transfer' = "no" /\ UNCHANGED <<app, start>>
           ELSE Sav!Answer(s)
    BY <1>3 DEF Sav!WriteFails, Sav!Mishap, Sav!GoKeeps
  <2>2. /\ StartOK' /\ start' \in {"none", "asked", "read"}
        /\ app' \in {"off", "connecting", "on"}
        /\ transfer' \in {"no", "asked", "saving", "done"}
    BY <1>1, <1>3, <2>1, SavIs DEF SavTypes, StartOK
  <2>3. SavTypes'
    BY <1>3, <2>1, <2>2, SavIs, SavConstants DEF SavTypes
  <2>4. ReadOK'
    BY <1>3, <2>1, SavIs, CleanIs DEF Clean, ReadOK
  <2>5. SavedOK' /\ AppliedOK'
    BY <2>1, CleanIs DEF Clean, SavedOK, AppliedOK
  <2> QED
    BY <2>2, <2>3, <2>4, <2>5, SavTypesAre DEF SavInv
<1> QED
  BY <1>2, <1>3

THEOREM SettingsCorrect == Sav!Spec => []SavInv
<1>1. Sav!Init => SavInv
  <2> SUFFICES ASSUME Sav!Init PROVE SavInv
    OBVIOUS
  <2>1. /\ Sav!Defaults \in Sav!Objects /\ Sav!Stored \in Sav!Objects /\ IsRead(Sav!Stored)
        /\ Sav!Stored["rules"] = 1
    BY SavConstants DEF Sav!Defaults, Sav!Stored, IsRead
  <2>2. 0 \in 0..MaxChanges /\ 0 \in 0..MaxCrashes /\ 0 \in Sav!Values /\ 1 \in Sav!Values
    BY SavConstants
  <2>3. SavTypes
    BY <2>1, <2>2 DEF Sav!Init, SavTypes
  <2> QED
    BY <2>1, <2>3, SavTypesAre DEF Sav!Init, SavInv, StartOK, ReadOK, SavedOK, AppliedOK
<1>2. SavInv /\ [Sav!Next]_(Sav!vars) => SavInv'
  <2> SUFFICES ASSUME SavInv, [Sav!Next]_(Sav!vars) PROVE SavInv'
    OBVIOUS
  <2>1. CASE UNCHANGED Sav!vars
    <3>1. UNCHANGED <<initPhase, mem, got, timer, rulesPending, changes, crashes, disk, tray,
                      settingsSaves, transfer, app, start, config, settingsMishaps>>
      BY <2>1 DEF Sav!vars, Sav!pageVars, Sav!coreVars, Sav!fileVars
    <3>2. SavTypes' /\ StartOK' /\ ReadOK'
      BY <3>1, SavIs, CleanIs DEF Clean, SavTypes, StartOK, ReadOK
    <3>3. SavedOK' /\ AppliedOK'
      BY <3>1, SavIs, CleanIs DEF Clean, SavedOK, SaveIs, Agreed, AppliedOK, Rules
    <3> QED
      BY <3>2, <3>3, SavTypesAre DEF SavInv
  <2> QED
    BY <2>1, SendSteps, ReadingSteps, UserSteps, LoadSteps, StartSteps, ImportRuns, WriteSteps,
       AnswerSteps DEF Sav!Next
<1> QED
  BY <1>1, <1>2, PTL DEF Sav!Spec

(* At rest the files and the tray hold what the page shows and the core    *)
(* runs with it unless the bar says otherwise; no save erases what the     *)
(* page has not read.                                                      *)
THEOREM ChoicesCorrect == Sav!Spec => []ChoicesArriveOnDisk
<1>1. SavInv => ChoicesArriveOnDisk
  <2> SUFFICES ASSUME SavInv PROVE ChoicesArriveOnDisk
    OBVIOUS
  <2>1. Sav!AtRest => initPhase = "open" /\ settingsSaves = {} /\ ~timer /\ transfer = "no"
    BY DEF Sav!AtRest
  <2>2. Sav!AtRest /\ Smooth => disk = mem /\ tray = mem["rules"]
    <3> SUFFICES ASSUME Sav!AtRest, Smooth PROVE disk = mem /\ tray = mem["rules"]
      OBVIOUS
    <3>1. Agreed(disk) /\ tray = disk["rules"]
      BY <2>1, SavIs DEF SavedOK
    <3>2. \A f \in Sav!Fields : disk[f] = mem[f]
      BY <2>1, <3>1 DEF Agreed
    <3>3. disk \in [Sav!Fields -> Sav!Values] /\ mem \in [Sav!Fields -> Sav!Values]
      BY SavIs, SavConstants DEF SavTypes
    <3>4. disk = mem
      BY <3>2, <3>3
    <3> QED
      BY <3>1, <3>4
  <2>3. Sav!DiskHoldsChoices
    BY <2>2 DEF Sav!DiskHoldsChoices, Smooth
  <2>4. Sav!NothingErased
    BY SavIs DEF Sav!NothingErased, ReadOK, IsRead
  <2>5. Sav!PendingHonest
    <3> SUFFICES ASSUME Sav!AtRest, app = "on", ~rulesPending,
                        Sav!Without({"crossed", "early", "failed", "import", "overtaken"})
                 PROVE  config = mem["rules"]
      BY DEF Sav!PendingHonest
    <3>1. Smooth /\ Sav!Without({"overtaken"})
      BY DEF Smooth, Sav!Without
    <3> QED
      BY <2>1, <3>1, SavIs DEF AppliedOK, Rules
  <2> QED
    BY <2>3, <2>4, <2>5 DEF ChoicesArriveOnDisk
<1> QED
  BY <1>1, SettingsCorrect, PTL

(***************************************************************************)
(* The theme.                                                              *)
(***************************************************************************)
(* A frame that is due brings the theme of the settings tab; without one   *)
(* the page has it, and its mirror has.                                    *)
FrameOK ==
    IF themeFrame = NoTheme
    THEN page = currentTheme /\ currentTheme = Thm!Mirrored(mirror)
    ELSE themeFrame = currentTheme

(* The file has it as soon as no save is due; what was never mirrored is   *)
(* the default theme, of which there is no file.                           *)
ThemeFileOK ==
    /\ themeFrame = NoTheme /\ mirror = NoTheme =>
         ~themeSaveTimer /\ (ready => themeFile = NoTheme)
    /\ ready /\ ~themeSaveTimer => themeFile \in {NoTheme, currentTheme}

ChosenOK == themeMishaps = {} =>
    IF themeSaveTimer THEN ready /\ themeChosen = currentTheme ELSE themeChosen = themeFile

(* What controls drawn anew show of theme t.                               *)
Drawn(t) ==
    [well |-> Thm!Well(t.accent), scheme |-> t.scheme, mode |-> t.mode, angle |-> t.angle,
     stops |-> Thm!renderThemeStops(t), canAdd |-> Len(t.stops) < 3 /\ t.mode # "solid",
     canRemove |-> Len(t.stops) > 1, marked |-> {p \in Presets : p = t}]
DrawnOK == ready => controls = Drawn(currentTheme) /\ (~typing => hex = currentTheme.accent)

ThemeInv == Thm!TypeOK /\ FrameOK /\ ThemeFileOK /\ ChosenOK /\ DrawnOK

LEMMA ThemeConstants ==
  /\ Black \in Colours /\ Default \in Thm!ThemeSpec /\ Presets \subseteq Thm!ThemeSpec
  /\ Short \notin Colours /\ NoTheme \notin Thm!ThemeSpec /\ MaxThemes \in Nat
BY PagePartsAssumption DEF Thm!ThemeAssumption

LEMMA StopsAre ==
  ASSUME NEW s \in Thm!Stops PROVE s \in Seq(Colours) /\ Len(s) \in 1..3
<1>1. PICK n \in 1..3 : s \in [1..n -> Colours]
  BY DEF Thm!Stops
<1> QED
  BY <1>1

LEMMA AreStops ==
  ASSUME NEW s \in Seq(Colours), Len(s) \in 1..3 PROVE s \in Thm!Stops
<1>1. s \in [1..Len(s) -> Colours]
  OBVIOUS
<1> QED
  BY <1>1 DEF Thm!Stops

(* Controls that show the same are the same.                               *)
LEMMA ControlsAre ==
  ASSUME NEW c \in Thm!Controls, NEW d \in Thm!Controls,
         c.well = d.well, c.scheme = d.scheme, c.mode = d.mode, c.angle = d.angle,
         c.stops = d.stops, c.canAdd = d.canAdd, c.canRemove = d.canRemove,
         c.marked = d.marked
  PROVE  c = d
BY DEF Thm!Controls

LEMMA WellIs == ASSUME NEW code \in Thm!Codes PROVE Thm!Well(code) \in Colours
BY ThemeConstants DEF Thm!Codes, Thm!Well

(* Drawn anew, the controls are the same whatever they showed before.      *)
LEMMA DrawnIs ==
  ASSUME NEW t \in Thm!ThemeSpec
  PROVE  /\ Drawn(t) \in Thm!Controls
         /\ \A c \in Thm!Controls :
              Thm!markActivePreset(t, Thm!renderThemeControls(t, c)) = Drawn(t)
<1>1. t.stops \in Seq(Colours) /\ Len(t.stops) \in 1..3 /\ t.accent \in Thm!Codes
  BY StopsAre DEF Thm!ThemeSpec
<1>2. Thm!renderThemeStops(t) \in Thm!Stops
  <2>1. CASE t.mode = "solid"
    <3>1. t.stops[1] \in Colours
      BY <1>1
    <3>2. <<t.stops[1]>> \in [1..1 -> Colours]
      BY <3>1
    <3>3. <<t.stops[1]>> \in Thm!Stops
      BY <3>2 DEF Thm!Stops
    <3> QED
      BY <2>1, <3>3 DEF Thm!renderThemeStops
  <2>2. CASE t.mode # "solid"
    BY <2>2 DEF Thm!renderThemeStops, Thm!ThemeSpec
  <2> QED
    BY <2>1, <2>2
<1>3. Drawn(t) \in Thm!Controls
  <2>1. (Len(t.stops) < 3 /\ t.mode # "solid") \in BOOLEAN /\ (Len(t.stops) > 1) \in BOOLEAN
    OBVIOUS
  <2>2. {p \in Presets : p = t} \in SUBSET Presets
    OBVIOUS
  <2> QED
    BY <1>1, <1>2, <2>1, <2>2, WellIs DEF Drawn, Thm!Controls, Thm!ThemeSpec
<1>4. ASSUME NEW c \in Thm!Controls
      PROVE  Thm!markActivePreset(t, Thm!renderThemeControls(t, c)) = Drawn(t)
  <2> DEFINE d == Thm!markActivePreset(t, Thm!renderThemeControls(t, c))
  <2>1. d = [c EXCEPT !.well = Thm!Well(t.accent), !.scheme = t.scheme, !.mode = t.mode,
                      !.angle = t.angle, !.stops = Thm!renderThemeStops(t),
                      !.canAdd = Len(t.stops) < 3 /\ t.mode # "solid",
                      !.canRemove = Len(t.stops) > 1, !.marked = {p \in Presets : p = t}]
    BY DEF Thm!markActivePreset, Thm!sameTheme, Thm!renderThemeControls
  <2> HIDE DEF d
  <2>2. d \in Thm!Controls
    <3>1. (Len(t.stops) < 3 /\ t.mode # "solid") \in BOOLEAN /\ (Len(t.stops) > 1) \in BOOLEAN
      OBVIOUS
    <3>2. {p \in Presets : p = t} \in SUBSET Presets
      OBVIOUS
    <3> QED
      BY <1>1, <1>2, <2>1, <3>1, <3>2, WellIs DEF Thm!Controls, Thm!ThemeSpec
  <2>3. /\ d.well = Thm!Well(t.accent) /\ d.scheme = t.scheme /\ d.mode = t.mode
        /\ d.angle = t.angle /\ d.stops = Thm!renderThemeStops(t)
        /\ d.canAdd = (Len(t.stops) < 3 /\ t.mode # "solid")
        /\ d.canRemove = (Len(t.stops) > 1) /\ d.marked = {p \in Presets : p = t}
    BY <2>1 DEF Thm!Controls
  <2> QED
    BY <1>3, <2>2, <2>3, ControlsAre DEF Drawn, d
<1> QED
  BY <1>3, <1>4

LEMMA ThemeInit == Thm!Init => ThemeInv
<1> SUFFICES ASSUME Thm!Init PROVE ThemeInv
  OBVIOUS
<1>1. themeFile \in Thm!ThemeSpec \cup {NoTheme} /\ mirror \in {NoTheme, themeFile}
  BY ThemeConstants DEF Thm!Init
<1>2. Thm!Mirrored(mirror) \in Thm!ThemeSpec
  BY <1>1, ThemeConstants DEF Thm!Mirrored
<1>3. Thm!Blank \in Thm!Controls
  BY ThemeConstants DEF Thm!Blank, Thm!Controls, Thm!Schemes, Thm!Modes, Thm!Angles
<1>4. Thm!TypeOK
  <2>1. currentTheme \in Thm!ThemeSpec /\ page \in Thm!ThemeSpec
    BY <1>2 DEF Thm!Init
  <2>2. controls \in Thm!Controls /\ hex \in Thm!Codes \cup {Unfinished}
    BY <1>3 DEF Thm!Init
  <2>3. themeChanges \in 0..MaxThemes /\ themeMishaps \subseteq Thm!Mishaps
    BY ThemeConstants DEF Thm!Init
  <2>4. mirror \in Thm!ThemeSpec \cup {NoTheme}
    BY <1>1
  <2> QED
    BY <1>1, <2>1, <2>2, <2>3, <2>4 DEF Thm!Init, Thm!TypeOK
<1> QED
  BY <1>4 DEF Thm!Init, ThemeInv, FrameOK, ThemeFileOK, ChosenOK, DrawnOK

(* A change the user makes: whichever way the controls come to show it.    *)
LEMMA ByUserKeeps ==
  ASSUME ThemeInv, NEW t \in Thm!ThemeSpec, Thm!ByUser(t),
         controls' \in Thm!Controls, hex' \in Thm!Codes \cup {Unfinished}, typing' \in BOOLEAN,
         ready => controls' = Drawn(t) /\ (~typing' => hex' = t.accent)
  PROVE  ThemeInv'
<1>1. Thm!TypeOK'
  BY ThemeConstants DEF ThemeInv, Thm!TypeOK, Thm!ByUser, Thm!Asked, Thm!Mishaps
<1>2. FrameOK' /\ ThemeFileOK'
  BY ThemeConstants DEF ThemeInv, FrameOK, ThemeFileOK, Thm!ByUser, Thm!Asked
<1>3. ChosenOK'
  BY DEF ThemeInv, Thm!TypeOK, ChosenOK, Thm!ByUser, Thm!Asked
<1>4. DrawnOK'
  BY DEF ThemeInv, DrawnOK, Thm!ByUser, Thm!Asked
<1> QED
  BY <1>1, <1>2, <1>3, <1>4 DEF ThemeInv

LEMMA SetKeeps ==
  ASSUME ThemeInv, NEW t \in Thm!ThemeSpec, Thm!setTheme(t) PROVE ThemeInv'
<1>1. controls' = Drawn(t) /\ Drawn(t) \in Thm!Controls
  BY DrawnIs DEF Thm!setTheme, ThemeInv, Thm!TypeOK
<1>2. hex' \in Thm!Codes \cup {Unfinished} /\ typing' \in BOOLEAN
  BY DEF Thm!setTheme, ThemeInv, Thm!TypeOK, Thm!ThemeSpec
<1> QED
  BY <1>1, <1>2, ByUserKeeps DEF Thm!setTheme

LEMMA MarkIs ==
  ASSUME NEW t \in Thm!ThemeSpec, NEW c \in Thm!Controls
  PROVE  Thm!markActivePreset(t, c) = [c EXCEPT !.marked = {p \in Presets : p = t}]
BY DEF Thm!markActivePreset, Thm!sameTheme

(* Handlers that leave the other controls as they are.                     *)
LEMMA PickAccentKeeps ==
  ASSUME ThemeInv, NEW c \in Colours, Thm!PickAccent(c) PROVE ThemeInv'
<1> DEFINE t == [currentTheme EXCEPT !.accent = c]
<1>1. t \in Thm!ThemeSpec /\ c \in Thm!Codes /\ Thm!Well(c) = c
  BY ThemeConstants DEF ThemeInv, Thm!TypeOK, Thm!ThemeSpec, Thm!Codes, Thm!Well
<1>2. controls' = [controls EXCEPT !.well = c, !.marked = {p \in Presets : p = t}]
  BY DEF Thm!PickAccent, Thm!setThemeInPlace, Thm!markActivePreset, Thm!sameTheme
<1>3. controls' \in Thm!Controls
  BY <1>2 DEF ThemeInv, Thm!TypeOK, Thm!Controls
<1>4. ASSUME ready PROVE controls' = Drawn(t)
  <2>1. controls = Drawn(currentTheme)
    BY <1>4 DEF ThemeInv, DrawnOK
  <2>2. Thm!renderThemeStops(t) = Thm!renderThemeStops(currentTheme)
    BY DEF Thm!renderThemeStops, ThemeInv, Thm!TypeOK, Thm!ThemeSpec
  <2>3. /\ Drawn(t).well = c /\ Drawn(t).angle = controls.angle
        /\ Drawn(t).scheme = controls.scheme /\ Drawn(t).mode = controls.mode
        /\ Drawn(t).stops = controls.stops /\ Drawn(t).marked = {p \in Presets : p = t}
        /\ Drawn(t).canAdd = controls.canAdd /\ Drawn(t).canRemove = controls.canRemove
    BY <1>1, <2>1, <2>2 DEF Drawn, ThemeInv, Thm!TypeOK, Thm!ThemeSpec
  <2>4. /\ controls'.well = c /\ controls'.angle = controls.angle
        /\ controls'.scheme = controls.scheme /\ controls'.mode = controls.mode
        /\ controls'.stops = controls.stops /\ controls'.marked = {p \in Presets : p = t}
        /\ controls'.canAdd = controls.canAdd /\ controls'.canRemove = controls.canRemove
    BY <1>2 DEF ThemeInv, Thm!TypeOK, Thm!Controls
  <2>5. Drawn(t) \in Thm!Controls
    BY <1>1, DrawnIs
  <2> DEFINE d == Drawn(t)
             e == controls'
  <2>6. /\ d \in Thm!Controls /\ e \in Thm!Controls
        /\ e.well = d.well /\ e.scheme = d.scheme /\ e.mode = d.mode /\ e.angle = d.angle
        /\ e.stops = d.stops /\ e.canAdd = d.canAdd /\ e.canRemove = d.canRemove
        /\ e.marked = d.marked
    BY <1>3, <2>3, <2>4, <2>5
  <2> HIDE DEF d, e
  <2>7. e = d
    BY <2>6, ControlsAre
  <2> QED
    BY <2>7 DEF d, e
<1>5. hex' = t.accent /\ typing' = typing
  BY DEF Thm!PickAccent, ThemeInv, Thm!TypeOK, Thm!ThemeSpec
<1> QED
  BY <1>1, <1>3, <1>4, <1>5, ByUserKeeps
     DEF Thm!PickAccent, Thm!setThemeInPlace, ThemeInv, Thm!TypeOK

LEMMA TypeCodeKeeps ==
  ASSUME ThemeInv, NEW c \in Thm!Codes, Thm!TypeCode(c) PROVE ThemeInv'
<1> DEFINE t == [currentTheme EXCEPT !.accent = c]
<1>1. t \in Thm!ThemeSpec /\ Thm!Well(c) \in Colours
  BY WellIs DEF ThemeInv, Thm!TypeOK, Thm!ThemeSpec
<1>2. controls' = [controls EXCEPT !.well = Thm!Well(c), !.marked = {p \in Presets : p = t}]
  BY DEF Thm!TypeCode, Thm!setThemeInPlace, Thm!markActivePreset, Thm!sameTheme
<1>3. controls' \in Thm!Controls
  BY <1>1, <1>2 DEF ThemeInv, Thm!TypeOK, Thm!Controls
<1>4. ASSUME ready PROVE controls' = Drawn(t)
  <2>1. controls = Drawn(currentTheme)
    BY <1>4 DEF ThemeInv, DrawnOK
  <2>2. Thm!renderThemeStops(t) = Thm!renderThemeStops(currentTheme)
    BY DEF Thm!renderThemeStops, ThemeInv, Thm!TypeOK, Thm!ThemeSpec
  <2>3. /\ Drawn(t).well = Thm!Well(c) /\ Drawn(t).angle = controls.angle
        /\ Drawn(t).scheme = controls.scheme /\ Drawn(t).mode = controls.mode
        /\ Drawn(t).stops = controls.stops /\ Drawn(t).marked = {p \in Presets : p = t}
        /\ Drawn(t).canAdd = controls.canAdd /\ Drawn(t).canRemove = controls.canRemove
    BY <1>1, <2>1, <2>2 DEF Drawn, ThemeInv, Thm!TypeOK, Thm!ThemeSpec
  <2>4. /\ controls'.well = Thm!Well(c) /\ controls'.angle = controls.angle
        /\ controls'.scheme = controls.scheme /\ controls'.mode = controls.mode
        /\ controls'.stops = controls.stops /\ controls'.marked = {p \in Presets : p = t}
        /\ controls'.canAdd = controls.canAdd /\ controls'.canRemove = controls.canRemove
    BY <1>2 DEF ThemeInv, Thm!TypeOK, Thm!Controls
  <2>5. Drawn(t) \in Thm!Controls
    BY <1>1, DrawnIs
  <2> QED
    BY <1>3, <2>3, <2>4, <2>5, ControlsAre
<1> QED
  BY <1>1, <1>3, <1>4, ByUserKeeps DEF Thm!TypeCode, Thm!setThemeInPlace

LEMMA SetAngleKeeps ==
  ASSUME ThemeInv, NEW a \in Thm!Angles, Thm!SetAngle(a) PROVE ThemeInv'
<1> DEFINE t == [currentTheme EXCEPT !.angle = a]
<1>1. t \in Thm!ThemeSpec /\ t.accent = currentTheme.accent
  BY DEF ThemeInv, Thm!TypeOK, Thm!ThemeSpec
<1>2. controls' = [controls EXCEPT !.angle = a, !.marked = {p \in Presets : p = t}]
  BY DEF Thm!SetAngle, Thm!setThemeInPlace, Thm!markActivePreset, Thm!sameTheme
<1>3. controls' \in Thm!Controls
  BY <1>2 DEF ThemeInv, Thm!TypeOK, Thm!Controls
<1>4. ASSUME ready PROVE controls' = Drawn(t)
  <2>1. controls = Drawn(currentTheme)
    BY <1>4 DEF ThemeInv, DrawnOK
  <2>2. Thm!renderThemeStops(t) = Thm!renderThemeStops(currentTheme)
    BY DEF Thm!renderThemeStops, ThemeInv, Thm!TypeOK, Thm!ThemeSpec
  <2>3. /\ Drawn(t).well = controls.well /\ Drawn(t).angle = a
        /\ Drawn(t).scheme = controls.scheme /\ Drawn(t).mode = controls.mode
        /\ Drawn(t).stops = controls.stops /\ Drawn(t).marked = {p \in Presets : p = t}
        /\ Drawn(t).canAdd = controls.canAdd /\ Drawn(t).canRemove = controls.canRemove
    BY <1>1, <2>1, <2>2 DEF Drawn, ThemeInv, Thm!TypeOK, Thm!ThemeSpec
  <2>4. /\ controls'.well = controls.well /\ controls'.angle = a
        /\ controls'.scheme = controls.scheme /\ controls'.mode = controls.mode
        /\ controls'.stops = controls.stops /\ controls'.marked = {p \in Presets : p = t}
        /\ controls'.canAdd = controls.canAdd /\ controls'.canRemove = controls.canRemove
    BY <1>2 DEF ThemeInv, Thm!TypeOK, Thm!Controls
  <2>5. Drawn(t) \in Thm!Controls
    BY <1>1, DrawnIs
  <2> QED
    BY <1>3, <2>3, <2>4, <2>5, ControlsAre
<1> QED
  BY <1>1, <1>3, <1>4, ByUserKeeps
     DEF Thm!SetAngle, Thm!setThemeInPlace, ThemeInv, Thm!TypeOK, DrawnOK

(* The well of a stop stands for the stop of its place.                    *)
LEMMA StopChanged ==
  ASSUME NEW s \in Thm!Stops, NEW i \in 1..3, NEW c \in Colours
  PROVE  [s EXCEPT ![i] = c] \in Thm!Stops
<1>1. PICK n \in 1..3 : s \in [1..n -> Colours]
  BY DEF Thm!Stops
<1>2. [s EXCEPT ![i] = c] \in [1..n -> Colours]
  BY <1>1
<1> QED
  BY <1>2 DEF Thm!Stops

LEMMA PickStopKeeps ==
  ASSUME ThemeInv, NEW i \in 1..3, NEW c \in Colours, Thm!PickStop(i, c) PROVE ThemeInv'
<1> DEFINE t == [currentTheme EXCEPT !.stops[i] = c]
<1> DEFINE new == [currentTheme.stops EXCEPT ![i] = c]
<1>1. /\ t = [currentTheme EXCEPT !.stops = new] /\ new \in Thm!Stops
      /\ currentTheme.stops \in Seq(Colours) /\ Len(currentTheme.stops) \in 1..3
  BY StopChanged, StopsAre DEF ThemeInv, Thm!TypeOK, Thm!ThemeSpec
<1>2. t \in Thm!ThemeSpec /\ t.accent = currentTheme.accent /\ t.stops = new
  BY <1>1 DEF ThemeInv, Thm!TypeOK, Thm!ThemeSpec
<1>3. controls' = [controls EXCEPT !.stops = [controls.stops EXCEPT ![i] = c],
                                   !.marked = {p \in Presets : p = t}]
  BY DEF Thm!PickStop, Thm!setThemeInPlace, Thm!markActivePreset, Thm!sameTheme,
         ThemeInv, Thm!TypeOK, Thm!Controls
<1>4. [controls.stops EXCEPT ![i] = c] \in Thm!Stops
  <2>1. controls.stops \in Thm!Stops
    BY DEF Thm!PickStop, ThemeInv, Thm!TypeOK, Thm!Controls
  <2> QED
    BY <2>1, StopChanged
<1>5. controls' \in Thm!Controls
  BY <1>3, <1>4 DEF ThemeInv, Thm!TypeOK, Thm!Controls
<1>6. ASSUME ready PROVE controls' = Drawn(t)
  <2>1. controls = Drawn(currentTheme) /\ Len(new) = Len(currentTheme.stops)
    BY <1>1, <1>6 DEF ThemeInv, DrawnOK
  <2>2. [controls.stops EXCEPT ![i] = c] = Thm!renderThemeStops(t)
    <3>1. CASE currentTheme.mode = "solid"
      <4>1. controls.stops = <<currentTheme.stops[1]>> /\ i = 1
        BY <2>1, <3>1 DEF Drawn, Thm!renderThemeStops, Thm!PickStop
      <4>2. t.mode = "solid" /\ new[1] = c
        BY <1>1, <3>1, <4>1 DEF ThemeInv, Thm!TypeOK, Thm!ThemeSpec
      <4> QED
        BY <1>2, <4>1, <4>2 DEF Thm!renderThemeStops
    <3>2. CASE currentTheme.mode # "solid"
      <4>1. t.mode # "solid"
        BY <1>1, <3>2 DEF ThemeInv, Thm!TypeOK, Thm!ThemeSpec
      <4> QED
        BY <1>2, <2>1, <3>2, <4>1 DEF Drawn, Thm!renderThemeStops
    <3> QED
      BY <3>1, <3>2
  <2>3. t.scheme = currentTheme.scheme /\ t.mode = currentTheme.mode
        /\ t.angle = currentTheme.angle
    BY <1>1 DEF ThemeInv, Thm!TypeOK, Thm!ThemeSpec
  <2> QED
    BY <1>2, <1>3, <2>1, <2>2, <2>3 DEF Drawn
<1> QED
  BY <1>2, <1>5, <1>6, ByUserKeeps
     DEF Thm!PickStop, Thm!setThemeInPlace, ThemeInv, Thm!TypeOK, DrawnOK

(* Handlers after which the controls are drawn anew.                       *)
LEMMA SetSteps ==
  ASSUME ThemeInv,
         \/ \E s \in Thm!Schemes : Thm!SetScheme(s)
         \/ \E m \in Thm!Modes : Thm!SetMode(m)
         \/ \E p \in Presets : Thm!PickPreset(p)
         \/ Thm!AddStop \/ Thm!RemoveStop \/ Thm!Reset
  PROVE  ThemeInv'
<1>0. /\ currentTheme \in Thm!ThemeSpec
      /\ currentTheme.stops \in Seq(Colours) /\ Len(currentTheme.stops) \in 1..3
  BY StopsAre DEF ThemeInv, Thm!TypeOK, Thm!ThemeSpec
<1>1. ASSUME NEW s \in Thm!Schemes, Thm!SetScheme(s) PROVE ThemeInv'
  <2>1. [currentTheme EXCEPT !.scheme = s] \in Thm!ThemeSpec
    BY <1>0 DEF Thm!ThemeSpec
  <2> QED
    BY <1>1, <2>1, SetKeeps DEF Thm!SetScheme
<1>2. ASSUME NEW m \in Thm!Modes, Thm!SetMode(m) PROVE ThemeInv'
  <2>1. [currentTheme EXCEPT !.mode = m] \in Thm!ThemeSpec
    BY <1>0 DEF Thm!ThemeSpec
  <2> QED
    BY <1>2, <2>1, SetKeeps DEF Thm!SetMode
<1>3. ASSUME NEW p \in Presets, Thm!PickPreset(p) PROVE ThemeInv'
  BY <1>3, SetKeeps, ThemeConstants DEF Thm!PickPreset
<1>4. ASSUME Thm!AddStop PROVE ThemeInv'
  <2> DEFINE s == currentTheme.stops
             more == Append(s, s[Len(s)])
  <2>6. Len(s) < 3
    BY <1>4 DEF Thm!AddStop
  <2>7. s \in Seq(Colours) /\ Len(s) \in 1..3
    BY <1>0
  <2>1. more \in Seq(Colours) /\ Len(more) = Len(s) + 1 /\ Len(s) < 3
    <3> HIDE DEF s
    <3>1. Len(s) \in 1..Len(s)
      BY <2>7
    <3>2. s[Len(s)] \in Colours
      BY <2>7, <3>1, ElementOfSeq
    <3> QED
      BY <2>6, <2>7, <3>2, AppendProperties
  <2> HIDE DEF more
  <2>2. Len(more) \in 1..3
    BY <1>0, <2>1
  <2>3. more \in Thm!Stops
    BY <2>1, <2>2, AreStops
  <2>4. [currentTheme EXCEPT !.stops = more] \in Thm!ThemeSpec
    BY <1>0, <2>3 DEF Thm!ThemeSpec
  <2>5. Thm!setTheme([currentTheme EXCEPT !.stops = more])
    BY <1>0, <1>4 DEF Thm!AddStop, more, Thm!ThemeSpec
  <2> QED
    BY <2>4, <2>5, SetKeeps
<1>5. ASSUME Thm!RemoveStop PROVE ThemeInv'
  <2> DEFINE s == currentTheme.stops
             fewer == SubSeq(s, 1, Len(s) - 1)
  <2>1. fewer \in Seq(Colours) /\ Len(fewer) = Len(s) - 1 /\ Len(s) > 1
    BY <1>0, <1>5 DEF Thm!RemoveStop
  <2> HIDE DEF fewer
  <2>2. Len(fewer) \in 1..3
    BY <1>0, <2>1
  <2>3. fewer \in Thm!Stops
    BY <2>1, <2>2, AreStops
  <2>4. [currentTheme EXCEPT !.stops = fewer] \in Thm!ThemeSpec
    BY <1>0, <2>3 DEF Thm!ThemeSpec
  <2>5. Thm!setTheme([currentTheme EXCEPT !.stops = fewer])
    BY <1>0, <1>5 DEF Thm!RemoveStop, fewer, Thm!ThemeSpec
  <2> QED
    BY <2>4, <2>5, SetKeeps
<1>6. ASSUME Thm!Reset PROVE ThemeInv'
  BY <1>6, SetKeeps, ThemeConstants DEF Thm!Reset
<1> QED
  BY <1>1, <1>2, <1>3, <1>4, <1>5, <1>6

(* The field is typed in and left.                                         *)
LEMMA FieldSteps ==
  ASSUME ThemeInv, Thm!TypeUnfinished \/ Thm!LeaveField PROVE ThemeInv'
<1>1. CASE Thm!TypeUnfinished
  <2>1. Thm!TypeOK'
    BY <1>1 DEF Thm!TypeUnfinished, ThemeInv, Thm!TypeOK
  <2> QED
    BY <1>1, <2>1 DEF Thm!TypeUnfinished, ThemeInv, FrameOK, ThemeFileOK, ChosenOK, DrawnOK
<1>2. CASE Thm!LeaveField
  <2>1. currentTheme.accent \in Thm!Codes /\ currentTheme \in Thm!ThemeSpec
    BY DEF ThemeInv, Thm!TypeOK, Thm!ThemeSpec
  <2>2. controls' = Thm!renderThemeControls(currentTheme, controls)
    BY <1>2 DEF Thm!LeaveField
  <2>3. controls' \in Thm!Controls
    <3>1. [controls' EXCEPT !.marked = {p \in Presets : p = currentTheme}] = Drawn(currentTheme)
      BY <2>1, <2>2, DrawnIs DEF Thm!markActivePreset, Thm!sameTheme, ThemeInv, Thm!TypeOK
    <3> QED
      BY <2>1, <2>2, <3>1, DrawnIs DEF Thm!renderThemeControls, ThemeInv, Thm!TypeOK, Thm!Controls
  <2>4. ASSUME ready PROVE controls' = Drawn(currentTheme)
    <3>1. controls = Drawn(currentTheme)
      BY <2>4 DEF ThemeInv, DrawnOK
    <3>2. [controls' EXCEPT !.marked = {p \in Presets : p = currentTheme}] = Drawn(currentTheme)
      BY <2>1, <2>2, DrawnIs DEF Thm!markActivePreset, Thm!sameTheme, ThemeInv, Thm!TypeOK
    <3>3. controls'.marked = controls.marked
      BY <2>2 DEF Thm!renderThemeControls, ThemeInv, Thm!TypeOK, Thm!Controls
    <3>4. controls.marked = {p \in Presets : p = currentTheme}
      BY <3>1 DEF Drawn
    <3> QED
      BY <2>3, <3>2, <3>3, <3>4 DEF Thm!Controls
  <2>5. Thm!TypeOK'
    BY <1>2, <2>1, <2>3 DEF Thm!LeaveField, ThemeInv, Thm!TypeOK
  <2> QED
    BY <1>2, <2>4, <2>5 DEF Thm!LeaveField, ThemeInv, FrameOK, ThemeFileOK, ChosenOK, DrawnOK
<1> QED
  BY <1>1, <1>2

(* The frame, the timer, and the reading of the settings.                  *)
LEMMA DueSteps ==
  ASSUME ThemeInv, Thm!applyPendingTheme \/ Thm!SaveTimer \/ Thm!ReadSettings PROVE ThemeInv'
<1>1. CASE Thm!applyPendingTheme
  <2>1. Thm!TypeOK'
    BY <1>1 DEF Thm!applyPendingTheme, Thm!applyTheme, ThemeInv, Thm!TypeOK
  <2>2. currentTheme' = currentTheme
    BY <1>1 DEF Thm!applyPendingTheme, ThemeInv, FrameOK
  <2> QED
    BY <1>1, <2>1, <2>2, ThemeConstants
       DEF Thm!applyPendingTheme, Thm!applyTheme, Thm!Mirrored, ThemeInv, Thm!TypeOK,
           FrameOK, ThemeFileOK, ChosenOK, DrawnOK
<1>2. CASE Thm!SaveTimer
  <2>1. Thm!TypeOK'
    BY <1>2 DEF Thm!SaveTimer, ThemeInv, Thm!TypeOK
  <2> QED
    BY <1>2, <2>1 DEF Thm!SaveTimer, ThemeInv, FrameOK, ThemeFileOK, ChosenOK, DrawnOK
<1>3. CASE Thm!ReadSettings
  <2>1. currentTheme' \in Thm!ThemeSpec /\ themeFrame' \in Thm!ThemeSpec \cup {NoTheme}
    BY <1>3 DEF Thm!ReadSettings, ThemeInv, Thm!TypeOK
  <2>2. controls' = Drawn(currentTheme')
    BY <1>3, <2>1, DrawnIs DEF Thm!ReadSettings, ThemeInv, Thm!TypeOK
  <2>3. Drawn(currentTheme') \in Thm!Controls /\ currentTheme'.accent \in Thm!Codes
    BY <2>1, DrawnIs DEF Thm!ThemeSpec
  <2>4. Thm!TypeOK'
    BY <1>3, <2>1, <2>2, <2>3 DEF Thm!ReadSettings, ThemeInv, Thm!TypeOK
  <2>5. FrameOK' /\ ThemeFileOK'
    BY <1>3, ThemeConstants
       DEF Thm!ReadSettings, ThemeInv, Thm!TypeOK, FrameOK, ThemeFileOK
  <2>6. ChosenOK'
    BY <1>3 DEF Thm!ReadSettings, ThemeInv, ChosenOK
  <2>7. DrawnOK'
    BY <1>3, <2>2 DEF Thm!ReadSettings, DrawnOK
  <2> QED
    BY <2>4, <2>5, <2>6, <2>7 DEF ThemeInv
<1> QED
  BY <1>1, <1>2, <1>3

(* The page goes away.                                                     *)
LEMMA ReloadSteps ==
  ASSUME ThemeInv, Thm!Relaunch \/ \E p \in Presets : Thm!Import(p) PROVE ThemeInv'
<1>1. ASSUME Thm!Loaded PROVE
      /\ currentTheme' \in Thm!ThemeSpec /\ page' = currentTheme' /\ themeFrame' = NoTheme
      /\ mirror' = mirror /\ currentTheme' = Thm!Mirrored(mirror)
      /\ controls' \in Thm!Controls /\ ready' = FALSE /\ typing' = FALSE
      /\ themeSaveTimer' = FALSE /\ hex' = Unfinished
  <2>1. Thm!Blank \in Thm!Controls
    BY ThemeConstants DEF Thm!Blank, Thm!Controls, Thm!Schemes, Thm!Modes, Thm!Angles
  <2> QED
    BY <1>1, <2>1, ThemeConstants DEF Thm!Loaded, Thm!Mirrored, ThemeInv, Thm!TypeOK
<1>2. CASE Thm!Relaunch
  <2>1. Thm!TypeOK'
    BY <1>1, <1>2, ThemeConstants DEF Thm!Relaunch, ThemeInv, Thm!TypeOK, Thm!Mishaps
  <2>2. FrameOK' /\ ThemeFileOK' /\ DrawnOK'
    BY <1>1, <1>2 DEF Thm!Relaunch, FrameOK, ThemeFileOK, DrawnOK, Thm!Mirrored
  <2>3. ChosenOK'
    BY <1>1, <1>2 DEF Thm!Relaunch, ThemeInv, ChosenOK
  <2> QED
    BY <2>1, <2>2, <2>3 DEF ThemeInv
<1>3. ASSUME NEW p \in Presets, Thm!Import(p) PROVE ThemeInv'
  <2>1. Thm!TypeOK'
    BY <1>1, <1>3, ThemeConstants DEF Thm!Import, ThemeInv, Thm!TypeOK, Thm!Mishaps
  <2>2. FrameOK' /\ ThemeFileOK' /\ DrawnOK'
    BY <1>1, <1>3 DEF Thm!Import, FrameOK, ThemeFileOK, DrawnOK, Thm!Mirrored
  <2>3. ChosenOK'
    BY <1>3 DEF Thm!Import, ChosenOK
  <2> QED
    BY <2>1, <2>2, <2>3 DEF ThemeInv
<1> QED
  BY <1>2, <1>3

LEMMA ThemeStays == ASSUME ThemeInv, UNCHANGED Thm!vars PROVE ThemeInv'
BY DEF Thm!vars, ThemeInv, Thm!TypeOK, FrameOK, ThemeFileOK, ChosenOK, DrawnOK

(* The strengthening of the next theorem: while no frame is due the page   *)
(* and its mirror have the theme, while no save is due the file has it,    *)
(* and controls that were not drawn anew show what they would if they      *)
(* were.                                                                   *)
THEOREM ThemeCorrect == Thm!Spec => []ThemeInv
<1>1. ASSUME ThemeInv, [Thm!Next]_(Thm!vars) PROVE ThemeInv'
  BY <1>1, DueSteps, PickAccentKeeps, PickStopKeeps, SetAngleKeeps, SetSteps, FieldSteps,
     TypeCodeKeeps, ReloadSteps, ThemeStays DEF Thm!Next
<1> QED
  BY ThemeInit, <1>1, PTL DEF Thm!Spec

(* Whatever is dragged, typed, imported or lost on the way: at rest the    *)
(* theme is the same in the page, its mirror and the file, it is the one   *)
(* the user made last, and the controls show it at any time (setTheme,     *)
(* applyPendingTheme, init).                                               *)
THEOREM ThemeAgrees == Thm!Spec => []ThemeHolds
<1>1. ThemeInv => ThemeHolds
  <2> SUFFICES ASSUME ThemeInv PROVE ThemeHolds
    OBVIOUS
  <2>1. Thm!ThemeIsOne
    BY DEF Thm!ThemeIsOne, Thm!AtRest, ThemeInv, FrameOK, ThemeFileOK, Thm!Mirrored
  <2>2. Thm!ChoiceStays
    BY DEF Thm!ChoiceStays, Thm!AtRest, ThemeInv, ThemeFileOK, ChosenOK
  <2>3. Thm!ControlsAreHonest
    <3> SUFFICES ASSUME ready PROVE
          /\ controls = Thm!markActivePreset(currentTheme,
                            Thm!renderThemeControls(currentTheme, controls))
          /\ ~typing => hex = currentTheme.accent
          /\ currentTheme.accent # Short => controls.well = currentTheme.accent
      BY DEF Thm!ControlsAreHonest
    <3>1. controls = Drawn(currentTheme) /\ (~typing => hex = currentTheme.accent)
      BY DEF ThemeInv, DrawnOK
    <3>2. Drawn(currentTheme) = Thm!markActivePreset(currentTheme,
                                    Thm!renderThemeControls(currentTheme, controls))
      BY DrawnIs DEF ThemeInv, Thm!TypeOK
    <3>3. controls.well = Thm!Well(currentTheme.accent)
      BY <3>1 DEF Drawn
    <3> QED
      BY <3>1, <3>2, <3>3 DEF Thm!Well
  <2> QED
    BY <2>1, <2>2, <2>3 DEF ThemeHolds
<1> QED
  BY ThemeCorrect, <1>1, PTL

(***************************************************************************)
(* The parts together.                                                     *)
(***************************************************************************)
(* The state of every part has its type (PartsTypeOK).                     *)
THEOREM PartsTyped ==
    /\ Hot!Spec /\ Bdg!Spec /\ Adr!Spec /\ Dns!Spec /\ Dia!Spec /\ Cam!Spec
    /\ His!Spec /\ Scr!Spec /\ Sav!Spec /\ Thm!Spec
    => []PartsTypeOK
<1>1. /\ HotInv => Hot!TypeOK
      /\ BdgInv => Bdg!TypeOK
      /\ AdrInv => Adr!TypeOK
      /\ DnsInv => Dns!TypeOK
      /\ DiaInv => Dia!TypeOK
      /\ CamInv => Cam!TypeOK
  BY DEF HotInv, BdgInv, AdrInv, DnsInv, DiaInv, CamInv
<1>2. /\ HisInv => His!TypeOK
      /\ ScrInv => Scr!TypeOK
      /\ ThemeInv => Thm!TypeOK
  BY DEF HisInv, ScrInv, ThemeInv
<1>3. SavInv => Sav!TypeOK
  BY SavTypesAre DEF SavInv
<1>4. HotInv /\ BdgInv /\ AdrInv /\ DnsInv /\ DiaInv /\ CamInv /\ HisInv /\ ScrInv /\ SavInv
      /\ ThemeInv => PartsTypeOK
  BY <1>1, <1>2, <1>3 DEF PartsTypeOK
<1> QED
  BY <1>4, HotCorrect, BadgeInvCorrect, AddressInvCorrect, DnsCorrect, DialogsCorrect,
     CameraCorrect, HistoryCorrect, ScreenCorrect, SettingsCorrect, ThemeCorrect, PTL
==============================================================================
