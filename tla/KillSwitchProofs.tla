-------------------------- MODULE KillSwitchProofs --------------------------
(***************************************************************************)
(* What the kill switch keeps to, whatever the set of goroutines and of    *)
(* addresses, and wherever the process dies, until a call meets another or *)
(* netsh fails: the rules implement module Blocking, and the marker tells  *)
(* of them.  That the block goes last needs the first condition only.      *)
(***************************************************************************)
EXTENDS KillSwitch, TLAPS

(***************************************************************************)
(* The inductive invariant: one operation at a time, and what is known of  *)
(* the rules at each point of it.                                          *)
(***************************************************************************)
OneBusy == \A t, u \in Actors : step[t] # Idle /\ step[u] # Idle => t = u

DeadIsIdle == ~alive => Settled

MainRecovers == step[Main] # Idle => step[Main].op = "recover"

InPlace(t) ==
    /\ step[t].at = "idle" => step[t] = Idle
    /\ step[t].op = "replace" => elevated
    /\ step[t].at \in {"addLan", "addAllow", "addBlock"} => step[t].op = "replace"
    /\ step[t].at = "delLan"   => (elevated => ~block)
    /\ step[t].at = "delAllow" => (elevated => ~block /\ ~lan)
    /\ step[t].at = "show"     => (elevated => ~AnyRule)
    /\ step[t].at = "unmark"   => ~AnyRule
    /\ step[t].at = "addLan"   => ~block
    /\ step[t].at = "addAllow" => lan /\ ~block
    /\ step[t].at = "addBlock" => lan /\ allow # {} /\ ~block

BlockExempts == block => lan /\ allow # {}

(* Rules that this process has not touched are recorded, and it is still   *)
(* removing them or has said that it cannot.                               *)
Recorded ==
    (~unrecorded /\ AnyRule) =>
        /\ ~alive => marker
        /\ (alive /\ untouched) => marker /\ (step[Main] # Idle \/ (stuck /\ ~elevated))

Fresh == (alive /\ untouched) => \A t \in Threads : step[t] = Idle

Inv == /\ TypeOK /\ OneBusy /\ DeadIsIdle /\ MainRecovers
       /\ \A t \in Actors : InPlace(t)
       /\ BlockExempts /\ Fresh /\ Recorded

(* The record of a goroutine, taken apart.                                 *)
LEMMA PointIs ==
    ASSUME NEW op, NEW at, NEW todo
    PROVE  At(op, at, todo).op = op /\ At(op, at, todo).at = at /\ At(op, at, todo).todo = todo
BY DEF At

(* A point of an operation is a record of the type.                        *)
LEMMA PointType ==
    ASSUME NEW op \in {"replace", "undo", "disable", "recover", "none"},
           NEW at \in {"delBlock", "delLan", "delAllow", "show", "unmark",
                       "addLan", "addAllow", "addBlock", "mark", "idle"},
           NEW todo \in SUBSET Addresses
    PROVE  At(op, at, todo) \in Steps
BY DEF At, Steps

(* The next point of the same operation, by the step that goes there.      *)
LEMMA NextPoint ==
    ASSUME NEW r \in Steps, NEW at \in {"delLan", "delAllow", "addLan", "show"}
    PROVE  LET s == At(r.op, at, r.todo) IN s \in Steps /\ s.op = r.op /\ s.at = at
BY DEF At, Steps

(* The idle goroutine, taken apart.                                        *)
LEMMA IdleIs == Idle \in Steps /\ Idle.at = "idle" /\ Idle.op = "none"
BY PointType, PointIs DEF Idle

(* An idle goroutine knows nothing of the rules.                           *)
LEMMA IdleInPlace == ASSUME NEW t, step'[t] = Idle PROVE InPlace(t)'
BY IdleIs DEF InPlace

(* A step of the only busy goroutine, or of one that becomes it.           *)
LEMMA OneMoves ==
    ASSUME TypeOK, NEW t \in Actors, NEW s \in Steps, step' = [step EXCEPT ![t] = s],
           \A u \in Actors \ {t} : step[u] = Idle
    PROVE  /\ step' \in [Actors -> Steps] /\ step'[t] = s
           /\ OneBusy'
           /\ InPlace(t)' => \A u \in Actors : InPlace(u)'
<1>1. step' \in [Actors -> Steps] /\ step'[t] = s
  BY DEF TypeOK
<1>2. \A u \in Actors \ {t} : step'[u] = Idle
  BY DEF TypeOK
<1>3. OneBusy'
  BY <1>2 DEF OneBusy
<1>4. \A u \in Actors \ {t} : InPlace(u)'
  BY <1>2, IdleInPlace
<1> QED
  BY <1>1, <1>3, <1>4

(* Beside a busy goroutine the others are idle.                            *)
LEMMA OthersIdle ==
    ASSUME Inv, NEW t \in Actors, step[t] # Idle
    PROVE  \A u \in Actors \ {t} : step[u] = Idle
BY DEF Inv, OneBusy

(* A goroutine that stands anywhere is busy.                               *)
LEMMA NotIdle == ASSUME NEW t, step[t].at # "idle" PROVE step[t] # Idle
BY IdleIs

(* A goroutine on its way that goes on to s, as every step of a call does. *)
LEMMA BusyMoves ==
    ASSUME Inv, alive, alive', NEW t \in Actors, NEW s \in Steps, step[t].at # "idle",
           step' = [step EXCEPT ![t] = s],
           t = Main => s = Idle \/ s.op = "recover"
    PROVE  /\ step' \in [Actors -> Steps] /\ step'[t] = s
           /\ OneBusy' /\ DeadIsIdle' /\ MainRecovers'
           /\ (untouched' = untouched) => Fresh'
           /\ InPlace(t)' => \A u \in Actors : InPlace(u)'
<1>1. step[t] # Idle /\ \A u \in Actors \ {t} : step[u] = Idle
  BY NotIdle, OthersIdle
<1>2. /\ step' \in [Actors -> Steps] /\ step'[t] = s /\ OneBusy'
      /\ InPlace(t)' => \A u \in Actors : InPlace(u)'
  BY <1>1, OneMoves DEF Inv
<1>3. DeadIsIdle'
  BY DEF DeadIsIdle
<1>4. MainRecovers'
  <2>1. CASE t = Main
    BY <1>1, <1>2, <2>1 DEF MainRecovers, Inv
  <2>2. CASE t # Main
    BY <1>1, <2>2 DEF MainRecovers, Inv, TypeOK, Actors
  <2> QED
    BY <2>1, <2>2
<1>5. ASSUME untouched' = untouched PROVE Fresh'
  <2>1. ASSUME untouched PROVE t \notin Threads
    BY <1>1, <2>1 DEF Fresh, Inv
  <2> QED
    BY <1>1, <1>5, <2>1 DEF Fresh, Inv, TypeOK, Actors
<1> QED
  BY <1>2, <1>3, <1>4, <1>5

(* Main is at work only on its recovery.                                   *)
LEMMA MainOp == ASSUME Inv, step[Main].at # "idle" PROVE step[Main].op = "recover"
BY NotIdle DEF Inv, MainRecovers

(* With netsh at hand a change happens exactly when the process may.       *)
LEMMA ChangesAre ==
    ASSUME TypeOK, ~faulty', NEW made \in BOOLEAN, Changes(made)
    PROVE  made = elevated
BY DEF Changes, Attempt, TypeOK

(* What is recorded stays so while rules only go and Main works on.        *)
LEMMA RecordedKept ==
    ASSUME Inv, alive, alive', NEW t \in Actors, NEW s \in Steps, s.at # "idle",
           step' = [step EXCEPT ![t] = s], AnyRule' => AnyRule,
           UNCHANGED <<marker, elevated, stuck, untouched, unrecorded>>
    PROVE  Recorded'
<1>1. step'[Main] # Idle \/ step[Main] = Idle
  <2>1. CASE t = Main
    BY <2>1, IdleIs DEF Inv, TypeOK, Actors
  <2>2. CASE t # Main
    BY <2>2 DEF Inv, TypeOK, Actors
  <2> QED
    BY <2>1, <2>2
<1> QED
  BY <1>1 DEF Recorded, Inv

(* A caller that has begun has touched the rules.                          *)
LEMMA CallerTouched ==
    ASSUME Inv, alive, alive', NEW t \in Threads, step[t] # Idle, UNCHANGED untouched
    PROVE  Recorded'
BY DEF Recorded, Fresh, Inv

(***************************************************************************)
(* Removing the rules.                                                     *)
(***************************************************************************)
LEMMA DeleteBlockInv ==
    ASSUME Inv, TypeOK', ~faulty', NEW t \in Actors, DeleteBlock(t)
    PROVE  Inv'
<1> DEFINE s == At(step[t].op, "delLan", step[t].todo)
<1>1. TypeOK /\ step[t] \in Steps /\ elevated \in BOOLEAN
  BY DEF Inv, TypeOK
<1>2. s \in Steps /\ s.op = step[t].op /\ s.at = "delLan"
  BY <1>1, NextPoint
<1>3. /\ alive /\ alive' /\ step[t].at = "delBlock" /\ step' = [step EXCEPT ![t] = s]
      /\ UNCHANGED <<lan, allow, marker, elevated, stuck, untouched, unrecorded>>
  BY <1>1 DEF DeleteBlock, Doing, Goto, procVars
<1>4. block' = (block /\ ~elevated)
  BY <1>1, ChangesAre DEF DeleteBlock
<1>5. t = Main => s.op = "recover"
  BY <1>2, <1>3, MainOp
<1> HIDE DEF s
<1>6. /\ step' \in [Actors -> Steps] /\ step'[t] = s
      /\ OneBusy' /\ DeadIsIdle' /\ MainRecovers' /\ Fresh'
      /\ InPlace(t)' => \A u \in Actors : InPlace(u)'
  BY <1>2, <1>3, <1>5, BusyMoves
<1>7. InPlace(t)'
  BY <1>1, <1>2, <1>3, <1>4, <1>6 DEF InPlace, Inv
<1>8. BlockExempts'
  BY <1>1, <1>3, <1>4, <1>6 DEF BlockExempts, Inv
<1>9. Recorded'
  BY <1>2, <1>3, <1>4, RecordedKept DEF AnyRule
<1> QED
  BY <1>6, <1>7, <1>8, <1>9 DEF Inv

(* The LAN exception goes when the block has gone.                         *)
LEMMA DeleteLanInv ==
    ASSUME Inv, TypeOK', ~faulty', NEW t \in Actors, DeleteLan(t)
    PROVE  Inv'
<1> DEFINE s == At(step[t].op, "delAllow", step[t].todo)
<1>1. TypeOK /\ step[t] \in Steps /\ elevated \in BOOLEAN
  BY DEF Inv, TypeOK
<1>2. s \in Steps /\ s.op = step[t].op /\ s.at = "delAllow"
  BY <1>1, NextPoint
<1>3. /\ alive /\ alive' /\ step[t].at = "delLan" /\ step' = [step EXCEPT ![t] = s]
      /\ UNCHANGED <<block, allow, marker, elevated, stuck, untouched, unrecorded>>
  BY <1>1 DEF DeleteLan, Doing, Goto, procVars
<1>4. lan' = (lan /\ ~elevated)
  BY <1>1, ChangesAre DEF DeleteLan
<1>5. t = Main => s.op = "recover"
  BY <1>2, <1>3, MainOp
<1> HIDE DEF s
<1>6. /\ step' \in [Actors -> Steps] /\ step'[t] = s
      /\ OneBusy' /\ DeadIsIdle' /\ MainRecovers' /\ Fresh'
      /\ InPlace(t)' => \A u \in Actors : InPlace(u)'
  BY <1>2, <1>3, <1>5, BusyMoves
<1>7. elevated => ~block
  BY <1>3 DEF InPlace, Inv
<1>8. InPlace(t)'
  BY <1>1, <1>2, <1>3, <1>4, <1>6, <1>7 DEF InPlace, Inv
<1>9. BlockExempts'
  BY <1>1, <1>3, <1>4, <1>6, <1>7 DEF BlockExempts, Inv
<1>10. Recorded'
  BY <1>2, <1>3, <1>4, RecordedKept DEF AnyRule
<1> QED
  BY <1>6, <1>8, <1>9, <1>10 DEF Inv

(* Three ways on: to the additions, to the removal of startCore, to the    *)
(* verdict.                                                                *)
LEMMA DeleteAllowInv ==
    ASSUME Inv, TypeOK', ~faulty', NEW t \in Actors, DeleteAllow(t)
    PROVE  Inv'
<1>1. TypeOK /\ step[t] \in Steps /\ elevated \in BOOLEAN
  BY DEF Inv, TypeOK
<1>2. /\ alive /\ alive' /\ step[t].at = "delAllow"
      /\ UNCHANGED <<block, lan, marker, elevated, stuck, untouched, unrecorded>>
  BY <1>1 DEF DeleteAllow, Doing, procVars
<1>3. allow' = IF elevated THEN {} ELSE allow
  BY <1>1, ChangesAre DEF DeleteAllow
<1>4. elevated => ~block /\ ~lan
  BY <1>2 DEF InPlace, Inv
<1>5. step[t].op = "replace" => elevated
  BY DEF InPlace, Inv
<1>6. PICK s \in Steps :
        /\ step' = [step EXCEPT ![t] = s]
        /\ \/ step[t].op = "replace" /\ s.op = "replace" /\ s.at = "addLan"
           \/ step[t].op = "undo" /\ s.op = "disable" /\ s.at = "delBlock"
           \/ s.op = step[t].op /\ step[t].op # "replace" /\ s.at = "show"
  <2>1. CASE step[t].op = "replace"
    <3>1. step' = [step EXCEPT ![t] = At(step[t].op, "addLan", step[t].todo)]
      BY <2>1 DEF DeleteAllow, Goto
    <3>2. /\ At(step[t].op, "addLan", step[t].todo) \in Steps
          /\ At(step[t].op, "addLan", step[t].todo).op = "replace"
          /\ At(step[t].op, "addLan", step[t].todo).at = "addLan"
      BY <1>1, <2>1, NextPoint
    <3> QED
      BY <2>1, <3>1, <3>2
  <2>2. CASE step[t].op = "undo"
    <3>1. step' = [step EXCEPT ![t] = At("disable", "delBlock", {})]
      BY <2>2 DEF DeleteAllow, Goto
    <3>2. At("disable", "delBlock", {}) \in Steps
      BY PointType
    <3>3. At("disable", "delBlock", {}).op = "disable" /\ At("disable", "delBlock", {}).at = "delBlock"
      BY DEF At
    <3> QED
      BY <2>2, <3>1, <3>2, <3>3
  <2>3. CASE step[t].op \notin {"replace", "undo"}
    <3>1. step' = [step EXCEPT ![t] = At(step[t].op, "show", {})]
      BY <2>3 DEF DeleteAllow, Goto
    <3>2. At(step[t].op, "show", {}) \in Steps
      BY <1>1, PointType DEF Steps
    <3>3. At(step[t].op, "show", {}).op = step[t].op /\ At(step[t].op, "show", {}).at = "show"
      BY DEF At
    <3> QED
      BY <2>3, <3>1, <3>2, <3>3
  <2> QED
    BY <2>1, <2>2, <2>3
<1>7. t = Main => s.op = "recover"
  BY <1>2, <1>6, MainOp
<1>8. /\ step' \in [Actors -> Steps] /\ step'[t] = s
      /\ OneBusy' /\ DeadIsIdle' /\ MainRecovers' /\ Fresh'
      /\ InPlace(t)' => \A u \in Actors : InPlace(u)'
  BY <1>2, <1>6, <1>7, BusyMoves
<1>9. elevated => ~AnyRule'
  BY <1>2, <1>3, <1>4 DEF AnyRule
<1>10. InPlace(t)'
  BY <1>2, <1>4, <1>5, <1>6, <1>8, <1>9 DEF InPlace
<1>11. BlockExempts'
  BY <1>1, <1>2, <1>3, <1>4, <1>8 DEF BlockExempts, Inv
<1>12. Recorded'
  <2>1. s.at # "idle" /\ (AnyRule' => AnyRule)
    BY <1>2, <1>3, <1>6 DEF AnyRule
  <2> QED
    BY <1>2, <1>6, <2>1, RecordedKept
<1> QED
  BY <1>8, <1>10, <1>11, <1>12 DEF Inv

(* With netsh at hand the verdict is the truth, so the marker is given up  *)
(* only when the rules are gone.                                           *)
LEMMA ShowInv ==
    ASSUME Inv, TypeOK', ~faulty', NEW t \in Actors, Show(t)
    PROVE  Inv'
<1>1. TypeOK /\ step[t] \in Steps /\ stuck \in BOOLEAN
  BY DEF Inv, TypeOK
<1>2. /\ alive /\ alive' /\ step[t].at = "show"
      /\ UNCHANGED <<block, lan, allow, marker, elevated, untouched, unrecorded>>
  BY <1>1 DEF Show, Doing, rules
<1>3. AnyRule' <=> AnyRule
  BY <1>2 DEF AnyRule
<1>4. AnyRule => ~elevated
  BY <1>2 DEF InPlace, Inv
<1>5. CASE AnyRule
  <2>1. step' = [step EXCEPT ![t] = Idle] /\ stuck' = (stuck \/ step[t].op = "recover")
    BY <1>1, <1>5 DEF Show, Attempt, Goto, Idle
  <2>2. Idle \in Steps
    BY IdleIs
  <2>3. /\ step' \in [Actors -> Steps] /\ step'[t] = Idle
        /\ OneBusy' /\ DeadIsIdle' /\ MainRecovers' /\ Fresh'
        /\ InPlace(t)' => \A u \in Actors : InPlace(u)'
    BY <1>2, <2>1, <2>2, BusyMoves
  <2>4. InPlace(t)'
    BY <2>3, IdleInPlace
  <2>5. BlockExempts'
    BY <1>1, <1>2, <2>1, <2>3 DEF BlockExempts, Inv
  <2>6. Recorded'
    <3>1. CASE t = Main
      <4>1. stuck' /\ ~elevated'
        BY <1>2, <1>4, <1>5, <2>1, <3>1, MainOp
      <4> QED
        BY <1>2, <1>3, <4>1 DEF Recorded, Inv
    <3>2. CASE t \in Threads
      BY <1>2, <3>2, NotIdle, CallerTouched
    <3> QED
      BY <3>1, <3>2 DEF Actors
  <2> QED
    BY <2>3, <2>4, <2>5, <2>6 DEF Inv
<1>6. CASE ~AnyRule
  <2> DEFINE s == At(step[t].op, "unmark", {})
  <2>1. step' = [step EXCEPT ![t] = s] /\ stuck' = stuck
    BY <1>1, <1>6 DEF Show, Attempt, Goto
  <2>2. s \in Steps
    BY <1>1, PointType DEF Steps
  <2>3. s.op = step[t].op /\ s.at = "unmark"
    BY DEF At
  <2>4. t = Main => s.op = "recover"
    BY <1>2, <2>3, MainOp
  <2> HIDE DEF s
  <2>5. /\ step' \in [Actors -> Steps] /\ step'[t] = s
        /\ OneBusy' /\ DeadIsIdle' /\ MainRecovers' /\ Fresh'
        /\ InPlace(t)' => \A u \in Actors : InPlace(u)'
    BY <1>2, <2>1, <2>2, <2>4, BusyMoves
  <2>6. InPlace(t)'
    BY <1>2, <1>3, <1>6, <2>3, <2>5 DEF InPlace, Inv
  <2>7. BlockExempts'
    BY <1>1, <1>2, <2>1, <2>5 DEF BlockExempts, Inv
  <2>8. Recorded'
    BY <1>3, <1>6 DEF Recorded
  <2> QED
    BY <2>5, <2>6, <2>7, <2>8 DEF Inv
<1> QED
  BY <1>5, <1>6

(* The marker is given up when no rule is left.                            *)
LEMMA UnmarkInv ==
    ASSUME Inv, TypeOK', ~faulty', NEW t \in Actors, Unmark(t)
    PROVE  Inv'
<1>1. TypeOK /\ Idle \in Steps
  BY IdleIs DEF Inv
<1>2. /\ alive /\ alive' /\ step[t].at = "unmark" /\ step' = [step EXCEPT ![t] = Idle]
      /\ marker' = FALSE
      /\ UNCHANGED <<block, lan, allow, elevated, stuck, untouched, unrecorded>>
  BY <1>1 DEF Unmark, Doing, Goto, Idle, rules, procVars
<1>3. /\ step' \in [Actors -> Steps] /\ step'[t] = Idle
      /\ OneBusy' /\ DeadIsIdle' /\ MainRecovers' /\ Fresh'
      /\ InPlace(t)' => \A u \in Actors : InPlace(u)'
  BY <1>1, <1>2, BusyMoves
<1>4. InPlace(t)'
  BY <1>3, IdleInPlace
<1>5. BlockExempts'
  BY <1>1, <1>2, <1>3 DEF BlockExempts, Inv
<1>6. ~AnyRule /\ ~AnyRule'
  BY <1>2 DEF InPlace, Inv, AnyRule
<1> QED
  BY <1>3, <1>4, <1>5, <1>6 DEF Inv, Recorded

(***************************************************************************)
(* A caller begins, and adds rules.                                        *)
(***************************************************************************)
LEMMA BeginInv ==
    ASSUME Inv, TypeOK', ~overlapped', NEW t \in Threads,
           BeginDisable(t) \/ \E ips \in SUBSET Addresses : BeginEnable(t, ips)
    PROVE  Inv'
<1>1. TypeOK /\ t \in Actors /\ Main \in Actors /\ t # Main
  BY KillSwitchAssumption DEF Inv, Actors
<1>2. /\ alive /\ alive' /\ step[t].at = "idle" /\ step[Main] = Idle /\ untouched' = FALSE
      /\ UNCHANGED <<block, lan, allow, marker, elevated, stuck, unrecorded>>
  BY DEF BeginDisable, BeginEnable, Begin, Doing, rules
<1>3. PICK s \in Steps :
        /\ step' = [step EXCEPT ![t] = s] /\ s.at = "delBlock"
        /\ s.op = "disable" \/ (s.op = "replace" /\ elevated)
  <2>1. CASE BeginDisable(t)
    <3>1. step' = [step EXCEPT ![t] = At("disable", "delBlock", {})]
      BY <2>1 DEF BeginDisable, Goto
    <3>2. At("disable", "delBlock", {}) \in Steps
      BY PointType
    <3>3. At("disable", "delBlock", {}).op = "disable" /\ At("disable", "delBlock", {}).at = "delBlock"
      BY DEF At
    <3> QED
      BY <3>1, <3>2, <3>3
  <2>2. CASE \E ips \in SUBSET Addresses : BeginEnable(t, ips)
    <3>0. PICK ips \in SUBSET Addresses : BeginEnable(t, ips)
      BY <2>2
    <3>1. step' = [step EXCEPT ![t] = At("replace", "delBlock", ips)] /\ elevated
      BY <3>0 DEF BeginEnable, Goto
    <3>2. At("replace", "delBlock", ips) \in Steps
      BY PointType
    <3>3. At("replace", "delBlock", ips).op = "replace" /\ At("replace", "delBlock", ips).at = "delBlock"
      BY DEF At
    <3> QED
      BY <3>1, <3>2, <3>3
  <2> QED
    BY <2>1, <2>2
<1>4. \A u \in Actors \ {t} : step[u] = Idle
  BY DEF BeginDisable, BeginEnable, Begin, Settled
<1>5. /\ step' \in [Actors -> Steps] /\ step'[t] = s /\ OneBusy'
      /\ InPlace(t)' => \A u \in Actors : InPlace(u)'
  BY <1>1, <1>3, <1>4, OneMoves
<1>6. InPlace(t)'
  BY <1>2, <1>3, <1>5 DEF InPlace
<1>7. BlockExempts'
  BY <1>1, <1>2, <1>5 DEF BlockExempts, Inv
<1>8. DeadIsIdle' /\ Fresh' /\ Recorded'
  BY <1>2 DEF DeadIsIdle, Fresh, Recorded
<1>9. MainRecovers'
  BY <1>1, <1>2, <1>3 DEF MainRecovers, TypeOK
<1> QED
  BY <1>5, <1>6, <1>7, <1>8, <1>9 DEF Inv

(* A caller that is adding rules.                                          *)
LEMMA AddMoves ==
    ASSUME Inv, NEW t \in Threads, NEW s \in Steps, alive, alive', step[t].at # "idle",
           step' = [step EXCEPT ![t] = s], UNCHANGED untouched
    PROVE  /\ step' \in [Actors -> Steps] /\ step'[t] = s
           /\ OneBusy' /\ DeadIsIdle' /\ MainRecovers' /\ Fresh' /\ Recorded'
           /\ InPlace(t)' => \A u \in Actors : InPlace(u)'
<1>1. t \in Actors /\ t # Main
  BY KillSwitchAssumption DEF Actors
<1>2. Recorded'
  BY NotIdle, CallerTouched
<1> QED
  BY <1>1, <1>2, BusyMoves

(* The points of the additions.                                            *)
LEMMA AddPoint ==
    ASSUME NEW at \in {"addAllow", "addBlock", "mark"}, NEW todo \in SUBSET Addresses
    PROVE  /\ At("replace", at, todo) \in Steps
           /\ At("replace", at, todo).op = "replace" /\ At("replace", at, todo).at = at
BY DEF At, Steps

(* The LAN exception comes first.                                          *)
LEMMA AddLanInv ==
    ASSUME Inv, TypeOK', ~faulty', NEW t \in Threads, AddLan(t)
    PROVE  Inv'
<1> DEFINE s == At("replace", "addAllow", step[t].todo)
<1>1. TypeOK /\ t \in Actors /\ step[t] \in Steps
  BY DEF Inv, Actors, TypeOK
<1>2. s \in Steps /\ s.op = "replace" /\ s.at = "addAllow"
  BY <1>1, AddPoint DEF Steps
<1>3. /\ alive /\ alive' /\ step[t].at = "addLan" /\ step' = [step EXCEPT ![t] = s] /\ lan' = TRUE
      /\ UNCHANGED <<block, allow, marker, elevated, stuck, untouched, unrecorded>>
  BY DEF AddLan, Fail, Attempt, Doing, Goto, procVars
<1> HIDE DEF s
<1>4. ~block /\ elevated
  BY <1>1, <1>3 DEF InPlace, Inv
<1>5. /\ step' \in [Actors -> Steps] /\ step'[t] = s
      /\ OneBusy' /\ DeadIsIdle' /\ MainRecovers' /\ Fresh' /\ Recorded'
      /\ InPlace(t)' => \A u \in Actors : InPlace(u)'
  BY <1>2, <1>3, AddMoves
<1>6. InPlace(t)'
  BY <1>2, <1>3, <1>4, <1>5 DEF InPlace
<1>7. BlockExempts'
  BY <1>1, <1>3, <1>4, <1>5 DEF BlockExempts
<1> QED
  BY <1>5, <1>6, <1>7 DEF Inv

(* Then the addresses of the server, one at a time.                        *)
LEMMA AddAllowInv ==
    ASSUME Inv, TypeOK', ~faulty', NEW t \in Threads, AddAllow(t)
    PROVE  Inv'
<1>1. TypeOK /\ t \in Actors /\ step[t] \in Steps
  BY DEF Inv, Actors, TypeOK
<1>2. /\ alive /\ alive' /\ step[t].at = "addAllow"
      /\ UNCHANGED <<block, lan, marker, elevated, stuck, untouched, unrecorded>>
  BY DEF AddAllow, Fail, Attempt, Doing, procVars
<1>3. PICK ip \in step[t].todo :
        /\ allow' = allow \cup {ip}
        /\ Goto(t, "replace", IF step[t].todo \ {ip} = {} THEN "addBlock" ELSE "addAllow",
                step[t].todo \ {ip})
  BY DEF AddAllow, Fail, Attempt
<1>4. step[t].todo \in SUBSET Addresses
  BY <1>1 DEF Steps
<1>5. PICK at \in {"addAllow", "addBlock"} :
        step' = [step EXCEPT ![t] = At("replace", at, step[t].todo \ {ip})]
  BY <1>3 DEF Goto
<1> DEFINE s == At("replace", at, step[t].todo \ {ip})
<1>6. s \in Steps /\ s.op = "replace" /\ s.at = at
  BY <1>4, AddPoint
<1>7. step' = [step EXCEPT ![t] = s]
  BY <1>5
<1> HIDE DEF s
<1>8. lan /\ ~block /\ elevated
  BY <1>1, <1>2 DEF InPlace, Inv
<1>9. /\ step' \in [Actors -> Steps] /\ step'[t] = s
      /\ OneBusy' /\ DeadIsIdle' /\ MainRecovers' /\ Fresh' /\ Recorded'
      /\ InPlace(t)' => \A u \in Actors : InPlace(u)'
  BY <1>2, <1>6, <1>7, AddMoves
<1>10. allow' # {} /\ allow' \in SUBSET Addresses
  BY <1>1, <1>3, <1>4 DEF TypeOK
<1>11. InPlace(t)'
  BY <1>2, <1>6, <1>8, <1>9, <1>10 DEF InPlace
<1>12. BlockExempts'
  BY <1>1, <1>2, <1>8, <1>9, <1>10 DEF BlockExempts
<1> QED
  BY <1>9, <1>11, <1>12 DEF Inv

(* The block comes when the exceptions are in place.                       *)
LEMMA AddBlockInv ==
    ASSUME Inv, TypeOK', ~faulty', NEW t \in Threads, AddBlock(t)
    PROVE  Inv'
<1> DEFINE s == At("replace", "mark", {})
<1>1. TypeOK /\ t \in Actors /\ step[t] \in Steps
  BY DEF Inv, Actors, TypeOK
<1>2. s \in Steps /\ s.op = "replace" /\ s.at = "mark"
  BY AddPoint
<1>3. /\ alive /\ alive' /\ step[t].at = "addBlock" /\ step' = [step EXCEPT ![t] = s] /\ block' = TRUE
      /\ UNCHANGED <<lan, allow, marker, elevated, stuck, untouched, unrecorded>>
  BY DEF AddBlock, Fail, Attempt, Doing, Goto, procVars
<1> HIDE DEF s
<1>4. lan /\ allow # {} /\ elevated
  BY <1>1, <1>3 DEF InPlace, Inv
<1>5. /\ step' \in [Actors -> Steps] /\ step'[t] = s
      /\ OneBusy' /\ DeadIsIdle' /\ MainRecovers' /\ Fresh' /\ Recorded'
      /\ InPlace(t)' => \A u \in Actors : InPlace(u)'
  BY <1>2, <1>3, AddMoves
<1>6. InPlace(t)'
  BY <1>2, <1>3, <1>4, <1>5 DEF InPlace
<1>7. BlockExempts'
  BY <1>1, <1>3, <1>4, <1>5 DEF BlockExempts
<1> QED
  BY <1>5, <1>6, <1>7 DEF Inv

(* The marker is written when the rules are up.                            *)
LEMMA WriteMarkerInv ==
    ASSUME Inv, TypeOK', ~faulty', NEW t \in Threads, WriteMarker(t)
    PROVE  Inv'
<1>1. TypeOK /\ t \in Actors /\ Idle \in Steps
  BY IdleIs DEF Inv, Actors
<1>2. /\ alive /\ alive' /\ step[t].at = "mark" /\ step' = [step EXCEPT ![t] = Idle]
      /\ UNCHANGED <<block, lan, allow, elevated, stuck, untouched, unrecorded>>
  BY DEF WriteMarker, Doing, Goto, Idle, rules, procVars
<1>3. marker' \in BOOLEAN
  BY DEF WriteMarker
<1>4. /\ step' \in [Actors -> Steps] /\ step'[t] = Idle
      /\ OneBusy' /\ DeadIsIdle' /\ MainRecovers' /\ Fresh' /\ Recorded'
      /\ InPlace(t)' => \A u \in Actors : InPlace(u)'
  BY <1>1, <1>2, AddMoves
<1>5. InPlace(t)'
  BY <1>4, IdleInPlace
<1>6. BlockExempts'
  BY <1>1, <1>2, <1>3, <1>4 DEF BlockExempts, Inv
<1> QED
  BY <1>4, <1>5, <1>6 DEF Inv

(***************************************************************************)
(* The process dies and is started again.                                  *)
(***************************************************************************)
LEMMA CrashInv ==
    ASSUME Inv, TypeOK', Crash
    PROVE  Inv'
<1>1. TypeOK /\ Idle \in Steps /\ AnyRule \in BOOLEAN
  BY IdleIs DEF Inv, AnyRule
<1>2. /\ alive' = FALSE /\ step' = [t \in Actors |-> Idle] /\ unrecorded' = (AnyRule /\ ~marker)
      /\ UNCHANGED <<block, lan, allow, marker, elevated, stuck, untouched>>
  BY DEF Crash, rules
<1>3. \A t \in Actors : step'[t] = Idle
  BY <1>2
<1>4. OneBusy' /\ DeadIsIdle' /\ Fresh' /\ \A t \in Actors : InPlace(t)'
  BY <1>2, <1>3, IdleInPlace DEF OneBusy, DeadIsIdle, Settled, Fresh
<1>5. MainRecovers'
  BY <1>3 DEF MainRecovers, Actors
<1>6. BlockExempts' /\ Recorded'
  BY <1>2 DEF BlockExempts, Recorded, AnyRule, Inv
<1> QED
  BY <1>4, <1>5, <1>6 DEF Inv

(* A launch takes the marker at its word.                                  *)
LEMMA LaunchInv ==
    ASSUME Inv, TypeOK', Launch
    PROVE  Inv'
<1>1. TypeOK /\ Main \in Actors /\ Main \notin Threads
  BY KillSwitchAssumption DEF Inv, Actors
<1>2. /\ ~alive /\ alive' = TRUE /\ elevated' \in BOOLEAN /\ stuck' = FALSE /\ untouched' = TRUE
      /\ UNCHANGED <<block, lan, allow, marker, unrecorded>>
  BY DEF Launch, rules
<1>3. \A t \in Actors : step[t] = Idle
  BY <1>2 DEF DeadIsIdle, Settled, Inv
<1>4. DeadIsIdle' /\ BlockExempts'
  BY <1>2 DEF DeadIsIdle, BlockExempts, Inv
<1>5. CASE marker
  <2> DEFINE s == At("recover", "delBlock", {})
  <2>1. s \in Steps
    BY PointType
  <2>2. s.op = "recover" /\ s.at = "delBlock"
    BY DEF At
  <2>3. step' = [step EXCEPT ![Main] = s]
    BY <1>5 DEF Launch, Goto
  <2> HIDE DEF s
  <2>4. /\ step' \in [Actors -> Steps] /\ step'[Main] = s /\ OneBusy'
        /\ InPlace(Main)' => \A u \in Actors : InPlace(u)'
    BY <1>1, <1>3, <2>1, <2>3, OneMoves
  <2>5. InPlace(Main)'
    BY <2>2, <2>4 DEF InPlace
  <2>6. MainRecovers'
    BY <2>2, <2>4 DEF MainRecovers
  <2>7. Fresh'
    BY <1>1, <1>3, <2>3 DEF Fresh, TypeOK, Actors
  <2>8. Recorded'
    BY <1>2, <1>5, <2>2, <2>4, IdleIs DEF Recorded
  <2> QED
    BY <1>4, <2>4, <2>5, <2>6, <2>7, <2>8 DEF Inv
<1>6. CASE ~marker
  <2>1. step' = step
    BY <1>6 DEF Launch
  <2>2. OneBusy' /\ Fresh' /\ \A t \in Actors : InPlace(t)'
    BY <1>3, <2>1, IdleInPlace DEF OneBusy, Fresh, Actors
  <2>3. MainRecovers'
    BY <1>1, <1>3, <2>1 DEF MainRecovers
  <2>4. Recorded'
    BY <1>2, <1>6 DEF Recorded, AnyRule, Inv
  <2> QED
    BY <1>4, <2>2, <2>3, <2>4 DEF Inv
<1> QED
  BY <1>5, <1>6

(* A machine without rules satisfies the invariant.                        *)
LEMMA InitInv == Init => Inv
<1> SUFFICES ASSUME Init PROVE Inv
  OBVIOUS
<1>1. TypeOK
  BY IdleIs DEF Init, TypeOK
<1>2. \A t \in Actors : step[t] = Idle
  BY DEF Init
<1>3. \A t \in Actors : InPlace(t)
  BY <1>2, IdleIs DEF InPlace
<1>4. OneBusy /\ DeadIsIdle /\ Fresh /\ MainRecovers
  BY <1>2 DEF OneBusy, DeadIsIdle, Settled, Fresh, MainRecovers, Actors
<1>5. BlockExempts /\ Recorded
  BY DEF Init, BlockExempts, Recorded, AnyRule
<1> QED
  BY <1>1, <1>3, <1>4, <1>5 DEF Inv

(* Every step keeps the types, netsh failing or not.                       *)
LEMMA TypeStep == ASSUME TypeOK, [Next]_vars PROVE TypeOK'
<1>1. ASSUME NEW t \in Threads, NEW ips \in SUBSET Addresses, BeginDisable(t) \/ BeginEnable(t, ips)
      PROVE  TypeOK'
  <2>1. /\ At("disable", "delBlock", {}) \in Steps
        /\ At("replace", "delBlock", ips) \in Steps
    BY PointType
  <2> QED
    BY <1>1, <2>1 DEF BeginDisable, BeginEnable, Begin, Goto, TypeOK, rules
<1>2. ASSUME NEW t \in Threads, AddLan(t) \/ AddAllow(t) \/ AddBlock(t) \/ WriteMarker(t)
      PROVE  TypeOK'
  <2>1. /\ step[t].todo \in SUBSET Addresses
        /\ \A todo \in SUBSET Addresses :
             /\ At("replace", "addAllow", todo) \in Steps
             /\ At("replace", "addBlock", todo) \in Steps
             /\ At("replace", "mark", todo) \in Steps
        /\ At("undo", "delBlock", {}) \in Steps
        /\ At("none", "idle", {}) \in Steps
    BY PointType DEF TypeOK, Actors, Steps
  <2>2. CASE Fail(t)
    BY <2>1, <2>2, <1>2 DEF Fail, Attempt, Goto, TypeOK, rules, procVars
  <2>3. CASE AddLan(t) /\ ~Fail(t)
    BY <2>1, <2>3 DEF AddLan, Goto, TypeOK, procVars
  <2>4. CASE AddAllow(t) /\ ~Fail(t)
    <3>1. PICK ip \in step[t].todo :
            /\ allow' = allow \cup {ip}
            /\ Goto(t, "replace", IF step[t].todo \ {ip} = {} THEN "addBlock" ELSE "addAllow",
                    step[t].todo \ {ip})
            /\ UNCHANGED <<block, lan, marker, procVars, unrecorded, faulty, overlapped>>
      BY <2>4 DEF AddAllow
    <3>2. allow' \in SUBSET Addresses
      BY <2>1, <3>1 DEF TypeOK
    <3>3. step' \in [Actors -> Steps]
      BY <2>1, <3>1 DEF Goto, TypeOK
    <3> QED
      BY <3>1, <3>2, <3>3 DEF TypeOK, procVars
  <2>5. CASE AddBlock(t) /\ ~Fail(t)
    BY <2>1, <2>5 DEF AddBlock, Goto, TypeOK, procVars
  <2>6. CASE WriteMarker(t)
    BY <2>1, <2>6 DEF WriteMarker, Attempt, Goto, TypeOK, rules, procVars
  <2> QED
    BY <1>2, <2>2, <2>3, <2>4, <2>5, <2>6
<1>3. ASSUME NEW t \in Actors, Disable(t) PROVE TypeOK'
  <2>1. /\ \A at \in {"delLan", "delAllow", "addLan", "show", "unmark"} :
             At(step[t].op, at, step[t].todo) \in Steps /\ At(step[t].op, at, {}) \in Steps
        /\ At("replace", "addLan", step[t].todo) \in Steps
        /\ At("disable", "delBlock", {}) \in Steps
        /\ At("none", "idle", {}) \in Steps
    BY DEF At, TypeOK, Steps
  <2>2. CASE DeleteBlock(t)
    BY <2>1, <2>2 DEF DeleteBlock, Changes, Attempt, Goto, TypeOK, procVars
  <2>3. CASE DeleteLan(t)
    BY <2>1, <2>3 DEF DeleteLan, Changes, Attempt, Goto, TypeOK, procVars
  <2>4. CASE DeleteAllow(t)
    <3>1. PICK s \in Steps : step' = [step EXCEPT ![t] = s]
      BY <2>1, <2>4 DEF DeleteAllow, Goto
    <3> QED
      BY <2>4, <3>1 DEF DeleteAllow, Changes, Attempt, TypeOK, procVars
  <2>5. CASE Show(t)
    BY <2>1, <2>5 DEF Show, Attempt, Goto, TypeOK, rules
  <2>6. CASE Unmark(t)
    BY <2>1, <2>6 DEF Unmark, Goto, TypeOK, rules, procVars
  <2> QED
    BY <1>3, <2>2, <2>3, <2>4, <2>5, <2>6 DEF Disable
<1>4. CASE Crash
  BY <1>4, IdleIs DEF Crash, TypeOK, AnyRule, rules
<1>5. CASE Launch
  <2>1. At("recover", "delBlock", {}) \in Steps
    BY PointType
  <2> QED
    BY <1>5, <2>1 DEF Launch, Goto, TypeOK, rules
<1>6. CASE UNCHANGED vars
  BY <1>6 DEF vars, rules, procVars, TypeOK
<1> QED
  BY <1>1, <1>2, <1>3, <1>4, <1>5, <1>6 DEF Next, Enable

(* The kill switch keeps its types.                                        *)
THEOREM TypeCorrect == Spec => []TypeOK
<1>1. Init => TypeOK
  BY InitInv DEF Inv
<1> QED
  BY <1>1, TypeStep, PTL DEF Spec

(* What went wrong once stays on record.                                   *)
LEMMA RecordKept ==
    ASSUME TypeOK, [Next]_vars
    PROVE  (~faulty' => ~faulty) /\ (~overlapped' => ~overlapped)
<1> USE DEF TypeOK
<1>1. CASE Crash \/ Launch \/ UNCHANGED vars
  BY <1>1 DEF Crash, Launch, vars
<1>2. ASSUME NEW t \in Threads, NEW ips, BeginDisable(t) \/ BeginEnable(t, ips)
      PROVE  (~faulty' => ~faulty) /\ (~overlapped' => ~overlapped)
  BY <1>2 DEF BeginDisable, BeginEnable, Begin
<1>3. ASSUME NEW t \in Threads, AddLan(t) \/ AddAllow(t) \/ AddBlock(t) \/ WriteMarker(t)
      PROVE  (~faulty' => ~faulty) /\ overlapped' = overlapped
  <2>1. CASE AddLan(t)
    BY <2>1 DEF AddLan, Fail, Attempt
  <2>2. CASE AddAllow(t)
    <3>1. CASE Fail(t)
      BY <3>1 DEF Fail, Attempt
    <3>2. CASE ~Fail(t)
      <4>1. UNCHANGED <<faulty, overlapped>>
        BY <2>2, <3>2 DEF AddAllow
      <4> QED
        BY <4>1
    <3> QED
      BY <3>1, <3>2
  <2>3. CASE AddBlock(t)
    BY <2>3 DEF AddBlock, Fail, Attempt
  <2>4. CASE WriteMarker(t)
    BY <2>4 DEF WriteMarker, Attempt
  <2> QED
    BY <1>3, <2>1, <2>2, <2>3, <2>4
<1>4. ASSUME NEW t \in Actors, Disable(t)
      PROVE  (~faulty' => ~faulty) /\ overlapped' = overlapped
  <2>1. CASE DeleteBlock(t)
    BY <2>1 DEF DeleteBlock, Changes, Attempt
  <2>2. CASE DeleteLan(t)
    BY <2>2 DEF DeleteLan, Changes, Attempt
  <2>3. CASE DeleteAllow(t)
    BY <2>3 DEF DeleteAllow, Changes, Attempt
  <2>4. CASE Show(t)
    BY <2>4 DEF Show, Attempt
  <2>5. CASE Unmark(t)
    BY <2>5 DEF Unmark
  <2> QED
    BY <1>4, <2>1, <2>2, <2>3, <2>4, <2>5 DEF Disable
<1> QED
  BY <1>1, <1>2, <1>3, <1>4 DEF Next, Enable

(* A smooth step starts from a smooth state.                               *)
LEMMA SmoothBefore == ASSUME TypeOK, [Next]_vars, Smooth' PROVE Smooth
BY RecordKept DEF Smooth

(* A step that goes smoothly keeps the invariant.                          *)
LEMMA InvStep == ASSUME Inv, [Next]_vars, Smooth' PROVE Inv'
<1>1. TypeOK' /\ ~faulty' /\ ~overlapped'
  BY TypeStep DEF Inv, Smooth
<1>2. ASSUME NEW t \in Threads, BeginDisable(t) PROVE Inv'
  BY <1>1, <1>2, BeginInv
<1>3. ASSUME NEW t \in Threads, Enable(t) PROVE Inv'
  BY <1>1, <1>3, BeginInv, AddLanInv, AddAllowInv, AddBlockInv, WriteMarkerInv DEF Enable
<1>4. ASSUME NEW t \in Actors, Disable(t) PROVE Inv'
  BY <1>1, <1>4, DeleteBlockInv, DeleteLanInv, DeleteAllowInv, ShowInv, UnmarkInv DEF Disable
<1>5. CASE Crash \/ Launch
  BY <1>1, <1>5, CrashInv, LaunchInv
<1>6. CASE UNCHANGED vars
  BY <1>6 DEF vars, rules, procVars, Inv, TypeOK, OneBusy, DeadIsIdle, Settled,
              MainRecovers, InPlace, BlockExempts, Fresh, Recorded, AnyRule
<1> QED
  BY <1>2, <1>3, <1>4, <1>5, <1>6 DEF Next

(* Until a call meets another or netsh fails, the invariant holds.         *)
THEOREM InvCorrect == Spec => [](Smooth => Inv)
<1>1. Init => (Smooth => Inv)
  BY InitInv
<1>2. TypeOK /\ (Smooth => Inv) /\ [Next]_vars => (Smooth => Inv)'
  BY SmoothBefore, InvStep
<1> QED
  BY <1>1, <1>2, TypeCorrect, PTL DEF Spec

(***************************************************************************)
(* The order of the additions holds whether netsh runs or not, for a       *)
(* failed one ends the attempt; what it needs is that nobody removes an    *)
(* exception meanwhile.                                                    *)
(***************************************************************************)
OnTheWay(t) ==
    /\ step[t].at = "addAllow" => lan
    /\ step[t].at = "addBlock" => lan /\ allow # {}

Ordered == OneBusy /\ DeadIsIdle /\ \A t \in Actors : OnTheWay(t)

(* A step to a point that asks nothing of the rules.                       *)
LEMMA OrderedMoves ==
    ASSUME TypeOK, Ordered, alive, alive', NEW t \in Actors, NEW s \in Steps,
           step' = [step EXCEPT ![t] = s],
           step[t] # Idle \/ Settled,
           s.at = "addAllow" => lan', s.at = "addBlock" => lan' /\ allow' # {}
    PROVE  Ordered'
<1>1. \A u \in Actors \ {t} : step[u] = Idle
  BY DEF Ordered, OneBusy, Settled
<1>2. OneBusy' /\ step'[t] = s
  BY <1>1, OneMoves
<1>3. \A u \in Actors \ {t} : step'[u] = Idle
  BY <1>1 DEF TypeOK
<1>4. \A u \in Actors : OnTheWay(u)'
  BY <1>2, <1>3, IdleIs DEF OnTheWay
<1> QED
  BY <1>2, <1>4 DEF Ordered, DeadIsIdle

(* The additions keep the order.                                           *)
LEMMA AddOrdered ==
    ASSUME TypeOK, Ordered, NEW t \in Threads,
           AddLan(t) \/ AddAllow(t) \/ AddBlock(t) \/ WriteMarker(t)
    PROVE  Ordered'
<1>1. t \in Actors /\ step[t].todo \in SUBSET Addresses /\ step[t] # Idle /\ alive
  BY IdleIs DEF Actors, TypeOK, Steps, AddLan, AddAllow, AddBlock, WriteMarker, Doing
<1>2. CASE Fail(t)
  <2>1. step' = [step EXCEPT ![t] = At("undo", "delBlock", {})] /\ alive'
    BY <1>1, <1>2 DEF Fail, Goto, procVars
  <2>2. At("undo", "delBlock", {}) \in Steps /\ At("undo", "delBlock", {}).at = "delBlock"
    BY DEF At, Steps
  <2> QED
    BY <1>1, <2>1, <2>2, OrderedMoves
<1>3. CASE AddLan(t) /\ ~Fail(t)
  <2> DEFINE s == At("replace", "addAllow", step[t].todo)
  <2>1. step' = [step EXCEPT ![t] = s] /\ alive' /\ lan'
    BY <1>1, <1>3 DEF AddLan, Goto, procVars
  <2>2. s \in Steps /\ s.at = "addAllow"
    BY <1>1, AddPoint
  <2> HIDE DEF s
  <2> QED
    BY <1>1, <2>1, <2>2, OrderedMoves
<1>4. CASE AddAllow(t) /\ ~Fail(t)
  <2>1. PICK ip \in step[t].todo, at \in {"addAllow", "addBlock"} :
          /\ allow' = allow \cup {ip}
          /\ step' = [step EXCEPT ![t] = At("replace", at, step[t].todo \ {ip})]
          /\ UNCHANGED <<block, lan, marker, procVars, unrecorded, faulty, overlapped>>
    BY <1>4 DEF AddAllow, Goto
  <2> DEFINE s == At("replace", at, step[t].todo \ {ip})
  <2>2. s \in Steps /\ s.at = at
    BY <1>1, AddPoint
  <2>3. step' = [step EXCEPT ![t] = s] /\ alive' /\ allow' # {} /\ lan' = lan
    BY <1>1, <2>1 DEF procVars
  <2>4. lan
    BY <1>1, <1>4 DEF AddAllow, Doing, Ordered, OnTheWay
  <2> HIDE DEF s
  <2> QED
    BY <1>1, <2>2, <2>3, <2>4, OrderedMoves
<1>5. CASE AddBlock(t) /\ ~Fail(t)
  <2> DEFINE s == At("replace", "mark", {})
  <2>1. step' = [step EXCEPT ![t] = s] /\ alive'
    BY <1>1, <1>5 DEF AddBlock, Goto, procVars
  <2>2. s \in Steps /\ s.at = "mark"
    BY AddPoint
  <2> HIDE DEF s
  <2> QED
    BY <1>1, <2>1, <2>2, OrderedMoves
<1>6. CASE WriteMarker(t)
  <2>1. step' = [step EXCEPT ![t] = Idle] /\ alive'
    BY <1>1, <1>6 DEF WriteMarker, Goto, Idle, procVars
  <2> QED
    BY <1>1, <2>1, IdleIs, OrderedMoves
<1> QED
  BY <1>2, <1>3, <1>4, <1>5, <1>6

(* So do the removals, which go on to no addition but the first.           *)
LEMMA RemoveOrdered ==
    ASSUME TypeOK, Ordered, NEW t \in Actors, Disable(t)
    PROVE  Ordered'
<1>1. alive /\ alive' /\ step[t] # Idle /\ step[t] \in Steps
  BY IdleIs DEF Disable, DeleteBlock, DeleteLan, DeleteAllow, Show, Unmark, Doing, procVars, TypeOK
<1>2. PICK s \in Steps : step' = [step EXCEPT ![t] = s] /\ s.at \notin {"addAllow", "addBlock"}
  <2>1. \A at \in {"delLan", "delAllow", "addLan", "show", "unmark"} :
          /\ At(step[t].op, at, step[t].todo) \in Steps /\ At(step[t].op, at, {}) \in Steps
          /\ At(step[t].op, at, step[t].todo).at = at /\ At(step[t].op, at, {}).at = at
    BY <1>1 DEF At, Steps
  <2>2. CASE DeleteBlock(t) \/ DeleteLan(t)
    BY <2>1, <2>2 DEF DeleteBlock, DeleteLan, Goto
  <2>3. CASE DeleteAllow(t)
    <3>1. /\ At("disable", "delBlock", {}) \in Steps
          /\ At("disable", "delBlock", {}).at = "delBlock"
      BY DEF At, Steps
    <3> QED
      BY <2>1, <2>3, <3>1 DEF DeleteAllow, Goto
  <2>4. CASE Show(t) \/ Unmark(t)
    <3>1. Idle \in Steps /\ Idle.at = "idle"
      BY IdleIs
    <3> QED
      BY <2>1, <2>4, <3>1 DEF Show, Unmark, Goto, Idle
  <2> QED
    BY <2>2, <2>3, <2>4 DEF Disable
<1> QED
  BY <1>1, <1>2, OrderedMoves

(* Until a call meets another, the order holds.                            *)
LEMMA OrderedStep == ASSUME TypeOK, Ordered, [Next]_vars, ~overlapped' PROVE Ordered'
<1>1. ASSUME NEW t \in Threads, NEW ips \in SUBSET Addresses, BeginDisable(t) \/ BeginEnable(t, ips)
      PROVE  Ordered'
  <2>1. alive /\ alive' /\ Settled /\ t \in Actors
    <3>1. Begin(t)
      BY <1>1 DEF BeginDisable, BeginEnable
    <3>2. alive /\ alive' /\ t \in Actors
      BY <3>1 DEF Begin, Doing, Actors
    <3>3. Settled
      BY <3>1 DEF Begin, Settled
    <3> QED
      BY <3>2, <3>3
  <2>2. PICK s \in Steps : step' = [step EXCEPT ![t] = s] /\ s.at = "delBlock"
    <3>1. /\ At("disable", "delBlock", {}) \in Steps
          /\ At("disable", "delBlock", {}).at = "delBlock"
          /\ At("replace", "delBlock", ips) \in Steps
          /\ At("replace", "delBlock", ips).at = "delBlock"
      BY DEF At, Steps
    <3> QED
      BY <1>1, <3>1 DEF BeginDisable, BeginEnable, Goto
  <2> QED
    BY <2>1, <2>2, OrderedMoves
<1>2. CASE Crash
  <2>1. \A t \in Actors : step'[t] = Idle
    BY <1>2 DEF Crash
  <2> QED
    BY <2>1, IdleIs DEF Ordered, OneBusy, DeadIsIdle, Settled, OnTheWay
<1>3. CASE Launch
  <2>1. Main \in Actors /\ alive' /\ Settled
    BY <1>3 DEF Launch, Actors, Ordered, DeadIsIdle
  <2>2. CASE marker
    <3> DEFINE s == At("recover", "delBlock", {})
    <3>1. s \in Steps /\ s.at = "delBlock"
      BY DEF At, Steps
    <3>2. step' = [step EXCEPT ![Main] = s]
      BY <1>3, <2>2 DEF Launch, Goto
    <3> HIDE DEF s
    <3>3. OneBusy' /\ step'[Main] = s
      BY <2>1, <3>1, <3>2, OneMoves DEF Settled
    <3>4. \A u \in Actors \ {Main} : step'[u] = Idle
      BY <2>1, <3>2 DEF Settled, TypeOK
    <3>5. \A u \in Actors : OnTheWay(u)'
      <4>1. OnTheWay(Main)'
        BY <3>1, <3>3 DEF OnTheWay
      <4>2. ASSUME NEW u \in Actors \ {Main} PROVE OnTheWay(u)'
        BY <3>4, IdleIs DEF OnTheWay
      <4> QED
        BY <4>1, <4>2
    <3> QED
      BY <2>1, <3>3, <3>5 DEF Ordered, DeadIsIdle
  <2>3. CASE ~marker
    <3>1. step' = step
      BY <1>3, <2>3 DEF Launch
    <3> QED
      BY <2>1, <3>1, IdleIs DEF Ordered, OneBusy, DeadIsIdle, Settled, OnTheWay
  <2> QED
    BY <2>2, <2>3
<1>4. CASE UNCHANGED vars
  BY <1>4 DEF vars, rules, procVars, Ordered, OneBusy, DeadIsIdle, Settled, OnTheWay
<1> QED
  BY <1>1, <1>2, <1>3, <1>4, AddOrdered, RemoveOrdered DEF Next, Enable

(* The traffic is never cut off before the LAN and a server are exempted,  *)
(* however netsh fails, as long as no call meets another.                  *)
THEOREM OrderCorrect == Spec => BlockGoesLast
<1>1. Init => Ordered
  BY InitInv, IdleIs DEF Init, Inv, Ordered, OnTheWay
<1>2. TypeOK /\ (~overlapped => Ordered) /\ [Next]_vars => (~overlapped => Ordered)'
  BY RecordKept, OrderedStep
<1>3. ASSUME TypeOK, ~overlapped => Ordered, [Next]_vars, ~block, block', ~overlapped
      PROVE  lan /\ allow # {}
  <2>1. \E t \in Threads : AddBlock(t)
    BY <1>3 DEF Next, BeginDisable, Enable, BeginEnable, Begin, AddLan, AddAllow, Fail, WriteMarker,
                Disable, DeleteBlock, DeleteLan, DeleteAllow, Show, Unmark, Crash, Launch, vars, rules
  <2> QED
    BY <1>3, <2>1 DEF AddBlock, Doing, Ordered, OnTheWay, Actors
<1>4. TypeOK /\ (~overlapped => Ordered) /\ [Next]_vars
        => [(~block /\ block' /\ ~overlapped) => (lan /\ allow # {})]_vars
  BY <1>3
<1> QED
  BY <1>1, <1>2, <1>4, TypeCorrect, PTL DEF Spec, BlockGoesLast

(* Wherever the process dies, a blocked machine reaches its LAN and a      *)
(* server.                                                                 *)
THEOREM BlockCorrect == Spec => []BlockHasExceptions
<1>1. (Smooth => Inv) => BlockHasExceptions
  BY DEF Inv, BlockExempts, BlockHasExceptions
<1> QED
  BY <1>1, InvCorrect, PTL

(* A launch that is done with its recovery has removed what an earlier     *)
(* process recorded, or says that it may not.                              *)
THEOREM RecoveryCorrect == Spec => []LeftoversRecovered
<1>1. (Smooth => Inv) => LeftoversRecovered
  BY DEF Inv, LeftoversRecovered, Recovered, Recorded, Settled, Actors
<1> QED
  BY <1>1, InvCorrect, PTL

(* The marker is given up only when no rule is left to tell of.            *)
THEOREM MarkerCorrect == Spec => MarkerOutlivesRules
<1>1. ASSUME Smooth => Inv, [Next]_vars, marker, ~marker', Smooth PROVE ~AnyRule
  <2>1. \E t \in Actors : Unmark(t)
    BY <1>1 DEF Next, BeginDisable, Enable, BeginEnable, Begin, AddLan, AddAllow, AddBlock, Fail,
                WriteMarker, Disable, DeleteBlock, DeleteLan, DeleteAllow, Show, Crash, Launch, vars
  <2> QED
    BY <1>1, <2>1 DEF Unmark, Doing, InPlace, Inv
<1>2. (Smooth => Inv) /\ [Next]_vars => [(marker /\ ~marker' /\ Smooth) => ~AnyRule]_vars
  BY <1>1
<1> QED
  BY <1>2, InvCorrect, PTL DEF Spec, MarkerOutlivesRules

(***************************************************************************)
(* The rules implement the promise of Blocking: only AddBlock imposes a    *)
(* set of exceptions, only DeleteBlock lifts it, and every other step,     *)
(* the death of the process included, is invisible in the traffic.         *)
(***************************************************************************)
Exempt == IF block THEN allow ELSE {}

(* The additions happen under no block, the last of them imposes it.       *)
LEMMA AddPromise ==
    ASSUME Inv, TypeOK', ~faulty', NEW t \in Threads,
           AddLan(t) \/ AddAllow(t) \/ AddBlock(t) \/ WriteMarker(t)
    PROVE  Exempt' = Exempt \/ (\E ips \in (SUBSET Addresses) \ {{}} : Exempt = {} /\ Exempt' = ips)
<1>1. t \in Actors /\ allow \in SUBSET Addresses
  BY DEF Actors, Inv, TypeOK
<1>2. CASE AddLan(t) \/ WriteMarker(t)
  BY <1>2 DEF AddLan, WriteMarker, Fail, Attempt, Exempt, rules
<1>3. CASE AddAllow(t)
  <2>1. ~block /\ block' = block
    BY <1>1, <1>3 DEF AddAllow, Fail, Attempt, Doing, InPlace, Inv
  <2> QED
    BY <2>1 DEF Exempt
<1>4. CASE AddBlock(t)
  <2>1. ~block /\ allow # {} /\ block' /\ allow' = allow
    BY <1>1, <1>4 DEF AddBlock, Fail, Attempt, Doing, InPlace, Inv
  <2> QED
    BY <1>1, <2>1 DEF Exempt
<1> QED
  BY <1>2, <1>3, <1>4

(* The removals lift it at once or leave it all in place.                  *)
LEMMA RemovePromise ==
    ASSUME Inv, TypeOK', ~faulty', NEW t \in Actors, Disable(t)
    PROVE  Exempt' = Exempt \/ Exempt' = {}
<1>1. CASE DeleteBlock(t)
  BY <1>1, ChangesAre DEF DeleteBlock, Exempt, Inv
<1>2. CASE DeleteAllow(t)
  <2>1. elevated => ~block
    BY <1>2 DEF DeleteAllow, Doing, InPlace, Inv
  <2>2. block' = block /\ allow' = IF elevated THEN {} ELSE allow
    BY <1>2, ChangesAre DEF DeleteAllow, Inv
  <2> QED
    BY <2>1, <2>2 DEF Exempt
<1>3. CASE DeleteLan(t) \/ Show(t) \/ Unmark(t)
  BY <1>3 DEF DeleteLan, Show, Unmark, Exempt, rules
<1> QED
  BY <1>1, <1>2, <1>3 DEF Disable

(* Until a call meets another or netsh fails, what the traffic meets is    *)
(* what Blocking promises, crashes and restarts included.                  *)
THEOREM PromiseKept == Spec => KeepsPromise
<1> DEFINE Seen == IF block /\ Smooth THEN allow ELSE {}
<1>1. Init => Promise!Init
  BY DEF Init, Promise!Init
<1>2. ASSUME TypeOK, Smooth => Inv, [Next]_vars PROVE [Promise!Next]_Seen
  <2>1. SUFFICES \/ Seen' = Seen \/ Seen' = {}
                 \/ \E ips \in (SUBSET Addresses) \ {{}} : Seen = {} /\ Seen' = ips
    BY DEF Promise!Next, Promise!Impose, Promise!Lift
  <2>2. SUFFICES ASSUME Smooth' PROVE
          \/ Exempt' = Exempt \/ Exempt' = {}
          \/ \E ips \in (SUBSET Addresses) \ {{}} : Exempt = {} /\ Exempt' = ips
    BY <1>2, SmoothBefore DEF Exempt
  <2>3. Inv /\ TypeOK' /\ ~faulty'
    BY <1>2, <2>2, SmoothBefore, TypeStep DEF Inv, Smooth
  <2>4. ASSUME NEW t \in Threads, NEW ips, BeginDisable(t) \/ BeginEnable(t, ips)
        PROVE  Exempt' = Exempt
    BY <2>4 DEF BeginDisable, BeginEnable, Begin, Exempt, rules
  <2>5. CASE Crash \/ Launch \/ UNCHANGED vars
    BY <2>5 DEF Crash, Launch, vars, Exempt, rules
  <2>6. ASSUME NEW t \in Threads, Enable(t), \A ips : ~BeginEnable(t, ips)
        PROVE  Exempt' = Exempt \/ (\E ips \in (SUBSET Addresses) \ {{}} : Exempt = {} /\ Exempt' = ips)
    BY <2>3, <2>6, AddPromise DEF Enable
  <2>7. ASSUME NEW t \in Actors, Disable(t) PROVE Exempt' = Exempt \/ Exempt' = {}
    BY <2>3, <2>7, RemovePromise
  <2> QED
    BY <1>2, <2>4, <2>5, <2>6, <2>7 DEF Next
<1> QED
  BY <1>1, <1>2, TypeCorrect, InvCorrect, PTL DEF Spec, KeepsPromise, Promise!Spec
=============================================================================
