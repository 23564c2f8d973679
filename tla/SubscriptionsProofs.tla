------------------------- MODULE SubscriptionsProofs -------------------------
(***************************************************************************)
(* A list of subscriptions never claims to be fresher than it is.          *)
(*                                                                         *)
(* UpdatedHasServers speaks of the file only, and any handler may overwrite*)
(* the file with what it carries: the invariant is about every list there  *)
(* is, the window's copy and those in flight included.                     *)
(***************************************************************************)
EXTENDS Subscriptions, SequenceTheorems, TLAPS

(* An entry with the two numbers that matter, and what a list may hold.    *)
Fair(e, n) ==
    /\ {"links", "updatedAt"} \subseteq DOMAIN e
    /\ e.links \in Nat /\ e.updatedAt \in Nat
    /\ e.updatedAt <= e.links /\ e.updatedAt <= n

Honest(l, n) ==
    /\ DOMAIN l = Ids
    /\ \A i \in Ids : l[i] = NoEntry \/ Fair(l[i], n)

AllHonest ==
    /\ now \in Nat
    /\ Honest(disk, now) /\ Honest(mem, now)
    /\ DOMAIN list = Window
    /\ \A t \in Window : Honest(list[t], now)

(* A new entry says that it was never updated.                             *)
LEMMA NewIsFair ==
    ASSUME NEW n \in Nat, NEW k \in Nat, NEW b
    PROVE  /\ Fair([NewEntry EXCEPT !.links = k], n)
           /\ Fair([NewEntry EXCEPT !.loading = b], n)
           /\ (k <= 1 /\ k <= n) => Fair([NewEntry EXCEPT !.links = 1, !.updatedAt = k], n)
BY DEF Fair, NewEntry

(* Servers as new as the clock leave an entry fair; so does whatever has   *)
(* nothing to do with servers.                                             *)
LEMMA ChangedIsFair ==
    ASSUME NEW n \in Nat, NEW e, Fair(e, n), NEW b
    PROVE  /\ Fair([e EXCEPT !.links = n], n)
           /\ Fair([e EXCEPT !.label = b], n)
           /\ Fair([e EXCEPT !.error = b], n)
           /\ Fair([e EXCEPT !.links = n, !.error = b, !.updatedAt = n], n)
           /\ \A k \in {n, e.links} : Fair([e EXCEPT !.links = k, !.loading = b], n)
BY DEF Fair

(* The outcome of a download leaves an entry fair.                         *)
LEMMA OutcomeIsFair ==
    ASSUME NEW e, NEW result, now \in Nat, e = NoEntry \/ Fair(e, now)
    PROVE  Outcome(e, result) = NoEntry \/ Fair(Outcome(e, result), now)
<1>1. CASE e = NoEntry \/ result = "nothing"
  BY <1>1 DEF Outcome
<1>2. CASE e # NoEntry /\ result # "nothing" /\ result = "failed"
  BY <1>2, ChangedIsFair DEF Outcome
<1>3. CASE e # NoEntry /\ result # "nothing" /\ result # "failed"
  BY <1>3, ChangedIsFair DEF Outcome
<1> QED BY <1>1, <1>2, <1>3

(* Putting a fair entry, or none, in an honest list.                       *)
LEMMA PutHonest ==
    ASSUME NEW n, NEW l, Honest(l, n), NEW i \in Ids, NEW e, e = NoEntry \/ Fair(e, n)
    PROVE  Honest([l EXCEPT ![i] = e], n)
BY DEF Honest

(* A list of no entries.                                                   *)
LEMMA EmptyIsHonest == ASSUME NEW n PROVE Honest(Empty, n)
BY DEF Empty, Honest

LEMMA InitHonest == Init => AllHonest
<1> SUFFICES ASSUME Init PROVE AllHonest
  OBVIOUS
<1>1. now = 1
  BY DEF Init
<1>2. Honest(disk, now)
  <2>1. PICK fresh \in SUBSET used :
          disk = [i \in Ids |->
                    IF i \in used
                    THEN [NewEntry EXCEPT !.links = 1, !.updatedAt = IF i \in fresh THEN 1 ELSE 0]
                    ELSE NoEntry]
    BY DEF Init
  <2>2. \A k \in {0, 1} : Fair([NewEntry EXCEPT !.links = 1, !.updatedAt = k], now)
    <3>1. now \in Nat /\ \A k \in {0, 1} : k \in Nat /\ k <= 1 /\ k <= now
      BY <1>1
    <3> QED BY <3>1, NewIsFair
  <2> QED BY <2>1, <2>2 DEF Honest
<1>3. Honest(mem, now)
  BY <1>2 DEF Init
<1>4. DOMAIN list = Window /\ \A t \in Window : Honest(list[t], now)
  BY EmptyIsHonest DEF Init
<1> QED BY <1>1, <1>2, <1>3, <1>4 DEF AllHonest

(* A handler that changes its copy and sends it on.                        *)
LEMMA EditHonest ==
    ASSUME AllHonest, NEW t \in Tasks, NEW f, NEW l, Honest(l, now), NEW wish,
           Edit(t, f, l, wish)
    PROVE  AllHonest'
<1>1. now' = now /\ disk' = disk /\ mem' = l /\ list' = [list EXCEPT ![t] = l]
  BY DEF Edit, Send
<1> QED BY <1>1 DEF AllHonest

(* Every action of the user.                                               *)
LEMMA UserHonest ==
    ASSUME AllHonest, NEW t \in Tasks, User(t)
    PROVE  AllHonest'
<1> USE DEF AllHonest
<1>1. ASSUME NEW i \in Has(mem)
      PROVE  i \in Ids /\ Fair(mem[i], now)
  BY DEF Has, Honest
<1>2. CASE \E i \in Ids : Relabel(t, i)
  <2>1. PICK i \in Ids : Relabel(t, i)
    BY <1>2
  <2>2. i \in Has(mem)
    BY <2>1 DEF Relabel
  <2>3. Honest([mem EXCEPT ![i].label = 1 - @], now)
    BY <1>1, <2>2, ChangedIsFair, PutHonest
  <2> QED BY <2>1, <2>3, EditHonest DEF Relabel
<1>3. CASE \E i \in Ids : Delete(t, i)
  <2>1. PICK i \in Ids : Delete(t, i)
    BY <1>3
  <2>2. Honest([mem EXCEPT ![i] = NoEntry], now)
    BY PutHonest
  <2> QED BY <2>1, <2>2, EditHonest DEF Delete
<1>4. CASE \E i \in Ids : Import(t, i)
  <2>1. PICK i \in Ids : Import(t, i)
    BY <1>4
  <2>2. CASE i \in Has(mem) /\ Edit(t, "none", [mem EXCEPT ![i].links = now], wanted)
    <3>1. Honest([mem EXCEPT ![i].links = now], now)
      BY <1>1, <2>2, ChangedIsFair, PutHonest
    <3> QED BY <2>2, <3>1, EditHonest
  <2>3. CASE Create(t, "none", i, [NewEntry EXCEPT !.links = now])
    <3>1. Fair([NewEntry EXCEPT !.links = now], now)
      BY NewIsFair
    <3>2. Honest([mem EXCEPT ![i] = [NewEntry EXCEPT !.links = now]], now)
      BY <3>1, PutHonest
    <3> QED BY <2>3, <3>2, EditHonest DEF Create
  <2> QED BY <2>1, <2>2, <2>3 DEF Import
<1>5. CASE \E i \in Ids : AddByUrl(t, i)
  <2>1. PICK i \in Ids : AddByUrl(t, i)
    BY <1>5
  <2>2. Honest([mem EXCEPT ![i] = [NewEntry EXCEPT !.loading = TRUE]], now)
    BY NewIsFair, PutHonest
  <2> QED BY <2>1, <2>2, EditHonest DEF AddByUrl, Create
<1>6. CASE UpdateButton(t) \/ \E i \in Ids : UpdateNow(t, i)
  BY <1>6 DEF UpdateButton, Update, UpdateNow, dataVars
<1> QED BY <1>2, <1>3, <1>4, <1>5, <1>6 DEF User

(* What the window downloads is as new as the clock.                       *)
LEMMA AnswerHonest ==
    ASSUME AllHonest, NEW t \in Window, NEW i \in Ids,
           FirstAnswer(t, i) \/ ButtonAnswer(t, i)
    PROVE  AllHonest'
<1> USE DEF AllHonest
<1>1. now' = now /\ disk' = disk
  BY DEF FirstAnswer, ButtonAnswer, lifeVars
<1>2. Honest(mem', now)
  <2>1. CASE i \notin Has(mem)
    BY <2>1 DEF FirstAnswer, ButtonAnswer
  <2>2. CASE i \in Has(mem)
    <3>1. Fair(mem[i], now)
      BY <2>2 DEF Has, Honest
    <3>2. CASE FirstAnswer(t, i)
      <4>1. PICK links \in {now, mem[i].links} :
              mem' = [mem EXCEPT ![i].links = links, ![i].loading = FALSE]
        BY <2>2, <3>2 DEF FirstAnswer
      <4>2. mem' = [mem EXCEPT ![i] = [mem[i] EXCEPT !.links = links, !.loading = FALSE]]
        BY <4>1
      <4>3. Fair([mem[i] EXCEPT !.links = links, !.loading = FALSE], now)
        BY <3>1, ChangedIsFair
      <4> QED BY <4>2, <4>3, PutHonest
    <3>3. CASE ButtonAnswer(t, i)
      <4>1. mem' = mem \/ mem' = [mem EXCEPT ![i].links = now]
        BY <3>3 DEF ButtonAnswer
      <4>2. Honest([mem EXCEPT ![i].links = now], now)
        BY <3>1, ChangedIsFair, PutHonest
      <4> QED BY <4>1, <4>2
    <3> QED BY <3>2, <3>3
  <2> QED BY <2>1, <2>2
<1>3. list' = list \/ list' = [list EXCEPT ![t] = mem']
  BY DEF FirstAnswer, ButtonAnswer, Send, webVars
<1> QED BY <1>1, <1>2, <1>3

(* The calls of the window carry lists about and change none.              *)
LEMMA CallHonest ==
    ASSUME AllHonest, NEW t \in Window, Call(t)
    PROVE  AllHonest'
<1> USE DEF AllHonest
<1>1. Honest(Empty, now)
  BY EmptyIsHonest
<1>2. CASE SaveSubscriptions(t)
  BY <1>1, <1>2 DEF SaveSubscriptions, lifeVars
<1>3. CASE GetSubscriptions(t)
  BY <1>3 DEF GetSubscriptions, dataVars, lifeVars
<1>4. CASE Reload(t)
  BY <1>1, <1>4 DEF Reload, lifeVars
<1>5. CASE \E i \in Ids : FirstAnswer(t, i) \/ ButtonAnswer(t, i)
  BY <1>5, AnswerHonest
<1> QED BY <1>2, <1>3, <1>4, <1>5 DEF Call

(* A refresh lays what it found over the file.                             *)
LEMMA RefreshHonest ==
    ASSUME AllHonest, NEW r \in Refreshers, Refresh(r)
    PROVE  AllHonest'
<1> USE DEF AllHonest
<1>1. CASE \E i \in Ids : Fetch(r, i, "links") \/ Fetch(r, i, "failed")
  BY <1>1 DEF Fetch, dataVars, webVars, lifeVars
<1>2. CASE Merge(r)
  <2>1. disk' = [i \in Ids |-> Outcome(disk[i], found[r][i])]
    BY <1>2 DEF Merge
  <2>2. \A i \in Ids : \/ Outcome(disk[i], found[r][i]) = NoEntry
                       \/ Fair(Outcome(disk[i], found[r][i]), now)
    BY OutcomeIsFair DEF Honest
  <2>3. Honest(disk', now)
    BY <2>1, <2>2 DEF Honest
  <2> QED BY <1>2, <2>3 DEF Merge, webVars, lifeVars
<1> QED BY <1>1, <1>2 DEF Refresh

(* Time passes, the process ends and comes back.                           *)
LEMMA WorldHonest ==
    ASSUME AllHonest, Pass \/ Exit \/ Launch
    PROVE  AllHonest'
<1> USE DEF AllHonest
<1>1. CASE Pass
  <2>1. now' \in Nat /\ now <= now'
    BY <1>1 DEF Pass
  <2>2. ASSUME NEW l, Honest(l, now) PROVE Honest(l, now')
    BY <2>1, <2>2 DEF Honest, Fair
  <2> QED BY <1>1, <2>1, <2>2 DEF Pass, dataVars, webVars
<1>2. CASE Exit
  BY <1>2, EmptyIsHonest DEF Exit
<1>3. CASE Launch
  BY <1>3 DEF Launch, webVars
<1> QED BY <1>1, <1>2, <1>3

LEMMA StepHonest == AllHonest /\ [Next]_vars => AllHonest'
<1> SUFFICES ASSUME AllHonest, [Next]_vars PROVE AllHonest'
  OBVIOUS
<1>1. CASE \E t \in Tasks : User(t)
  BY <1>1, UserHonest
<1>2. CASE \E t \in Window : Call(t)
  BY <1>2, CallHonest
<1>3. CASE OnUpdated \/ updateDueSubscriptions
  BY <1>3 DEF AllHonest, OnUpdated, updateDueSubscriptions, dataVars, webVars, lifeVars
<1>4. CASE \E r \in Refreshers : Refresh(r)
  BY <1>4, RefreshHonest
<1>5. CASE Pass \/ Exit \/ Launch
  BY <1>5, WorldHonest
<1>6. CASE UNCHANGED vars
  BY <1>6 DEF AllHonest, vars, dataVars, webVars, lifeVars
<1> QED BY <1>1, <1>2, <1>3, <1>4, <1>5, <1>6 DEF Next

(* However saves, replies and refreshes cross, and whatever is lost at an  *)
(* exit, no list anywhere claims an update newer than its servers or than  *)
(* the clock: a window that overwrites a refresh takes its date back too.  *)
THEOREM HonestCorrect == Spec => []AllHonest
BY InitHonest, StepHonest, PTL DEF Spec

(* An entry of the file that says when it was updated has servers at least *)
(* that new (mergeFetchedSubscriptions, SaveSubscriptions).                *)
THEOREM FreshnessCorrect == Spec => []UpdatedHasServers
<1>1. AllHonest => UpdatedHasServers
  <2> SUFFICES ASSUME AllHonest, NEW i \in Has(disk)
               PROVE  disk[i].links >= disk[i].updatedAt
    BY DEF UpdatedHasServers
  <2>1. Fair(disk[i], now)
    BY DEF AllHonest, Honest, Has
  <2> QED BY <2>1 DEF Fair
<1> QED BY HonestCorrect, <1>1, PTL

(***************************************************************************)
(* Type correctness.                                                       *)
(***************************************************************************)
USE DEF Window, Refreshers, Threads

(* Lists, and what the user wishes of them.                                *)
LEMMA EditedIs ==
    ASSUME NEW l \in Lists
    PROVE  /\ Edited(l) \in [Ids -> Wish \cup {NoEntry}]
           /\ \A i \in Ids : Edited(l)[i] = NoEntry <=> l[i] = NoEntry
           /\ \A i \in Ids : l[i] # NoEntry =>
                /\ l[i] \in Entry /\ Edited(l)[i] \in Wish
                /\ Edited(l)[i].loading = l[i].loading
BY NoEntryAssumption DEF Edited, Lists, Entry, Wish

LEMMA NewEntryIs ==
    ASSUME NEW n \in 0..MaxTime
    PROVE  /\ NewEntry \in Entry
           /\ [NewEntry EXCEPT !.links = n] \in Entry
           /\ [NewEntry EXCEPT !.loading = TRUE] \in Entry
           /\ [NewEntry EXCEPT !.loading = TRUE].loading = TRUE
           /\ [NewEntry EXCEPT !.links = n].loading = FALSE
<1>1. MaxTime \in Nat /\ 0 \in 0..MaxTime /\ 0 \in 0..1
  BY SubscriptionsAssumption
<1>2. NewEntry \in Entry
  BY <1>1 DEF NewEntry, Entry
<1>3. [NewEntry EXCEPT !.links = n] \in Entry /\ [NewEntry EXCEPT !.loading = TRUE] \in Entry
  BY <1>2 DEF Entry
<1> QED
  BY <1>2, <1>3 DEF NewEntry

LEMMA ChangedIs ==
    ASSUME NEW e \in Entry, NEW n \in 0..MaxTime, NEW b \in BOOLEAN
    PROVE  /\ [e EXCEPT !.label = 1 - @] \in Entry
           /\ [e EXCEPT !.links = n] \in Entry
           /\ [e EXCEPT !.links = n, !.loading = b] \in Entry
           /\ [e EXCEPT !.error = b] \in Entry
           /\ [e EXCEPT !.links = n, !.error = b, !.updatedAt = n] \in Entry
<1>1. 1 - e.label \in 0..1
  BY DEF Entry
<1>2. [e EXCEPT !.label = 1 - @] \in Entry
  BY <1>1 DEF Entry
<1>3. [e EXCEPT !.links = n] \in Entry /\ [e EXCEPT !.error = b] \in Entry
  BY DEF Entry
<1>4. [e EXCEPT !.links = n, !.loading = b] \in Entry
  BY DEF Entry
<1>5. [e EXCEPT !.links = n, !.error = b, !.updatedAt = n] \in Entry
  BY DEF Entry
<1> QED
  BY <1>2, <1>3, <1>4, <1>5

LEMMA OutcomeIs ==
    ASSUME NEW e \in Entry \cup {NoEntry}, NEW result, now \in 1..MaxTime
    PROVE  /\ Outcome(e, result) \in Entry \cup {NoEntry}
           /\ Outcome(e, result) = NoEntry <=> e = NoEntry
           /\ e # NoEntry => /\ Outcome(e, result).label = e.label
                             /\ Outcome(e, result).loading = e.loading
<1>0. now \in 0..MaxTime
  BY SubscriptionsAssumption
<1>1. CASE e = NoEntry \/ result = "nothing"
  BY <1>1 DEF Outcome
<1>2. CASE e # NoEntry /\ result = "failed"
  <2>1. Outcome(e, result) = [e EXCEPT !.error = TRUE]
    BY <1>2 DEF Outcome
  <2> QED
    BY <1>2, <2>1, NoEntryAssumption DEF Entry
<1>3. CASE e # NoEntry /\ result # "nothing" /\ result # "failed"
  <2>1. Outcome(e, result) = [e EXCEPT !.links = now, !.error = FALSE, !.updatedAt = now]
    BY <1>3 DEF Outcome
  <2> QED
    BY <1>0, <1>3, <2>1, NoEntryAssumption DEF Entry
<1> QED
  BY <1>1, <1>2, <1>3

(* The queues of what is in flight.                                        *)
LEMMA AfterType == ASSUME NEW s \in Seq(Window), NEW t PROVE After(s, t) \in Seq(Window)
<1>1. CASE InTurn(s, t)
  BY <1>1, HeadTailProperties DEF After, InTurn
<1>2. CASE ~InTurn(s, t)
  BY <1>2, EmptySeq DEF After
<1> QED
  BY <1>1, <1>2

LEMMA SendType ==
    ASSUME TypeOK, NEW t \in Window, NEW l \in Lists, NEW wish \in [Ids -> Wish \cup {NoEntry}],
           Send(t, l, wish)
    PROVE  /\ pc' \in [Threads -> Labels] /\ list' \in [Window -> Lists]
           /\ wanted' \in [Ids -> Wish \cup {NoEntry}]
           /\ sent' \in Seq(Window) /\ replies' \in Seq(Window) /\ crossed' \in BOOLEAN
<1>1. pc' \in [Threads -> Labels] /\ list' \in [Window -> Lists]
  BY DEF TypeOK, Send, Goto, Labels
<1>2. sent' \in Seq(Window)
  BY AppendProperties DEF TypeOK, Send
<1> QED
  BY <1>1, <1>2 DEF TypeOK, Send

(* Whatever a user asks of an entry he has, and of one that is new.        *)
LEMMA WishType ==
    ASSUME TypeOK, NEW i \in Ids, NEW k \in 0..1, NEW b \in BOOLEAN
    PROVE  /\ Asks(i, [wanted[i] EXCEPT !.label = k]) \in [Ids -> Wish \cup {NoEntry}]
           /\ Asks(i, [wanted[i] EXCEPT !.loading = b]) \in [Ids -> Wish \cup {NoEntry}]
           /\ [wanted EXCEPT ![i] = NoEntry] \in [Ids -> Wish \cup {NoEntry}]
<1>1. /\ wanted \in [Ids -> Wish \cup {NoEntry}]
      /\ wanted[i] # NoEntry => /\ [wanted[i] EXCEPT !.label = k] \in Wish
                                /\ [wanted[i] EXCEPT !.loading = b] \in Wish
  BY DEF TypeOK, Wish
<1> QED
  BY <1>1 DEF Asks
LEMMA EditType ==
    ASSUME TypeOK, NEW t \in Tasks, NEW f \in {"none", "add", "updateAll", "updateOne"},
           NEW l \in Lists, NEW wish \in [Ids -> Wish \cup {NoEntry}], Edit(t, f, l, wish),
           todo' \in [Threads -> SUBSET Ids], held' = held, used' \subseteq Ids
    PROVE  TypeOK'
<1>1. /\ pc' \in [Threads -> Labels] /\ list' \in [Window -> Lists]
      /\ wanted' \in [Ids -> Wish \cup {NoEntry}]
      /\ sent' \in Seq(Window) /\ replies' \in Seq(Window) /\ crossed' \in BOOLEAN
  <2>1. Send(t, l, wish) /\ t \in Window
    BY DEF Edit
  <2> QED
    BY <2>1, SendType
<1>2. edits' \in 0..MaxEdits /\ flow' \in [Window -> {"none", "add", "updateAll", "updateOne"}]
  BY SubscriptionsAssumption DEF TypeOK, Edit, Begin
<1>3. mem' = l /\ UNCHANGED <<event, disk, found, alive, now, slept, exits>>
  BY DEF Edit
<1> QED
  BY <1>1, <1>2, <1>3 DEF TypeOK

(* The three things of importance a user's action is.                      *)
LEMMA UserType == ASSUME TypeOK, NEW t \in Tasks, User(t) PROVE TypeOK'
<1>0. /\ mem \in Lists /\ todo \in [Threads -> SUBSET Ids] /\ used \subseteq Ids
      /\ wanted \in [Ids -> Wish \cup {NoEntry}] /\ now \in 0..MaxTime
      /\ \A i \in Has(mem) : mem[i] \in Entry
  BY SubscriptionsAssumption DEF TypeOK, Lists, Has
<1>1. ASSUME NEW i \in Ids, Relabel(t, i) PROVE TypeOK'
  <2>1. /\ i \in Has(mem) /\ UNCHANGED <<todo, held, used>>
        /\ Edit(t, "none", [mem EXCEPT ![i].label = 1 - @],
                Asks(i, [wanted[i] EXCEPT !.label = 1 - mem[i].label]))
    BY <1>1 DEF Relabel
  <2>2. [mem[i] EXCEPT !.label = 1 - @] \in Entry /\ 1 - mem[i].label \in 0..1
    BY <1>0, <2>1 DEF Entry
  <2>3. [mem EXCEPT ![i].label = 1 - @] \in Lists
    BY <1>0, <2>2 DEF Lists
  <2>4. Asks(i, [wanted[i] EXCEPT !.label = 1 - mem[i].label]) \in [Ids -> Wish \cup {NoEntry}]
    BY <2>2, WishType
  <2> QED
    BY <1>0, <2>1, <2>3, <2>4, EditType
<1>2. ASSUME NEW i \in Ids, Delete(t, i) PROVE TypeOK'
  <2>1. [mem EXCEPT ![i] = NoEntry] \in Lists
    BY <1>0 DEF Lists
  <2>2. [wanted EXCEPT ![i] = NoEntry] \in [Ids -> Wish \cup {NoEntry}]
    BY <1>0
  <2> QED
    BY <1>0, <1>2, <2>1, <2>2, EditType DEF Delete
<1>3. ASSUME NEW i \in Ids, NEW f \in {"none", "add"}, NEW e \in Entry, Create(t, f, i, e),
             todo' \in [Threads -> SUBSET Ids], held' = held, used' \subseteq Ids
      PROVE  TypeOK'
  <2>1. [mem EXCEPT ![i] = e] \in Lists
    BY <1>0 DEF Lists
  <2>2. [wanted EXCEPT ![i] = Edited([mem EXCEPT ![i] = e])[i]] \in [Ids -> Wish \cup {NoEntry}]
    BY <1>0, <2>1, EditedIs
  <2>3. Edit(t, f, [mem EXCEPT ![i] = e], [wanted EXCEPT ![i] = Edited([mem EXCEPT ![i] = e])[i]])
    BY <1>3 DEF Create
  <2>4. f \in {"none", "add", "updateAll", "updateOne"}
    OBVIOUS
  <2> HIDE DEF Window, Refreshers, Threads
  <2> QED
    BY <1>3, <2>1, <2>2, <2>3, <2>4, EditType
<1>4. ASSUME NEW i \in Ids, Import(t, i) PROVE TypeOK'
  <2>1. used' \subseteq Ids /\ UNCHANGED <<todo, held>>
    BY <1>0, <1>4 DEF Import
  <2>2. CASE i \in Has(mem) /\ Edit(t, "none", [mem EXCEPT ![i].links = now], wanted)
    <3>1. [mem[i] EXCEPT !.links = now] \in Entry
      BY <1>0, <2>2, ChangedIs
    <3>2. [mem EXCEPT ![i].links = now] \in Lists
      BY <1>0, <3>1 DEF Lists
    <3> QED
      BY <1>0, <2>1, <2>2, <3>2, EditType
  <2>3. CASE Create(t, "none", i, [NewEntry EXCEPT !.links = now])
    BY <1>0, <1>3, <2>1, <2>3, NewEntryIs
  <2> QED
    BY <1>4, <2>2, <2>3 DEF Import
<1>5. ASSUME NEW i \in Ids, AddByUrl(t, i) PROVE TypeOK'
  <2>1. used' \subseteq Ids /\ held' = held /\ todo' \in [Threads -> SUBSET Ids]
    BY <1>0, <1>5 DEF AddByUrl
  <2>2. 0 \in 0..MaxTime
    BY SubscriptionsAssumption
  <2> QED
    BY <1>3, <1>5, <2>1, <2>2, NewEntryIs DEF AddByUrl
<1>6. ASSUME UpdateButton(t) PROVE TypeOK'
  <2>1. PICK f \in {"updateAll", "updateOne"}, S \in SUBSET Ids : Update(t, f, S)
    BY <1>6 DEF UpdateButton, Has
  <2>2. edits' \in 0..MaxEdits /\ flow' \in [Window -> {"none", "add", "updateAll", "updateOne"}]
    BY <2>1, SubscriptionsAssumption DEF TypeOK, Update, Begin
  <2>3. pc' \in [Threads -> Labels] /\ todo' \in [Threads -> SUBSET Ids] /\ held' \in [Window -> BOOLEAN]
    BY <2>1 DEF TypeOK, Update, Goto, Labels
  <2> QED
    BY <2>1, <2>2, <2>3 DEF TypeOK, Update, dataVars, histVars
<1>7. ASSUME NEW i \in Ids, UpdateNow(t, i) PROVE TypeOK'
  <2>1. edits' \in 0..MaxEdits /\ flow' \in [Window -> {"none", "add", "updateAll", "updateOne"}]
    BY <1>7, SubscriptionsAssumption DEF TypeOK, UpdateNow, Begin
  <2>2. pc' \in [Threads -> Labels] /\ todo' \in [Threads -> SUBSET Ids]
    BY <1>7 DEF TypeOK, UpdateNow, Labels
  <2> QED
    BY <1>7, <2>1, <2>2 DEF TypeOK, UpdateNow, dataVars, histVars
<1> QED
  BY <1>1, <1>2, <1>4, <1>5, <1>6, <1>7 DEF User

LEMMA CallType == ASSUME TypeOK, NEW t \in Window, Call(t) PROVE TypeOK'
<1>0. /\ mem \in Lists /\ disk \in Lists /\ todo \in [Threads -> SUBSET Ids] /\ Empty \in Lists
      /\ wanted \in [Ids -> Wish \cup {NoEntry}] /\ now \in 0..MaxTime
      /\ \A i \in Has(mem) : mem[i] \in Entry
  BY SubscriptionsAssumption DEF TypeOK, Lists, Has, Empty
<1>1. CASE SaveSubscriptions(t)
  <2>1. sent' \in Seq(Window)
    BY <1>1, AfterType DEF TypeOK, SaveSubscriptions
  <2>2. pc' \in [Threads -> Labels] /\ list' \in [Window -> Lists] /\ disk' \in Lists
    BY <1>0, <1>1 DEF TypeOK, SaveSubscriptions, Goto, Labels
  <2> QED
    BY <1>1, <2>1, <2>2 DEF TypeOK, SaveSubscriptions, lifeVars, InTurn
<1>2. CASE GetSubscriptions(t)
  <2>1. replies' \in Seq(Window)
    BY <1>2, AppendProperties DEF TypeOK, GetSubscriptions
  <2>2. pc' \in [Threads -> Labels] /\ list' \in [Window -> Lists]
    BY <1>0, <1>2 DEF TypeOK, GetSubscriptions, Goto, Labels
  <2> QED
    BY <1>2, <2>1, <2>2 DEF TypeOK, GetSubscriptions, lifeVars, dataVars
<1>3. CASE Reload(t)
  <2>1. replies' \in Seq(Window)
    BY <1>3, AfterType DEF TypeOK, Reload
  <2>2. pc' \in [Threads -> Labels] /\ list' \in [Window -> Lists] /\ mem' \in Lists
    BY <1>0, <1>3 DEF TypeOK, Reload, Goto, Labels
  <2>3. held' \in [Window -> BOOLEAN]
    BY <1>3 DEF Reload
  <2> QED
    BY <1>3, <2>1, <2>2, <2>3 DEF TypeOK, Reload, lifeVars, InTurn
<1>4. ASSUME EndFlow(t)
      PROVE  /\ flow' \in [Window -> {"none", "add", "updateAll", "updateOne"}]
             /\ held' \in [Window -> BOOLEAN]
  BY <1>4 DEF EndFlow, TypeOK
<1>5. ASSUME NEW i \in Ids, FirstAnswer(t, i) PROVE TypeOK'
  <2>1. /\ todo' \in [Threads -> SUBSET Ids] /\ EndFlow(t) /\ UNCHANGED <<event, disk, found, lifeVars>>
    BY <1>0, <1>5 DEF FirstAnswer
  <2>2. CASE UNCHANGED <<mem, list, histVars>> /\ Goto(t, "idle")
    BY <1>4, <2>1, <2>2 DEF TypeOK, Goto, Labels, histVars, lifeVars
  <2>3. CASE i \in Has(mem)
    <3>1. PICK links \in {now, mem[i].links} :
            mem' = [mem EXCEPT ![i].links = links, ![i].loading = FALSE]
      BY <1>5, <2>3 DEF FirstAnswer
    <3>2. links \in 0..MaxTime
      BY <1>0, <2>3 DEF Entry
    <3>3. mem' = [mem EXCEPT ![i] = [mem[i] EXCEPT !.links = links, !.loading = FALSE]]
      BY <3>1
    <3>4. [mem[i] EXCEPT !.links = links, !.loading = FALSE] \in Entry
      BY <1>0, <2>3, <3>2, ChangedIs
    <3>5. mem' \in Lists
      BY <1>0, <3>3, <3>4 DEF Lists
    <3>6. Asks(i, [wanted[i] EXCEPT !.loading = FALSE]) \in [Ids -> Wish \cup {NoEntry}]
      <4>1. 0 \in 0..1 /\ FALSE \in BOOLEAN
        OBVIOUS
      <4> QED
        BY <4>1, WishType
    <3>7. Send(t, mem', Asks(i, [wanted[i] EXCEPT !.loading = FALSE]))
      BY <1>5, <2>3 DEF FirstAnswer
    <3>8. /\ pc' \in [Threads -> Labels] /\ list' \in [Window -> Lists]
          /\ wanted' \in [Ids -> Wish \cup {NoEntry}]
          /\ sent' \in Seq(Window) /\ replies' \in Seq(Window) /\ crossed' \in BOOLEAN
      BY <3>5, <3>6, <3>7, SendType
    <3> QED
      BY <1>4, <2>1, <3>5, <3>8 DEF TypeOK, lifeVars
  <2> QED
    BY <1>5, <2>2, <2>3 DEF FirstAnswer
<1>6. ASSUME NEW i \in Ids, ButtonAnswer(t, i) PROVE TypeOK'
  <2>1. todo' \in [Threads -> SUBSET Ids] /\ UNCHANGED <<event, disk, found, lifeVars>>
    BY <1>0, <1>6 DEF ButtonAnswer
  <2>2. mem' \in Lists
    <3>1. CASE mem' = mem
      BY <1>0, <3>1
    <3>2. CASE mem' # mem
      <4>1. i \in Has(mem) /\ mem' = [mem EXCEPT ![i].links = now]
        BY <1>6, <3>2 DEF ButtonAnswer
      <4>2. [mem[i] EXCEPT !.links = now] \in Entry
        BY <1>0, <4>1, ChangedIs
      <4> QED
        BY <1>0, <4>1, <4>2 DEF Lists
    <3> QED
      BY <3>1, <3>2
  <2>3. CASE UNCHANGED <<pc, webVars, histVars>>
    BY <2>1, <2>2, <2>3 DEF TypeOK, histVars, lifeVars, webVars
  <2>4. CASE Goto(t, "idle") /\ EndFlow(t) /\ UNCHANGED <<list, histVars>>
    BY <1>4, <2>1, <2>2, <2>4 DEF TypeOK, Goto, Labels, histVars, lifeVars
  <2>5. CASE Send(t, mem', wanted) /\ EndFlow(t)
    <3>1. /\ pc' \in [Threads -> Labels] /\ list' \in [Window -> Lists]
          /\ wanted' \in [Ids -> Wish \cup {NoEntry}]
          /\ sent' \in Seq(Window) /\ replies' \in Seq(Window) /\ crossed' \in BOOLEAN
      BY <1>0, <2>2, <2>5, SendType
    <3> QED
      BY <1>4, <2>1, <2>2, <2>5, <3>1 DEF TypeOK, lifeVars
  <2> QED
    BY <1>6, <2>3, <2>4, <2>5 DEF ButtonAnswer
<1> QED
  BY <1>1, <1>2, <1>3, <1>5, <1>6 DEF Call

LEMMA WorldType ==
    ASSUME TypeOK,
           OnUpdated \/ updateDueSubscriptions \/ (\E r \in Refreshers : Refresh(r))
             \/ Pass \/ Exit \/ Launch \/ UNCHANGED vars
    PROVE  TypeOK'
<1>0. /\ disk \in Lists /\ mem \in Lists /\ Empty \in Lists /\ todo \in [Threads -> SUBSET Ids]
      /\ NothingFound \in [Ids -> {"nothing", "links", "failed"}] /\ MaxTime \in Nat \ {0}
      /\ now \in 1..MaxTime /\ MaxExits \in Nat /\ pc \in [Threads -> Labels]
      /\ {"idle", "get", "fetch"} \subseteq Labels
  BY SubscriptionsAssumption DEF TypeOK, Lists, Empty, NothingFound, Labels
<1>1. CASE OnUpdated
  BY <1>0, <1>1 DEF TypeOK, OnUpdated, At, Goto, dataVars, webVars, histVars, lifeVars
<1>2. CASE updateDueSubscriptions
  BY <1>0, <1>2
     DEF TypeOK, updateDueSubscriptions, At, Goto, Due, Has, dataVars, webVars, histVars
<1>3. ASSUME NEW r \in Refreshers, NEW i \in Ids, NEW o \in {"links", "failed"}, Fetch(r, i, o)
      PROVE  TypeOK'
  BY <1>0, <1>3 DEF TypeOK, Fetch, dataVars, webVars, histVars, lifeVars
<1>4. ASSUME NEW r \in Refreshers, Merge(r) PROVE TypeOK'
  <2>1. disk' \in Lists
    BY <1>0, <1>4, OutcomeIs DEF Merge, Lists
  <2>2. pc' \in [Threads -> Labels]
    BY <1>0, <1>4 DEF Merge, Resume
  <2>3. found' \in [Refreshers -> [Ids -> {"nothing", "links", "failed"}]] /\ event' \in BOOLEAN
    BY <1>0, <1>4 DEF Merge, TypeOK
  <2> QED
    BY <1>4, <2>1, <2>2, <2>3 DEF TypeOK, Merge, webVars, histVars, lifeVars
<1>5. CASE Pass
  BY <1>0, <1>5 DEF TypeOK, Pass, dataVars, webVars, histVars
<1>6. CASE Exit
  <2>1. exits' \in 0..MaxExits /\ sent' \in Seq(Window) /\ replies' \in Seq(Window)
    BY <1>0, <1>6, EmptySeq DEF TypeOK, Exit
  <2>2. wanted' \in [Ids -> Wish \cup {NoEntry}]
    BY <1>0, <1>6, EditedIs DEF Exit
  <2>3. /\ pc' \in [Threads -> Labels] /\ todo' \in [Threads -> SUBSET Ids]
        /\ flow' \in [Window -> {"none", "add", "updateAll", "updateOne"}]
        /\ held' \in [Window -> BOOLEAN] /\ list' \in [Window -> Lists]
        /\ found' \in [Refreshers -> [Ids -> {"nothing", "links", "failed"}]]
    BY <1>0, <1>6 DEF Exit
  <2> QED
    BY <1>0, <1>6, <2>1, <2>2, <2>3 DEF TypeOK, Exit
<1>7. CASE Launch
  BY <1>0, <1>7 DEF TypeOK, Launch, webVars, histVars
<1>8. CASE UNCHANGED vars
  BY <1>8 DEF TypeOK, vars, dataVars, webVars, histVars, lifeVars
<1> QED
  BY <1>1, <1>2, <1>3, <1>4, <1>5, <1>6, <1>7, <1>8 DEF Refresh

(* Every variable keeps its type.                                          *)
THEOREM TypeCorrect == Spec => []TypeOK
<1>1. Init => TypeOK
  <2> SUFFICES ASSUME Init PROVE TypeOK
    OBVIOUS
  <2>0. MaxTime \in Nat \ {0} /\ MaxEdits \in Nat /\ MaxExits \in Nat /\ Owned \subseteq SUBSET Ids
    BY SubscriptionsAssumption
  <2>1. disk \in Lists
    <3>1. PICK fresh \in SUBSET used :
            disk = [i \in Ids |->
                      IF i \in used
                      THEN [NewEntry EXCEPT !.links = 1, !.updatedAt = IF i \in fresh THEN 1 ELSE 0]
                      ELSE NoEntry]
      BY DEF Init
    <3>2. \A k \in {0, 1} : [NewEntry EXCEPT !.links = 1, !.updatedAt = k] \in Entry
      <4>1. {0, 1} \subseteq 0..MaxTime /\ 0 \in 0..1
        BY <2>0
      <4>2. NewEntry \in Entry
        BY <4>1 DEF NewEntry, Entry
      <4> QED
        BY <4>1, <4>2 DEF Entry
    <3> QED
      BY <3>1, <3>2 DEF Lists
  <2>2. wanted \in [Ids -> Wish \cup {NoEntry}]
    BY <2>1, EditedIs DEF Init
  <2>3. sent \in Seq(Window) /\ replies \in Seq(Window) /\ Empty \in Lists
    BY EmptySeq DEF Init, Empty, Lists
  <2>4. now \in 1..MaxTime /\ edits \in 0..MaxEdits /\ exits \in 0..MaxExits /\ used \subseteq Ids
    <3>1. now = 1 /\ edits = 0 /\ exits = 0 /\ used \in Owned
      BY DEF Init
    <3>2. used \subseteq Ids
      BY <2>0, <3>1
    <3> QED
      BY <2>0, <3>1, <3>2
  <2>5. pc \in [Threads -> Labels] /\ found \in [Refreshers -> [Ids -> {"nothing", "links", "failed"}]]
    BY DEF Init, Labels, NothingFound
  <2>6. mem \in Lists /\ list \in [Window -> Lists]
    BY <2>1, <2>3 DEF Init
  <2> QED
    BY <2>1, <2>2, <2>3, <2>4, <2>5, <2>6 DEF Init, TypeOK
<1>2. TypeOK /\ [Next]_vars => TypeOK'
  BY UserType, CallType, WorldType DEF Next
<1> QED
  BY <1>1, <1>2, PTL DEF Spec

(***************************************************************************)
(* What a step is to the edits on their way.                               *)
(***************************************************************************)
Wishes == [Ids -> Wish \cup {NoEntry}]

(* A handler begins, ends, or stays where it is: it does not come to wait  *)
(* for a save or a reply, nor is it done with one.                         *)
Moves(t) ==
    \/ pc'[t] = pc[t]
    \/ /\ {pc[t], pc'[t]} \cap {"save", "reply"} = {}
       /\ pc[t] \in {"idle", "wait"} \/ pc'[t] = "idle"

(* Neither a list on its way nor the user's wishes change, no entry comes  *)
(* or goes.                                                                *)
Calm ==
    /\ UNCHANGED <<list, histVars>>
    /\ Edited(disk') = Edited(disk)
    /\ alive => Has(mem) \subseteq Has(mem')
    /\ \A t \in Window : Moves(t)

(* A handler sends the list it has made of the window's.                   *)
Sends(t, l, wish) ==
    /\ Send(t, l, wish) /\ mem' = l /\ disk' = disk
    /\ pc[t] \notin {"save", "reply"}

LEMMA WaiterMoves ==
    ASSUME TypeOK, NEW t \in Window, NEW label, Goto(t, label),
           label \notin {"save", "reply"}, pc[t] \notin {"save", "reply"},
           pc[t] = "idle" \/ label = "idle"
    PROVE  \A u \in Window : Moves(u)
BY DEF TypeOK, Goto, Moves

(* Every step of a handler is a call, a list sent, or calm.                *)
LEMMA UserKinds ==
    ASSUME TypeOK, NEW t \in Tasks, User(t)
    PROVE  \/ \E l \in Lists, wish \in Wishes : Sends(t, l, wish)
           \/ Calm
<1>0. TypeOK'
  BY UserType
<1>1. ASSUME NEW f, NEW l, NEW wish, Edit(t, f, l, wish)
      PROVE  \E m \in Lists, w \in Wishes : Sends(t, m, w)
  <2>1. l \in Lists /\ wish \in Wishes
    BY <1>0, <1>1 DEF Edit, Send, TypeOK, Wishes
  <2> QED
    BY <1>1, <2>1 DEF Edit, Begin, At, Sends
<1>2. ASSUME NEW f, NEW S, Update(t, f, S) PROVE Calm
  <2>1. At(t, "idle") /\ Goto(t, "download") /\ UNCHANGED <<list, histVars, disk, mem>>
    BY <1>2 DEF Update, Begin, dataVars
  <2> QED
    BY <2>1, WaiterMoves DEF Calm, At
<1>3. ASSUME NEW i \in Ids, UpdateNow(t, i) PROVE Calm
  <2>1. /\ At(t, "idle") /\ UNCHANGED <<list, histVars, disk, mem>>
        /\ pc' = [pc EXCEPT ![t] = "wait", ![Asked] = "fetch"]
    BY <1>3 DEF UpdateNow, Begin, dataVars
  <2>2. Asked \notin Window
    BY SubscriptionsAssumption
  <2> QED
    BY <2>1, <2>2 DEF TypeOK, Calm, At, Moves
<1> QED
  BY <1>1, <1>2, <1>3 DEF User, Relabel, Delete, Import, AddByUrl, Create, UpdateButton

LEMMA CallKinds ==
    ASSUME TypeOK, NEW t \in Window, Call(t)
    PROVE  \/ \E l \in Lists, wish \in Wishes : Sends(t, l, wish)
           \/ SaveSubscriptions(t) \/ GetSubscriptions(t) \/ Reload(t)
           \/ Calm
<1>0. TypeOK'
  BY CallType
<1>1. ASSUME NEW l, NEW wish, Send(t, l, wish), mem' = l, disk' = disk, At(t, "download")
      PROVE  \E m \in Lists, w \in Wishes : Sends(t, m, w)
  <2>1. l \in Lists /\ wish \in Wishes
    BY <1>0, <1>1 DEF Send, TypeOK, Wishes
  <2> QED
    BY <1>1, <2>1 DEF At, Sends
<1>2. ASSUME NEW i \in Ids, FirstAnswer(t, i)
      PROVE  (\E l \in Lists, wish \in Wishes : Sends(t, l, wish)) \/ Calm
  <2>1. At(t, "download") /\ UNCHANGED <<disk, alive>>
    BY <1>2 DEF FirstAnswer, lifeVars
  <2>2. CASE Goto(t, "idle") /\ UNCHANGED <<mem, list, histVars>>
    BY <2>1, <2>2, WaiterMoves DEF Calm, At
  <2>3. CASE Send(t, mem', Asks(i, [wanted[i] EXCEPT !.loading = FALSE]))
    BY <1>1, <2>1, <2>3
  <2> QED
    BY <1>2, <2>2, <2>3 DEF FirstAnswer
<1>3. ASSUME NEW i \in Ids, ButtonAnswer(t, i)
      PROVE  (\E l \in Lists, wish \in Wishes : Sends(t, l, wish)) \/ Calm
  <2>0. Has(mem) \subseteq Has(mem')
    <3>1. CASE mem' = mem
      BY <3>1
    <3>2. CASE mem' # mem
      <4>1. i \in Has(mem) /\ mem' = [mem EXCEPT ![i].links = now]
        BY <1>3, <3>2 DEF ButtonAnswer
      <4>2. mem[i] \in Entry /\ now \in 0..MaxTime
        BY <4>1, SubscriptionsAssumption DEF TypeOK, Lists, Has
      <4>3. [mem[i] EXCEPT !.links = now] # NoEntry
        BY <4>2, NoEntryAssumption DEF Entry
      <4> QED
        BY <4>1, <4>3 DEF TypeOK, Lists, Has
    <3> QED
      BY <3>1, <3>2
  <2>1. At(t, "download") /\ UNCHANGED <<disk, alive>>
    BY <1>3 DEF ButtonAnswer, lifeVars
  <2>2. CASE UNCHANGED <<pc, webVars, histVars>>
    BY <2>0, <2>1, <2>2 DEF Calm, webVars, Moves
  <2>3. CASE Goto(t, "idle") /\ UNCHANGED <<list, histVars>>
    BY <2>0, <2>1, <2>3, WaiterMoves DEF Calm, At
  <2>4. CASE Send(t, mem', wanted)
    BY <1>1, <2>1, <2>4
  <2> QED
    BY <1>3, <2>2, <2>3, <2>4 DEF ButtonAnswer
<1> QED
  BY <1>2, <1>3 DEF Call

LEMMA WorldKinds ==
    ASSUME TypeOK,
           OnUpdated \/ updateDueSubscriptions \/ (\E r \in Refreshers : Refresh(r))
             \/ Pass \/ Launch \/ UNCHANGED vars
    PROVE  Calm
<1>0. Window \cap Refreshers = {} /\ Listener \in Window
  BY SubscriptionsAssumption
<1>1. CASE OnUpdated
  <2>1. At(Listener, "idle") /\ Goto(Listener, "get") /\ UNCHANGED <<list, histVars, disk, mem>>
    BY <1>1 DEF OnUpdated, dataVars, webVars
  <2> QED
    BY <1>0, <2>1, WaiterMoves DEF Calm, At
<1>2. CASE updateDueSubscriptions
  BY <1>0, <1>2 DEF updateDueSubscriptions, Calm, Moves, TypeOK, Goto, dataVars, webVars
<1>3. ASSUME NEW r \in Refreshers, NEW i \in Ids, NEW o, Fetch(r, i, o) PROVE Calm
  BY <1>3 DEF Fetch, Calm, Moves, dataVars, webVars
<1>4. ASSUME NEW r \in Refreshers, Merge(r) PROVE Calm
  <2>1. disk' = [i \in Ids |-> Outcome(disk[i], found[r][i])] /\ UNCHANGED <<list, histVars, mem>>
    BY <1>4 DEF Merge, webVars
  <2>2. Edited(disk') = Edited(disk)
    <3>1. disk \in Lists /\ now \in 1..MaxTime
      BY DEF TypeOK
    <3>2. \A i \in Ids : disk[i] \in Entry \cup {NoEntry}
      BY <3>1 DEF Lists
    <3>3. \A i \in Ids : /\ disk'[i] = NoEntry <=> disk[i] = NoEntry
                         /\ disk[i] # NoEntry => /\ disk'[i].label = disk[i].label
                                                 /\ disk'[i].loading = disk[i].loading
      <4> TAKE i \in Ids
      <4>1. disk'[i] = Outcome(disk[i], found[r][i]) /\ disk[i] \in Entry \cup {NoEntry}
        BY <2>1, <3>2
      <4> QED
        BY <3>1, <4>1, OutcomeIs
    <3> QED
      BY <3>3 DEF Edited
  <2>3. \A t \in Window : Moves(t)
    BY <1>0, <1>4 DEF Merge, Resume, Moves
  <2> QED
    BY <2>1, <2>2, <2>3 DEF Calm
<1>5. CASE Pass \/ Launch \/ UNCHANGED vars
  BY <1>5 DEF Pass, Launch, Calm, Moves, vars, dataVars, webVars, lifeVars
<1> QED
  BY <1>1, <1>2, <1>3, <1>4, <1>5 DEF Refresh

(***************************************************************************)
(* The user's edits.                                                       *)
(***************************************************************************)
(* The queues hold exactly the handlers that wait, each of them once.      *)
OnceEach(s) == \A a, b \in 1..Len(s) : s[a] = s[b] => a = b
Holds(s, label) == \A t \in Window : pc[t] = label <=> \E a \in 1..Len(s) : s[a] = t
QueueInv ==
    /\ OnceEach(sent) /\ Holds(sent, "save")
    /\ OnceEach(replies) /\ Holds(replies, "reply")

(* The last list sent is what the user wishes, and so is the file once     *)
(* nothing is on its way.                                                  *)
Newest(s) == s[Len(s)]
EditInv ==
    ~crossed => /\ QueueInv
                /\ sent = <<>> => Edited(disk) = wanted
                /\ sent # <<>> => Edited(list[Newest(sent)]) = wanted

(* One more in a queue.                                                    *)
LEMMA QueueGrows ==
    ASSUME NEW s \in Seq(Window), OnceEach(s), NEW t \in Window, \A a \in 1..Len(s) : s[a] # t
    PROVE  /\ OnceEach(Append(s, t)) /\ Append(s, t) # <<>> /\ Newest(Append(s, t)) = t
           /\ \A u \in Window : (\E a \in 1..Len(Append(s, t)) : Append(s, t)[a] = u)
                                  <=> (u = t \/ \E a \in 1..Len(s) : s[a] = u)
<1>1. /\ Len(s) \in Nat /\ Len(Append(s, t)) = Len(s) + 1 /\ Append(s, t) \in Seq(Window)
      /\ \A a \in 1..Len(s) : Append(s, t)[a] = s[a]
      /\ Append(s, t)[Len(s) + 1] = t
  BY AppendProperties, LenProperties
<1>2. 1..Len(Append(s, t)) = 1..Len(s) \cup {Len(s) + 1}
  BY <1>1
<1>3. OnceEach(Append(s, t))
  BY <1>1, <1>2 DEF OnceEach
<1>4. Append(s, t) # <<>> /\ Newest(Append(s, t)) = t
  BY <1>1, EmptySeq DEF Newest
<1>5. ASSUME NEW u \in Window
      PROVE  (\E a \in 1..Len(Append(s, t)) : Append(s, t)[a] = u)
               <=> (u = t \/ \E a \in 1..Len(s) : s[a] = u)
  BY <1>1, <1>2
<1> QED
  BY <1>3, <1>4, <1>5

(* The first leaves it, and the others move up.                            *)
LEMMA QueueMoves ==
    ASSUME NEW s \in Seq(Window), NEW t \in Window, InTurn(s, t)
    PROVE  /\ After(s, t) \in Seq(Window) /\ Len(After(s, t)) = Len(s) - 1 /\ Len(s) \in Nat
           /\ \A a \in 1..Len(After(s, t)) : After(s, t)[a] = s[a + 1] /\ a + 1 \in 1..Len(s)
           /\ 1 \in 1..Len(s) /\ s[1] = t
<1>1. s # <<>> /\ Head(s) = t /\ After(s, t) = Tail(s)
  BY DEF InTurn, After
<1>2. /\ Tail(s) \in Seq(Window) /\ Len(Tail(s)) = Len(s) - 1 /\ Len(s) \in Nat /\ Head(s) = s[1]
      /\ \A a \in 1..Len(Tail(s)) : Tail(s)[a] = s[a + 1]
  BY <1>1, HeadTailProperties, LenProperties
<1>3. Len(s) >= 1
  BY <1>1, <1>2, EmptySeq
<1>4. \A a \in 1..Len(Tail(s)) : a + 1 \in 1..Len(s)
  BY <1>2, <1>3
<1> QED
  BY <1>1, <1>2, <1>3, <1>4

LEMMA QueueShrinks ==
    ASSUME NEW s \in Seq(Window), OnceEach(s), NEW t \in Window, InTurn(s, t)
    PROVE  /\ OnceEach(After(s, t))
           /\ \A u \in Window : (\E a \in 1..Len(After(s, t)) : After(s, t)[a] = u)
                                  <=> (u # t /\ \E a \in 1..Len(s) : s[a] = u)
           /\ After(s, t) = <<>> => Newest(s) = t
           /\ After(s, t) # <<>> => Newest(After(s, t)) = Newest(s) /\ Newest(s) # t
<1>1. s # <<>> /\ Head(s) = t /\ After(s, t) = Tail(s)
  BY DEF InTurn, After
<1>2. /\ Tail(s) \in Seq(Window) /\ Len(Tail(s)) = Len(s) - 1 /\ Len(s) \in Nat /\ Head(s) = s[1]
      /\ \A a \in 1..Len(Tail(s)) : Tail(s)[a] = s[a + 1]
  BY <1>1, HeadTailProperties, LenProperties
<1>3. Len(s) >= 1
  BY <1>1, <1>2, EmptySeq
<1>4. \A a \in 1..Len(Tail(s)) : a + 1 \in 1..Len(s) /\ a + 1 # 1
  BY <1>2, <1>3
<1>5. OnceEach(Tail(s))
  <2> SUFFICES ASSUME NEW a \in 1..Len(Tail(s)), NEW b \in 1..Len(Tail(s)), Tail(s)[a] = Tail(s)[b]
               PROVE  a = b
    BY DEF OnceEach
  <2>1. s[a + 1] = s[b + 1] /\ a + 1 \in 1..Len(s) /\ b + 1 \in 1..Len(s)
    BY <1>2, <1>4
  <2>2. a + 1 = b + 1
    BY <2>1 DEF OnceEach
  <2> QED
    BY <1>2, <2>2
<1>6. ASSUME NEW u \in Window
      PROVE  (\E a \in 1..Len(Tail(s)) : Tail(s)[a] = u) <=> (u # t /\ \E a \in 1..Len(s) : s[a] = u)
  <2>1. ASSUME NEW a \in 1..Len(Tail(s)), Tail(s)[a] = u PROVE u # t /\ \E b \in 1..Len(s) : s[b] = u
    <3>1. s[a + 1] = u /\ a + 1 \in 1..Len(s) /\ a + 1 # 1
      BY <1>2, <1>4, <2>1
    <3>2. 1 \in 1..Len(s) /\ s[1] = t
      BY <1>1, <1>2, <1>3
    <3> QED
      BY <3>1, <3>2 DEF OnceEach
  <2>2. ASSUME u # t, NEW a \in 1..Len(s), s[a] = u PROVE \E b \in 1..Len(Tail(s)) : Tail(s)[b] = u
    <3>1. a # 1
      BY <1>1, <1>2, <2>2
    <3>2. a - 1 \in 1..Len(Tail(s)) /\ (a - 1) + 1 = a
      BY <1>2, <1>3, <3>1
    <3>3. Tail(s)[a - 1] = u
      BY <1>2, <2>2, <3>2
    <3> QED
      BY <3>2, <3>3
  <2> QED
    BY <2>1, <2>2
<1>7. Tail(s) = <<>> => Newest(s) = t
  BY <1>1, <1>2, <1>3, EmptySeq DEF Newest
<1>8. ASSUME Tail(s) # <<>> PROVE Newest(Tail(s)) = Newest(s) /\ Newest(s) # t
  <2>1. Len(Tail(s)) >= 1
    BY <1>2, <1>8, EmptySeq
  <2>2. Newest(Tail(s)) = s[Len(s)] /\ Len(s) # 1 /\ Len(s) \in 1..Len(s) /\ 1 \in 1..Len(s)
    BY <1>2, <2>1 DEF Newest
  <2> QED
    BY <1>1, <1>2, <2>2 DEF OnceEach, Newest
<1> QED
  BY <1>1, <1>5, <1>6, <1>7, <1>8

LEMMA SendsKeep ==
    ASSUME TypeOK, EditInv, NEW t \in Window, NEW l \in Lists, NEW wish \in Wishes, Sends(t, l, wish)
    PROVE  EditInv'
<1> SUFFICES ASSUME ~crossed'
             PROVE  QueueInv' /\ sent' # <<>> /\ Edited(list'[Newest(sent')]) = wanted'
  BY DEF EditInv
<1>1. ~crossed /\ Edited(l) = wish /\ QueueInv
  BY DEF Sends, Send, EditInv
<1>2. /\ sent' = Append(sent, t) /\ replies' = replies /\ wanted' = wish
      /\ list' = [list EXCEPT ![t] = l] /\ pc' = [pc EXCEPT ![t] = "save"]
      /\ pc[t] \notin {"save", "reply"}
  BY DEF Sends, Send, Goto
<1>3. sent \in Seq(Window) /\ pc \in [Threads -> Labels] /\ list \in [Window -> Lists]
  BY DEF TypeOK
<1>4. \A a \in 1..Len(sent) : sent[a] # t
  BY <1>1, <1>2, <1>3, ElementOfSeq DEF QueueInv, Holds
<1>5. /\ OnceEach(sent') /\ sent' # <<>> /\ Newest(sent') = t
      /\ \A u \in Window : (\E a \in 1..Len(sent') : sent'[a] = u)
                             <=> (u = t \/ \E a \in 1..Len(sent) : sent[a] = u)
  BY <1>1, <1>2, <1>3, <1>4, QueueGrows DEF QueueInv
<1>6. Holds(sent, "save")'
  BY <1>1, <1>2, <1>3, <1>5 DEF QueueInv, Holds
<1>7. Holds(replies, "reply")'
  BY <1>1, <1>2, <1>3 DEF QueueInv, Holds
<1>8. Edited(list'[Newest(sent')]) = wanted'
  BY <1>1, <1>2, <1>3, <1>5
<1> QED
  BY <1>1, <1>2, <1>5, <1>6, <1>7, <1>8 DEF QueueInv

LEMMA SavesKeep ==
    ASSUME TypeOK, EditInv, NEW t \in Window, SaveSubscriptions(t)
    PROVE  EditInv'
<1> SUFFICES ASSUME ~crossed'
             PROVE  /\ QueueInv'
                    /\ sent' = <<>> => Edited(disk') = wanted'
                    /\ sent' # <<>> => Edited(list'[Newest(sent')]) = wanted'
  BY DEF EditInv
<1>1. ~crossed /\ InTurn(sent, t) /\ QueueInv
  BY DEF SaveSubscriptions, EditInv
<1>2. /\ sent' = After(sent, t) /\ replies' = replies /\ wanted' = wanted /\ disk' = list[t]
      /\ list' = [list EXCEPT ![t] = Empty] /\ pc' = [pc EXCEPT ![t] = "get"]
      /\ pc[t] = "save"
  BY DEF SaveSubscriptions, Goto, At
<1>3. sent \in Seq(Window) /\ pc \in [Threads -> Labels] /\ list \in [Window -> Lists]
  BY DEF TypeOK
<1>4. /\ OnceEach(sent')
      /\ \A u \in Window : (\E a \in 1..Len(sent') : sent'[a] = u)
                             <=> (u # t /\ \E a \in 1..Len(sent) : sent[a] = u)
      /\ sent' = <<>> => Newest(sent) = t
      /\ sent' # <<>> => Newest(sent') = Newest(sent) /\ Newest(sent) # t
  <2>1. OnceEach(sent)
    BY <1>1 DEF QueueInv
  <2>2. /\ OnceEach(After(sent, t))
        /\ \A u \in Window : (\E a \in 1..Len(After(sent, t)) : After(sent, t)[a] = u)
                               <=> (u # t /\ \E a \in 1..Len(sent) : sent[a] = u)
        /\ After(sent, t) = <<>> => Newest(sent) = t
        /\ After(sent, t) # <<>> => Newest(After(sent, t)) = Newest(sent) /\ Newest(sent) # t
    <3> HIDE DEF Window, Refreshers, Threads
    <3> QED
      BY <1>1, <1>3, <2>1, QueueShrinks
  <2> QED
    BY <1>2, <2>2
<1>5. Holds(sent, "save")'
  BY <1>1, <1>2, <1>3, <1>4 DEF QueueInv, Holds
<1>6. Holds(replies, "reply")'
  BY <1>1, <1>2, <1>3 DEF QueueInv, Holds
<1>7. Edited(list[Newest(sent)]) = wanted
  BY <1>1 DEF EditInv, InTurn
<1>8. sent' # <<>> => list'[Newest(sent')] = list[Newest(sent)]
  BY <1>2, <1>3, <1>4
<1> QED
  BY <1>1, <1>2, <1>4, <1>5, <1>6, <1>7, <1>8 DEF QueueInv

LEMMA GetsKeep ==
    ASSUME TypeOK, EditInv, NEW t \in Window, GetSubscriptions(t)
    PROVE  EditInv'
<1> SUFFICES ASSUME ~crossed'
             PROVE  /\ QueueInv'
                    /\ sent' = <<>> => Edited(disk') = wanted'
                    /\ sent' # <<>> => Edited(list'[Newest(sent')]) = wanted'
  BY DEF EditInv
<1>1. ~crossed /\ QueueInv
  BY DEF GetSubscriptions, EditInv
<1>2. /\ sent' = sent /\ replies' = Append(replies, t) /\ wanted' = wanted /\ disk' = disk
      /\ list' = [list EXCEPT ![t] = disk] /\ pc' = [pc EXCEPT ![t] = "reply"] /\ pc[t] = "get"
  BY DEF GetSubscriptions, Goto, At, dataVars
<1>3. /\ sent \in Seq(Window) /\ replies \in Seq(Window)
      /\ pc \in [Threads -> Labels] /\ list \in [Window -> Lists]
  BY DEF TypeOK
<1>4. \A a \in 1..Len(replies) : replies[a] # t
  BY <1>1, <1>2, <1>3, ElementOfSeq DEF QueueInv, Holds
<1>5. /\ OnceEach(replies')
      /\ \A u \in Window : (\E a \in 1..Len(replies') : replies'[a] = u)
                             <=> (u = t \/ \E a \in 1..Len(replies) : replies[a] = u)
  BY <1>1, <1>2, <1>3, <1>4, QueueGrows DEF QueueInv
<1>6. Holds(sent, "save")' /\ Holds(replies, "reply")'
  BY <1>1, <1>2, <1>3, <1>5 DEF QueueInv, Holds
<1>7. sent # <<>> => list'[Newest(sent)] = list[Newest(sent)]
  <2> SUFFICES ASSUME sent # <<>> PROVE list'[Newest(sent)] = list[Newest(sent)]
    OBVIOUS
  <2>1. Len(sent) \in 1..Len(sent)
    BY <1>3, EmptySeq, LenProperties
  <2>2. Newest(sent) \in Window /\ pc[Newest(sent)] = "save"
    BY <1>1, <1>3, <2>1, ElementOfSeq DEF Newest, QueueInv, Holds
  <2> QED
    BY <1>2, <1>3, <2>2
<1> QED
  BY <1>1, <1>2, <1>5, <1>6, <1>7 DEF QueueInv, EditInv

LEMMA ReloadsKeep ==
    ASSUME TypeOK, EditInv, NEW t \in Window, Reload(t)
    PROVE  EditInv'
<1> SUFFICES ASSUME ~crossed'
             PROVE  /\ QueueInv'
                    /\ sent' = <<>> => Edited(disk') = wanted'
                    /\ sent' # <<>> => Edited(list'[Newest(sent')]) = wanted'
  BY DEF EditInv
<1>1. ~crossed /\ InTurn(replies, t) /\ QueueInv
  BY DEF Reload, EditInv
<1>2. /\ sent' = sent /\ replies' = After(replies, t) /\ wanted' = wanted /\ disk' = disk
      /\ list' = [list EXCEPT ![t] = Empty] /\ pc[t] = "reply"
      /\ \E label \in {"idle", "download"} : pc' = [pc EXCEPT ![t] = label]
  BY DEF Reload, Goto, At
<1>3. /\ sent \in Seq(Window) /\ replies \in Seq(Window)
      /\ pc \in [Threads -> Labels] /\ list \in [Window -> Lists]
  BY DEF TypeOK
<1>4. /\ OnceEach(replies')
      /\ \A u \in Window : (\E a \in 1..Len(replies') : replies'[a] = u)
                             <=> (u # t /\ \E a \in 1..Len(replies) : replies[a] = u)
  <2>1. OnceEach(replies)
    BY <1>1 DEF QueueInv
  <2> HIDE DEF Window, Refreshers, Threads
  <2> QED
    BY <1>1, <1>2, <1>3, <2>1, QueueShrinks
<1>5. Holds(sent, "save")'
  BY <1>1, <1>2, <1>3 DEF QueueInv, Holds
<1>9. Holds(replies, "reply")'
  <2>1. Holds(replies, "reply")
    BY <1>1 DEF QueueInv
  <2>2. pc'[t] # "reply" /\ \A u \in Window \ {t} : pc'[u] = pc[u]
    BY <1>2, <1>3
  <2> QED
    BY <1>4, <2>1, <2>2 DEF Holds
<1>6. sent # <<>> => list'[Newest(sent)] = list[Newest(sent)]
  <2> SUFFICES ASSUME sent # <<>> PROVE list'[Newest(sent)] = list[Newest(sent)]
    OBVIOUS
  <2>1. Len(sent) \in 1..Len(sent)
    BY <1>3, EmptySeq, LenProperties
  <2>2. Newest(sent) \in Window /\ pc[Newest(sent)] = "save"
    BY <1>1, <1>3, <2>1, ElementOfSeq DEF Newest, QueueInv, Holds
  <2> QED
    BY <1>2, <1>3, <2>2
<1> QED
  BY <1>1, <1>2, <1>4, <1>5, <1>6, <1>9 DEF QueueInv, EditInv

LEMMA CalmKeeps == ASSUME TypeOK, EditInv, Calm PROVE EditInv'
<1>1. UNCHANGED <<list, wanted, sent, replies, crossed>> /\ Edited(disk') = Edited(disk)
  BY DEF Calm, histVars
<1>2. \A t \in Window : (pc'[t] = "save" <=> pc[t] = "save") /\ (pc'[t] = "reply" <=> pc[t] = "reply")
  BY DEF Calm, Moves
<1>3. QueueInv => QueueInv'
  BY <1>1, <1>2 DEF QueueInv, Holds, OnceEach
<1> QED
  BY <1>1, <1>3 DEF EditInv, Newest

LEMMA StepKeeps == ASSUME TypeOK, EditInv, [Next]_vars PROVE EditInv'
<1>1. ASSUME NEW t \in Tasks, User(t) PROVE EditInv'
  BY <1>1, UserKinds, SendsKeep, CalmKeeps
<1>2. ASSUME NEW t \in Window, Call(t) PROVE EditInv'
  BY <1>2, CallKinds, SendsKeep, SavesKeep, GetsKeep, ReloadsKeep, CalmKeeps
<1>3. CASE Exit
  <2>1. /\ sent' = <<>> /\ replies' = <<>> /\ disk' = disk /\ wanted' = Edited(disk)
        /\ \A t \in Window : pc'[t] = "idle"
    BY <1>3 DEF Exit
  <2>2. 1..Len(sent') = {} /\ 1..Len(replies') = {}
    BY <2>1, EmptySeq
  <2>3. QueueInv'
    BY <2>1, <2>2 DEF QueueInv, OnceEach, Holds
  <2> QED
    BY <2>1, <2>3 DEF EditInv
<1>4. CASE OnUpdated \/ updateDueSubscriptions \/ (\E r \in Refreshers : Refresh(r))
             \/ Pass \/ Launch \/ UNCHANGED vars
  BY <1>4, WorldKinds, CalmKeeps
<1> QED
  BY <1>1, <1>2, <1>3, <1>4 DEF Next

(* Saves in flight are in the order they were sent, and the last of them,  *)
(* or the file, is what the user wishes.                                   *)
THEOREM EditInvCorrect == Spec => []EditInv
<1>1. Init => EditInv
  <2> SUFFICES ASSUME Init PROVE EditInv
    OBVIOUS
  <2>1. sent = <<>> /\ replies = <<>>
    BY DEF Init
  <2>2. 1..Len(sent) = {} /\ 1..Len(replies) = {}
    BY <2>1, EmptySeq
  <2> QED
    BY <2>2 DEF Init, EditInv, QueueInv, OnceEach, Holds
<1>2. TypeOK /\ EditInv /\ [Next]_vars => EditInv'
  BY StepKeeps
<1> QED
  BY <1>1, <1>2, TypeCorrect, PTL DEF Spec

(* Once the window's saves have arrived the file is what the user's edits  *)
(* add up to, whatever was downloaded and laid over it in between.         *)
THEOREM EditsCorrect == Spec => []EditsHold
<1>1. EditInv => EditsHold
  BY DEF EditInv, EditsHold
<1> QED
  BY <1>1, EditInvCorrect, PTL

(***************************************************************************)
(* What the window shows.                                                  *)
(***************************************************************************)
(* Somebody is to read the file, later than anything that changes it now.  *)
Reading == event \/ \E t \in Window : pc[t] \in {"save", "get"}

(* An update of one entry is one download, and ends with it.               *)
Single == \A t \in Window : flow[t] = "updateOne" =>
            pc[t] = "download" /\ \E i \in Ids : todo[t] = {i}

(* When nobody is, the last reply on its way is the file, and with none on *)
(* its way the window has it: but for what an update of all entries has    *)
(* downloaded by then, and will save at its end.                           *)
Shown ==
    (alive /\ ~crossed /\ ~Reading) =>
      /\ replies # <<>> => list[Newest(replies)] = disk
      /\ replies = <<>> => \/ mem = disk
                           \/ \E t \in Window : pc[t] = "download" /\ flow[t] = "updateAll"

Dead == ~alive => \A t \in Window : pc[t] = "idle"

ShowInv == Single /\ Shown /\ Dead

(* Who is given something to do has nothing to download for others.        *)
LEMMA UserSingle == ASSUME TypeOK, Single, NEW t \in Tasks, User(t) PROVE Single'
<1>0. /\ flow \in [Window -> {"none", "add", "updateAll", "updateOne"}]
      /\ pc \in [Threads -> Labels] /\ todo \in [Threads -> SUBSET Ids]
      /\ Asked \notin Window /\ t \in Window
  BY SubscriptionsAssumption DEF TypeOK
<1>1. ASSUME NEW f \in {"none", "add"}, NEW l, NEW wish, Edit(t, f, l, wish),
             \A u \in Window \ {t} : todo'[u] = todo[u]
      PROVE  Single'
  <2>1. flow' = [flow EXCEPT ![t] = f] /\ pc' = [pc EXCEPT ![t] = "save"]
    BY <1>1 DEF Edit, Begin, Send, Goto
  <2> QED
    BY <1>0, <1>1, <2>1 DEF Single
<1>2. CASE UpdateButton(t)
  <2>1. PICK f, S : /\ Update(t, f, S)
                    /\ f = "updateAll" \/ (f = "updateOne" /\ \E i \in Ids : S = {i})
    BY <1>2 DEF UpdateButton, Has
  <2>2. /\ flow' = [flow EXCEPT ![t] = f] /\ pc' = [pc EXCEPT ![t] = "download"]
        /\ todo' = [todo EXCEPT ![t] = S]
    BY <2>1 DEF Update, Begin, Goto
  <2> QED
    BY <1>0, <2>1, <2>2 DEF Single
<1>3. ASSUME NEW i \in Ids, UpdateNow(t, i) PROVE Single'
  <2>1. /\ flow' = [flow EXCEPT ![t] = "none"] /\ \A u \in Window \ {t} : pc'[u] = pc[u]
        /\ \A u \in Window : todo'[u] = todo[u]
    BY <1>0, <1>3 DEF UpdateNow, Begin
  <2> QED
    BY <1>0, <2>1 DEF Single
<1>4. ASSUME NEW i \in Ids, Relabel(t, i) \/ Delete(t, i) \/ Import(t, i) PROVE Single'
  <2>1. todo' = todo /\ \E l, wish : Edit(t, "none", l, wish)
    BY <1>4 DEF Relabel, Delete, Import, Create
  <2> QED
    BY <1>1, <2>1
<1>5. ASSUME NEW i \in Ids, AddByUrl(t, i) PROVE Single'
  <2>1. (\A u \in Window \ {t} : todo'[u] = todo[u]) /\ \E l, wish : Edit(t, "add", l, wish)
    BY <1>0, <1>5 DEF AddByUrl, Create
  <2> QED
    BY <1>1, <2>1
<1> QED
  BY <1>2, <1>3, <1>4, <1>5 DEF User

LEMMA CallSingle == ASSUME TypeOK, Single, NEW t \in Window, Call(t) PROVE Single'
<1>0. /\ flow \in [Window -> {"none", "add", "updateAll", "updateOne"}]
      /\ pc \in [Threads -> Labels] /\ todo \in [Threads -> SUBSET Ids]
  BY DEF TypeOK
<1>1. CASE SaveSubscriptions(t) \/ GetSubscriptions(t) \/ Reload(t)
  <2>1. /\ flow' = flow /\ todo' = todo /\ pc[t] # "download"
        /\ \A u \in Window \ {t} : pc'[u] = pc[u]
    BY <1>0, <1>1 DEF SaveSubscriptions, GetSubscriptions, Reload, At, Goto
  <2> QED
    BY <2>1 DEF Single
<1>2. ASSUME NEW i \in Ids, FirstAnswer(t, i) \/ ButtonAnswer(t, i) PROVE Single'
  <2>1. \A u \in Window \ {t} : todo'[u] = todo[u] /\ pc'[u] = pc[u] /\ flow'[u] = flow[u]
    BY <1>0, <1>2 DEF FirstAnswer, ButtonAnswer, EndFlow, Goto, Send, webVars
  <2>2. flow'[t] # "updateOne"
    <3>1. CASE EndFlow(t)
      BY <1>0, <3>1 DEF EndFlow
    <3>2. CASE ~EndFlow(t)
      <4>1. i \in todo[t] /\ todo'[t] = todo[t] \ {i} /\ todo'[t] # {} /\ flow' = flow
        BY <1>0, <1>2, <3>2 DEF FirstAnswer, ButtonAnswer, webVars
      <4> QED
        BY <4>1 DEF Single
    <3> QED
      BY <3>1, <3>2
  <2> QED
    BY <2>1, <2>2 DEF Single
<1> QED
  BY <1>1, <1>2 DEF Call

LEMMA WorldSingle ==
    ASSUME TypeOK, Single,
           OnUpdated \/ updateDueSubscriptions \/ (\E r \in Refreshers : Refresh(r))
             \/ Pass \/ Exit \/ Launch \/ UNCHANGED vars
    PROVE  Single'
<1>0. /\ flow \in [Window -> {"none", "add", "updateAll", "updateOne"}]
      /\ pc \in [Threads -> Labels] /\ todo \in [Threads -> SUBSET Ids]
      /\ Window \cap Refreshers = {}
  BY SubscriptionsAssumption DEF TypeOK
<1>1. CASE OnUpdated
  BY <1>0, <1>1 DEF OnUpdated, At, Goto, webVars, Single
<1>2. CASE updateDueSubscriptions
  BY <1>0, <1>2 DEF updateDueSubscriptions, Goto, webVars, Single
<1>3. ASSUME NEW r \in Refreshers, NEW i \in Ids, NEW o, Fetch(r, i, o) PROVE Single'
  BY <1>0, <1>3 DEF Fetch, webVars, Single
<1>4. ASSUME NEW r \in Refreshers, Merge(r) PROVE Single'
  <2>1. flow' = flow /\ todo' = todo /\ \A t \in Window : pc[t] = "download" => pc'[t] = "download"
    BY <1>0, <1>4 DEF Merge, Resume, webVars
  <2> QED
    BY <2>1 DEF Single
<1>5. CASE Exit
  BY <1>5 DEF Exit, Single
<1>6. CASE Pass \/ Launch \/ UNCHANGED vars
  BY <1>6 DEF Pass, Launch, vars, webVars, Single
<1> QED
  BY <1>1, <1>2, <1>3, <1>4, <1>5, <1>6 DEF Refresh

(* No reply is on its way when no handler waits for one.                   *)
LEMMA NobodyWaits ==
    ASSUME TypeOK, QueueInv, \A t \in Window : pc[t] # "reply"
    PROVE  replies = <<>>
<1>1. replies \in Seq(Window) /\ Len(replies) \in Nat
  BY LenProperties DEF TypeOK
<1>2. \A a \in 1..Len(replies) : FALSE
  BY <1>1, ElementOfSeq DEF QueueInv, Holds
<1>3. Len(replies) = 0
  BY <1>1, <1>2
<1> QED
  BY <1>1, <1>3, EmptySeq

(* Only a launch happens to a process that has ended.                      *)
LEMMA StepDead == ASSUME TypeOK, Dead, [Next]_vars PROVE Dead'
<1>1. CASE alive'
  BY <1>1 DEF Dead
<1>2. CASE ~alive'
  <2>1. CASE Exit
    BY <2>1 DEF Exit, Dead
  <2>2. CASE ~alive /\ pc' = pc
    BY <2>2 DEF Dead
  <2>3. CASE alive /\ alive' = alive
    BY <1>2, <2>3
  <2>4. ASSUME NEW t \in Tasks, User(t) PROVE alive' = alive /\ alive
    BY <2>4
       DEF User, Relabel, Delete, Import, Create, AddByUrl, UpdateButton, Update, UpdateNow,
                Edit, Begin, At
  <2>5. ASSUME NEW t \in Window, Call(t) PROVE alive' = alive /\ alive
    BY <2>5 DEF Call, SaveSubscriptions, GetSubscriptions, Reload, FirstAnswer, ButtonAnswer,
                At, lifeVars
  <2>6. ASSUME OnUpdated \/ updateDueSubscriptions \/ (\E r \in Refreshers : Merge(r))
        PROVE  alive' = alive /\ alive
    BY <2>6 DEF OnUpdated, updateDueSubscriptions, Merge, At, lifeVars
  <2>7. ASSUME (\E r \in Refreshers : Refresh(r)), ~ \E r \in Refreshers : Merge(r)
        PROVE  alive' = alive /\ pc' = pc
    BY <2>7 DEF Refresh, Fetch, lifeVars
  <2>8. ASSUME Pass \/ UNCHANGED vars PROVE alive' = alive /\ pc' = pc
    BY <2>8 DEF Pass, vars, lifeVars
  <2>9. ~Launch
    BY <1>2 DEF Launch
  <2> QED
    BY <2>1, <2>2, <2>3, <2>4, <2>5, <2>6, <2>7, <2>8, <2>9 DEF Next
<1> QED
  BY <1>1, <1>2

(* A step that lets the window keep what it shows, and the file what it    *)
(* says, and takes nobody away who is to read it.                          *)
LEMMA SameShown ==
    ASSUME Shown, UNCHANGED <<alive, crossed, replies, list, disk, mem>>, Reading => Reading',
           \A t \in Window : (pc[t] = "download" /\ flow[t] = "updateAll") =>
                               pc'[t] = "download" /\ flow'[t] = "updateAll"
    PROVE  Shown'
BY DEF Shown, Newest

LEMMA UserShown == ASSUME TypeOK, Shown, NEW t \in Tasks, User(t) PROVE Shown'
<1>0. /\ flow \in [Window -> {"none", "add", "updateAll", "updateOne"}]
      /\ pc \in [Threads -> Labels] /\ Asked \notin Window /\ t \in Window
  BY SubscriptionsAssumption DEF TypeOK
<1>1. CASE \E f, l, wish : Edit(t, f, l, wish)
  <2>1. pc'[t] = "save"
    BY <1>0, <1>1 DEF Edit, Send, Goto
  <2> QED
    BY <1>0, <2>1 DEF Shown, Reading
<1>2. CASE (\E f, S : Update(t, f, S)) \/ \E i \in Ids : UpdateNow(t, i)
  <2>1. /\ UNCHANGED <<alive, crossed, replies, list, disk, mem, event>> /\ pc[t] = "idle"
        /\ \A u \in Window \ {t} : pc'[u] = pc[u] /\ flow'[u] = flow[u]
    BY <1>0, <1>2 DEF Update, UpdateNow, Begin, At, Goto, dataVars, histVars
  <2>2. Reading => Reading'
    BY <2>1 DEF Reading
  <2> QED
    BY <2>1, <2>2, SameShown
<1> QED
  BY <1>1, <1>2 DEF User, Relabel, Delete, Import, Create, AddByUrl, UpdateButton

LEMMA AnswerShown ==
    ASSUME TypeOK, Shown, Single, NEW t \in Window, NEW i \in Ids,
           FirstAnswer(t, i) \/ ButtonAnswer(t, i)
    PROVE  Shown'
<1>0. /\ flow \in [Window -> {"none", "add", "updateAll", "updateOne"}]
      /\ pc \in [Threads -> Labels] /\ pc[t] = "download" /\ t \in Threads
      /\ UNCHANGED <<alive, event, disk>>
  BY DEF TypeOK, FirstAnswer, ButtonAnswer, At, lifeVars
<1>1. CASE \E l, wish : Send(t, l, wish)
  <2>1. pc'[t] = "save"
    BY <1>0, <1>1 DEF Send, Goto
  <2> QED
    BY <2>1 DEF Shown, Reading
<1>2. CASE EndFlow(t) /\ Goto(t, "idle") /\ UNCHANGED <<mem, list, histVars>> /\ flow[t] # "updateAll"
  <2>1. /\ \A u \in Window \ {t} : pc'[u] = pc[u] /\ flow'[u] = flow[u]
        /\ UNCHANGED <<crossed, replies>>
    BY <1>0, <1>2 DEF EndFlow, Goto, histVars
  <2>2. Reading => Reading'
    BY <1>0, <2>1 DEF Reading
  <2> QED
    BY <1>0, <1>2, <2>1, <2>2, SameShown
<1>3. CASE UNCHANGED <<pc, webVars, histVars>> /\ flow[t] = "updateAll"
  <2>1. UNCHANGED <<pc, flow, list, crossed, replies>>
    BY <1>3 DEF webVars, histVars
  <2> QED
    BY <1>0, <1>3, <2>1 DEF Shown, Reading, Newest
<1>4. CASE FirstAnswer(t, i)
  BY <1>1, <1>2, <1>4 DEF FirstAnswer
<1>5. CASE ButtonAnswer(t, i)
  <2>1. PICK ok \in {FALSE, i \notin Imported} :
         /\ mem' = IF ok /\ held[t] /\ i \in Has(mem) THEN [mem EXCEPT ![i].links = now] ELSE mem
         /\ \/ /\ todo'[t] # {}
               /\ UNCHANGED <<pc, webVars, histVars>>
            \/ /\ todo'[t] = {} /\ ~ok /\ flow[t] = "updateOne"
               /\ Goto(t, "idle") /\ EndFlow(t)
               /\ UNCHANGED <<list, histVars>>
            \/ /\ todo'[t] = {} /\ (ok \/ flow[t] = "updateAll")
               /\ Send(t, mem', wanted) /\ EndFlow(t)
    BY <1>5 DEF ButtonAnswer
  <2>2. CASE todo'[t] # {} /\ UNCHANGED <<pc, webVars, histVars>>
    <3>1. i \in todo[t] /\ todo' = [todo EXCEPT ![t] = @ \ {i}] /\ flow[t] \in {"updateAll", "updateOne"}
      BY <1>5 DEF ButtonAnswer
    <3>2. todo'[t] = todo[t] \ {i}
      BY <1>0, <3>1 DEF TypeOK
    <3>3. flow[t] # "updateOne"
      BY <2>2, <3>1, <3>2 DEF Single
    <3> QED
      BY <1>3, <2>2, <3>1, <3>3
  <2>3. CASE ~ok /\ flow[t] = "updateOne" /\ Goto(t, "idle") /\ EndFlow(t) /\ UNCHANGED <<list, histVars>>
    BY <1>2, <2>1, <2>3
  <2>4. CASE Send(t, mem', wanted)
    BY <1>1, <2>4
  <2> QED
    BY <2>1, <2>2, <2>3, <2>4
<1> QED
  BY <1>4, <1>5

LEMMA CallShown ==
    ASSUME TypeOK, EditInv, Shown, Single, NEW t \in Window, Call(t)
    PROVE  Shown'
<1>0. pc \in [Threads -> Labels] /\ list \in [Window -> Lists] /\ replies \in Seq(Window)
  BY DEF TypeOK
<1>1. CASE SaveSubscriptions(t)
  <2>1. pc'[t] = "get"
    BY <1>0, <1>1 DEF SaveSubscriptions, Goto
  <2> QED
    BY <2>1 DEF Shown, Reading
<1>2. CASE GetSubscriptions(t)
  <2>1. replies' = Append(replies, t) /\ list'[t] = disk /\ disk' = disk
    BY <1>0, <1>2 DEF GetSubscriptions, dataVars
  <2>2. replies' # <<>> /\ Newest(replies') = t
    <3>1. /\ Len(Append(replies, t)) = Len(replies) + 1 /\ Append(replies, t)[Len(replies) + 1] = t
          /\ Len(replies) \in Nat
      BY <1>0, AppendProperties, LenProperties
    <3> QED
      BY <2>1, <3>1, EmptySeq DEF Newest
  <2> QED
    BY <2>1, <2>2 DEF Shown
<1>3. CASE Reload(t)
  <2> SUFFICES ASSUME alive', ~crossed', ~Reading'
               PROVE  /\ replies' # <<>> => list'[Newest(replies')] = disk'
                      /\ replies' = <<>> => mem' = disk'
    BY DEF Shown
  <2>1. /\ alive' = alive /\ event' = event /\ disk' = disk /\ mem' = list[t]
        /\ list' = [list EXCEPT ![t] = Empty] /\ replies' = After(replies, t)
        /\ ~crossed /\ InTurn(replies, t) /\ pc[t] = "reply"
        /\ \A u \in Window \ {t} : pc'[u] = pc[u]
    BY <1>0, <1>3 DEF Reload, At, Goto, lifeVars
  <2>2. ~Reading
    BY <2>1 DEF Reading
  <2>3. list[Newest(replies)] = disk
    BY <2>1, <2>2 DEF Shown, InTurn
  <2>4. /\ replies' = <<>> => Newest(replies) = t
        /\ replies' # <<>> => Newest(replies') = Newest(replies) /\ Newest(replies) # t
    <3>1. OnceEach(replies)
      BY <2>1 DEF EditInv, QueueInv
    <3>2. /\ After(replies, t) = <<>> => Newest(replies) = t
          /\ After(replies, t) # <<>> =>
               Newest(After(replies, t)) = Newest(replies) /\ Newest(replies) # t
      <4> HIDE DEF Window, Refreshers, Threads
      <4> QED
        BY <1>0, <2>1, <3>1, QueueShrinks
    <3> QED
      BY <2>1, <3>2
  <2>5. replies' # <<>> => list'[Newest(replies)] = list[Newest(replies)]
    BY <1>0, <2>1, <2>4
  <2> QED
    BY <2>1, <2>3, <2>4, <2>5
<1> QED
  BY <1>1, <1>2, <1>3, AnswerShown DEF Call

LEMMA WorldShown ==
    ASSUME TypeOK, EditInv, Shown, Dead,
           OnUpdated \/ updateDueSubscriptions \/ (\E r \in Refreshers : Refresh(r))
             \/ Pass \/ Exit \/ Launch \/ UNCHANGED vars
    PROVE  Shown'
<1>0. /\ pc \in [Threads -> Labels] /\ Window \cap Refreshers = {} /\ Listener \in Window
      /\ Listener \in Threads /\ Sched \in Refreshers
  BY SubscriptionsAssumption DEF TypeOK
<1>1. CASE OnUpdated
  <2>1. pc'[Listener] = "get"
    BY <1>0, <1>1 DEF OnUpdated, Goto
  <2> QED
    BY <1>0, <2>1 DEF Shown, Reading
<1>2. CASE updateDueSubscriptions
  <2>1. /\ UNCHANGED <<alive, crossed, replies, list, disk, mem, event, flow>>
        /\ \A t \in Window : pc'[t] = pc[t]
    BY <1>0, <1>2 DEF updateDueSubscriptions, Goto, dataVars, webVars, histVars
  <2>2. Reading => Reading'
    BY <2>1 DEF Reading
  <2> QED
    BY <2>1, <2>2, SameShown
<1>3. ASSUME NEW r \in Refreshers, NEW i \in Ids, NEW o, Fetch(r, i, o) PROVE Shown'
  <2>1. UNCHANGED <<alive, crossed, replies, list, disk, mem, event, flow, pc>>
    BY <1>3 DEF Fetch, dataVars, webVars, histVars, lifeVars
  <2> QED
    BY <2>1 DEF Shown, Reading, Newest
<1>4. ASSUME NEW r \in Refreshers, Merge(r) PROVE Shown'
  <2> SUFFICES ASSUME ~Reading' PROVE Shown'
    BY DEF Shown
  <2>1. /\ UNCHANGED <<alive, crossed, replies, list, mem, flow>>
        /\ disk' = [i \in Ids |-> Outcome(disk[i], found[r][i])]
        /\ event' = (event \/ \E i \in Has(disk) : found[r][i] # "nothing")
    BY <1>4 DEF Merge, webVars, histVars, lifeVars
  <2>2. event' = FALSE /\ \A t \in Window : pc'[t] = pc[t]
    BY <1>0, <1>4, <2>1 DEF Reading, Merge, Resume
  <2>3. \A i \in Ids : disk[i] = NoEntry \/ found[r][i] = "nothing"
    BY <2>1, <2>2 DEF Has
  <2>4. \A i \in Ids : Outcome(disk[i], found[r][i]) = disk[i]
    BY <2>3 DEF Outcome
  <2>5. disk' = disk
    BY <2>1, <2>4 DEF TypeOK, Lists
  <2>6. Reading => Reading'
    BY <2>1, <2>2 DEF Reading, TypeOK
  <2> QED
    BY <2>1, <2>2, <2>5, <2>6, SameShown
<1>5. CASE Pass \/ UNCHANGED vars
  <2>1. UNCHANGED <<alive, crossed, replies, list, disk, mem, event, flow, pc>>
    BY <1>5 DEF Pass, vars, dataVars, webVars, histVars, lifeVars
  <2> QED
    BY <2>1 DEF Shown, Reading, Newest
<1>6. CASE Exit
  BY <1>6 DEF Exit, Shown
<1>7. CASE Launch
  <2> SUFFICES ASSUME ~crossed' PROVE replies' = <<>> /\ mem' = disk'
    BY DEF Shown
  <2>1. ~alive /\ ~crossed /\ replies' = replies /\ mem' = disk' /\ disk' = disk
    BY <1>7 DEF Launch, histVars
  <2>2. replies = <<>>
    BY <2>1, NobodyWaits DEF EditInv, Dead
  <2> QED
    BY <2>1, <2>2
<1> QED
  BY <1>1, <1>2, <1>3, <1>4, <1>5, <1>6, <1>7 DEF Refresh

(* A change of the file is read again by somebody, and the last who does   *)
(* has the last word on what the window shows.                             *)
THEOREM ShowInvCorrect == Spec => []ShowInv
<1>1. Init => ShowInv
  BY DEF Init, ShowInv, Single, Shown, Dead
<1>2. TypeOK /\ EditInv /\ ShowInv /\ [Next]_vars => ShowInv'
  <2> SUFFICES ASSUME TypeOK, EditInv, ShowInv, [Next]_vars PROVE Single' /\ Shown' /\ Dead'
    BY DEF ShowInv
  <2>1. Single /\ Shown /\ Dead
    BY DEF ShowInv
  <2>2. Single'
    BY <2>1, UserSingle, CallSingle, WorldSingle DEF Next
  <2>3. Shown'
    BY <2>1, UserShown, CallShown, WorldShown DEF Next
  <2>4. Dead'
    BY <2>1, StepDead
  <2> QED
    BY <2>2, <2>3, <2>4
<1> QED
  BY <1>1, <1>2, TypeCorrect, EditInvCorrect, PTL DEF Spec

(* When nothing is under way the window shows the file.                    *)
THEOREM ShowsCorrect == Spec => []WindowShowsDisk
<1>1. ASSUME TypeOK, EditInv, ShowInv PROVE WindowShowsDisk
  <2> SUFFICES ASSUME alive, ~crossed, Quiet PROVE mem = disk
    BY DEF WindowShowsDisk
  <2>1. ~event /\ \A t \in Window : pc[t] = "idle"
    BY DEF Quiet
  <2>2. ~Reading
    BY <2>1 DEF Reading
  <2>3. replies = <<>>
    BY <1>1, <2>1, NobodyWaits DEF EditInv
  <2> QED
    BY <1>1, <2>1, <2>2, <2>3 DEF ShowInv, Shown
<1> QED
  BY <1>1, TypeCorrect, EditInvCorrect, ShowInvCorrect, PTL

(***************************************************************************)
(* Spinners.                                                               *)
(***************************************************************************)
(* t is adding i: its first download is still to be answered.              *)
Adding(t, i) == flow[t] = "add" /\ todo[t] = {i}

AddOK == \A t \in Window : flow[t] = "add" =>
           /\ pc[t] \in {"save", "get", "reply", "download"}
           /\ \E i \in used : todo[t] = {i}

(* The entry t adds is not lost on its way to the answer, unless the user  *)
(* deletes it: from its save on it is in every list that may become the    *)
(* file, or the window's, after what t itself waits for.                   *)
From(s, t, i) == \A a, b \in 1..Len(s) : (s[a] = t /\ a <= b) => i \in Has(list[s[b]])
Kept(t, i) ==
    /\ pc[t] = "save" => From(sent, t, i)
    /\ pc[t] \in {"get", "reply", "download"} =>
         i \in Has(disk) /\ \A u \in Window : pc[u] = "save" => i \in Has(list[u])
    /\ pc[t] = "reply" => From(replies, t, i)
    /\ pc[t] = "download" =>
         i \in Has(mem) /\ \A u \in Window : pc[u] = "reply" => i \in Has(list[u])
AllKept == \A t \in Window, i \in Ids : (Adding(t, i) /\ wanted[i] # NoEntry) => Kept(t, i)

Spins(i) == wanted[i] # NoEntry /\ wanted[i].loading
Spinning == exits = 0 => \A i \in Ids : Spins(i) => \E t \in Tasks : Adding(t, i)

SpinInv == AddOK /\ (~crossed => AllKept /\ Spinning)

(* How a step changes who adds what, and what is wished of the entries.    *)
SameWish(i) ==
    \/ wanted'[i] = NoEntry
    \/ wanted[i] # NoEntry /\ wanted'[i].loading = wanted[i].loading
    \/ i \notin used /\ wanted'[i].loading = FALSE
SameFlows ==
    /\ \A t \in Window, i \in Ids : Adding(t, i)' <=> Adding(t, i)
    /\ \A i \in Ids : SameWish(i)
    /\ exits' = exits

LEMMA UserAdds ==
    ASSUME TypeOK, AddOK, NEW t \in Tasks, User(t)
    PROVE  AddOK' /\ (SameFlows \/ \E i \in Ids : AddByUrl(t, i))
<1>0. /\ flow \in [Window -> {"none", "add", "updateAll", "updateOne"}]
      /\ pc \in [Threads -> Labels] /\ todo \in [Threads -> SUBSET Ids] /\ used \subseteq Ids
      /\ wanted \in [Ids -> Wish \cup {NoEntry}] /\ mem \in Lists
      /\ Asked \notin Window /\ t \in Window /\ now \in 0..MaxTime
  BY SubscriptionsAssumption DEF TypeOK
<1>1. flow[t] # "add" /\ edits' = edits + 1
  BY <1>0 DEF AddOK, User, Relabel, Delete, Import, Create, AddByUrl, UpdateButton, Update,
     UpdateNow,
              Edit, Begin, At
<1>2. ASSUME flow'[t] # "add", used \subseteq used', \A i \in Ids : SameWish(i), exits' = exits,
             \A u \in Window \ {t} : pc'[u] = pc[u] /\ flow'[u] = flow[u] /\ todo'[u] = todo[u]
      PROVE  AddOK' /\ SameFlows
  BY <1>1, <1>2 DEF AddOK, SameFlows, Adding
<1>3. ASSUME NEW l, NEW wish, Edit(t, "none", l, wish), todo' = todo
      PROVE  /\ flow'[t] # "add" /\ wanted' = wish /\ exits' = exits
             /\ \A u \in Window \ {t} : pc'[u] = pc[u] /\ flow'[u] = flow[u] /\ todo'[u] = todo[u]
  BY <1>0, <1>3 DEF Edit, Begin, Send, Goto
<1>4. ASSUME NEW i \in Ids, Relabel(t, i) PROVE AddOK' /\ SameFlows
  <2>1. /\ Edit(t, "none", [mem EXCEPT ![i].label = 1 - @],
                Asks(i, [wanted[i] EXCEPT !.label = 1 - mem[i].label]))
        /\ todo' = todo /\ used' = used
    BY <1>4 DEF Relabel
  <2>2. wanted' = Asks(i, [wanted[i] EXCEPT !.label = 1 - mem[i].label])
    BY <1>3, <2>1
  <2>3. \A j \in Ids : SameWish(j)
    <3>1. CASE wanted[i] = NoEntry
      BY <2>2, <3>1 DEF Asks, SameWish
    <3>2. CASE wanted[i] # NoEntry
      <4>1. wanted[i] \in Wish /\ wanted' = [wanted EXCEPT ![i] = [wanted[i] EXCEPT !.label = 1 - mem[i].label]]
        BY <1>0, <2>2, <3>2 DEF Asks
      <4>2. [wanted[i] EXCEPT !.label = 1 - mem[i].label].loading = wanted[i].loading
        BY <4>1 DEF Wish
      <4> QED
        BY <1>0, <3>2, <4>1, <4>2 DEF SameWish
    <3> QED
      BY <3>1, <3>2
  <2> QED
    BY <1>2, <1>3, <2>1, <2>3
<1>5. ASSUME NEW i \in Ids, Delete(t, i) PROVE AddOK' /\ SameFlows
  <2>1. /\ Edit(t, "none", [mem EXCEPT ![i] = NoEntry], [wanted EXCEPT ![i] = NoEntry])
        /\ todo' = todo /\ used' = used
    BY <1>5 DEF Delete
  <2>2. wanted' = [wanted EXCEPT ![i] = NoEntry]
    BY <1>3, <2>1
  <2>3. \A j \in Ids : SameWish(j)
    BY <1>0, <2>2 DEF SameWish
  <2> QED
    BY <1>2, <1>3, <2>1, <2>3
<1>6. ASSUME NEW i \in Ids, Import(t, i) PROVE AddOK' /\ SameFlows
  <2>0. todo' = todo /\ used \subseteq used'
    BY <1>6 DEF Import
  <2>1. CASE Edit(t, "none", [mem EXCEPT ![i].links = now], wanted)
    <3>1. \A j \in Ids : SameWish(j)
      BY <1>3, <2>0, <2>1 DEF SameWish
    <3> QED
      BY <1>2, <1>3, <2>0, <2>1, <3>1
  <2>2. CASE i \notin used /\ Create(t, "none", i, [NewEntry EXCEPT !.links = now])
    <3> DEFINE l == [mem EXCEPT ![i] = [NewEntry EXCEPT !.links = now]]
    <3>1. Edit(t, "none", l, [wanted EXCEPT ![i] = Edited(l)[i]])
      BY <2>2 DEF Create
    <3>2. l[i].loading = FALSE /\ l[i] # NoEntry /\ l \in Lists
      BY <1>0, NewEntryIs, NoEntryAssumption DEF Lists
    <3>3. Edited(l)[i].loading = FALSE
      <4> HIDE DEF l
      <4> QED
        BY <3>2, EditedIs
    <3>4. wanted' = [wanted EXCEPT ![i] = Edited(l)[i]]
      BY <1>3, <2>0, <3>1
    <3>5. \A j \in Ids : SameWish(j)
      <4> HIDE DEF l
      <4> QED
        BY <1>0, <2>2, <3>3, <3>4 DEF SameWish
    <3> QED
      BY <1>2, <1>3, <2>0, <3>1, <3>5
  <2> QED
    BY <1>6, <2>1, <2>2 DEF Import
<1>7. ASSUME NEW i \in Ids, AddByUrl(t, i) PROVE AddOK'
  <2>1. /\ flow' = [flow EXCEPT ![t] = "add"] /\ pc' = [pc EXCEPT ![t] = "save"]
        /\ todo' = [todo EXCEPT ![t] = {i}] /\ used' = used \cup {i}
    BY <1>7 DEF AddByUrl, Create, Edit, Begin, Send, Goto
  <2> QED
    BY <1>0, <2>1 DEF AddOK
<1>8. ASSUME UpdateButton(t) \/ \E i \in Ids : UpdateNow(t, i) PROVE AddOK' /\ SameFlows
  <2>1. /\ flow'[t] # "add" /\ used' = used /\ wanted' = wanted /\ exits' = exits
        /\ \A u \in Window \ {t} : pc'[u] = pc[u] /\ flow'[u] = flow[u] /\ todo'[u] = todo[u]
    BY <1>0, <1>8 DEF UpdateButton, Update, UpdateNow, Begin, Goto, histVars
  <2>2. \A j \in Ids : SameWish(j)
    BY <2>1 DEF SameWish
  <2> QED
    BY <1>2, <2>1, <2>2
<1> QED
  BY <1>4, <1>5, <1>6, <1>7, <1>8 DEF User

LEMMA CallAdds ==
    ASSUME TypeOK, AddOK, NEW t \in Window, Call(t)
    PROVE  AddOK' /\ (SameFlows \/ \E i \in Ids : FirstAnswer(t, i))
<1>0. /\ flow \in [Window -> {"none", "add", "updateAll", "updateOne"}]
      /\ pc \in [Threads -> Labels] /\ todo \in [Threads -> SUBSET Ids]
  BY DEF TypeOK
<1>1. CASE SaveSubscriptions(t) \/ GetSubscriptions(t) \/ Reload(t)
  <2>1. /\ UNCHANGED <<flow, todo, wanted, used, exits>>
        /\ \A u \in Window \ {t} : pc'[u] = pc[u]
        /\ pc'[t] \in {"get", "reply", IF todo[t] = {} THEN "idle" ELSE "download"}
    BY <1>0, <1>1 DEF SaveSubscriptions, GetSubscriptions, Reload, Goto, lifeVars
  <2>2. SameFlows
    BY <2>1 DEF SameFlows, Adding, SameWish
  <2>3. AddOK'
    BY <2>1 DEF AddOK
  <2> QED
    BY <2>2, <2>3
<1>2. ASSUME NEW i \in Ids, FirstAnswer(t, i) PROVE AddOK'
  <2>1. /\ flow'[t] = "none" /\ used' = used
        /\ \A u \in Window \ {t} : pc'[u] = pc[u] /\ flow'[u] = flow[u] /\ todo'[u] = todo[u]
    BY <1>0, <1>2 DEF FirstAnswer, EndFlow, Goto, Send, lifeVars
  <2> QED
    BY <2>1 DEF AddOK
<1>3. ASSUME NEW i \in Ids, ButtonAnswer(t, i) PROVE AddOK' /\ SameFlows
  <2>1. /\ flow[t] # "add" /\ flow'[t] # "add" /\ used' = used /\ wanted' = wanted /\ exits' = exits
        /\ \A u \in Window \ {t} : pc'[u] = pc[u] /\ flow'[u] = flow[u] /\ todo'[u] = todo[u]
    BY <1>0, <1>3 DEF ButtonAnswer, EndFlow, Goto, Send, lifeVars, webVars, histVars
  <2> QED
    BY <2>1 DEF AddOK, SameFlows, Adding, SameWish
<1> QED
  BY <1>1, <1>2, <1>3 DEF Call

LEMMA WorldAdds ==
    ASSUME TypeOK, AddOK,
           OnUpdated \/ updateDueSubscriptions \/ (\E r \in Refreshers : Refresh(r))
             \/ Pass \/ Launch \/ UNCHANGED vars
    PROVE  AddOK' /\ SameFlows
<1>0. /\ flow \in [Window -> {"none", "add", "updateAll", "updateOne"}]
      /\ pc \in [Threads -> Labels] /\ todo \in [Threads -> SUBSET Ids]
      /\ Window \cap Refreshers = {}
  BY SubscriptionsAssumption DEF TypeOK
<1>1. UNCHANGED <<flow, wanted, used, exits>>
  BY DEF OnUpdated, updateDueSubscriptions, Refresh, Fetch, Merge, Pass, Launch, vars,
         webVars, histVars, lifeVars
<1>2. \A t \in Window : todo'[t] = todo[t]
  BY <1>0 DEF OnUpdated, updateDueSubscriptions, Refresh, Fetch, Merge, Pass, Launch, vars
<1>3. \A t \in Window : pc'[t] = pc[t] \/ pc[t] \in {"idle", "wait"}
  BY <1>0 DEF OnUpdated, At, Goto, updateDueSubscriptions, Refresh, Fetch, Merge, Resume, Pass,
     Launch, vars
<1> QED
  BY <1>1, <1>2, <1>3 DEF AddOK, SameFlows, Adding, SameWish

(* An entry being added stays in every list that counts.                   *)
LEMMA SendsPreserve ==
    ASSUME TypeOK, QueueInv, NEW t \in Window, NEW i \in Ids, Kept(t, i), wanted'[i] # NoEntry,
           ~crossed', NEW u \in Window \ {t}, NEW l \in Lists, NEW wish \in Wishes, Sends(u, l, wish)
    PROVE  Kept(t, i)'
<1>0. /\ sent \in Seq(Window) /\ replies \in Seq(Window) /\ list \in [Window -> Lists]
      /\ pc \in [Threads -> Labels] /\ u \in Window /\ u # t
  BY DEF TypeOK
<1>1. /\ Edited(l) = wanted' /\ mem' = l /\ disk' = disk /\ replies' = replies
      /\ sent' = Append(sent, u) /\ list' = [list EXCEPT ![u] = l]
      /\ pc' = [pc EXCEPT ![u] = "save"] /\ pc[u] \notin {"save", "reply"}
  BY DEF Sends, Send, Goto
<1>2. i \in Has(l)
  BY <1>1, EditedIs DEF Has
<1>3. /\ Len(sent) \in Nat /\ Len(Append(sent, u)) = Len(sent) + 1
      /\ \A a \in 1..Len(sent) : Append(sent, u)[a] = sent[a]
      /\ Append(sent, u)[Len(sent) + 1] = u
  BY <1>0, AppendProperties, LenProperties
<1>4. \A a \in 1..Len(sent) : sent[a] \in Window \ {u}
  BY <1>0, <1>1, ElementOfSeq DEF QueueInv, Holds
<1>5. \A a \in 1..Len(replies) : replies[a] \in Window \ {u}
  BY <1>0, <1>1, ElementOfSeq DEF QueueInv, Holds
<1>6. ASSUME From(sent, t, i) PROVE From(sent, t, i)'
  <2> SUFFICES ASSUME NEW a \in 1..Len(sent'), NEW b \in 1..Len(sent'), sent'[a] = t, a <= b
               PROVE  i \in Has(list'[sent'[b]])
    BY DEF From
  <2>1. a \in 1..Len(sent) /\ sent'[a] = sent[a]
    BY <1>0, <1>1, <1>3
  <2>2. CASE b = Len(sent) + 1
    BY <1>0, <1>1, <1>2, <1>3, <2>2
  <2>3. CASE b # Len(sent) + 1
    <3>1. b \in 1..Len(sent) /\ sent'[b] = sent[b]
      BY <1>1, <1>3, <2>3
    <3>2. list'[sent[b]] = list[sent[b]]
      BY <1>0, <1>1, <1>4, <3>1
    <3> QED
      BY <1>6, <2>1, <3>1, <3>2 DEF From
  <2> QED
    BY <2>2, <2>3
<1>7. ASSUME From(replies, t, i) PROVE From(replies, t, i)'
  BY <1>0, <1>1, <1>5, <1>7 DEF From
<1>8. \A v \in Window : pc'[v] = "save" => v = u \/ pc[v] = "save"
  BY <1>0, <1>1
<1>9. \A v \in Window : pc'[v] = "reply" => v # u /\ pc[v] = "reply"
  BY <1>0, <1>1
<1>10. pc'[t] = pc[t] /\ list'[u] = l /\ \A v \in Window \ {u} : list'[v] = list[v]
  BY <1>0, <1>1
<1> QED
  BY <1>1, <1>2, <1>6, <1>7, <1>8, <1>9, <1>10 DEF Kept

LEMMA SavesPreserve ==
    ASSUME TypeOK, QueueInv, NEW t \in Window, NEW i \in Ids, Kept(t, i),
           ~crossed', NEW u \in Window, SaveSubscriptions(u)
    PROVE  Kept(t, i)'
<1>0. /\ sent \in Seq(Window) /\ replies \in Seq(Window) /\ list \in [Window -> Lists]
      /\ pc \in [Threads -> Labels] /\ OnceEach(sent)
  BY DEF TypeOK, QueueInv
<1>1. /\ disk' = list[u] /\ mem' = mem /\ replies' = replies /\ sent' = After(sent, u)
      /\ list' = [list EXCEPT ![u] = Empty] /\ InTurn(sent, u)
      /\ pc' = [pc EXCEPT ![u] = "get"] /\ pc[u] = "save"
  BY DEF SaveSubscriptions, At, Goto
<1>2. /\ sent' \in Seq(Window) /\ Len(sent') = Len(sent) - 1 /\ Len(sent) \in Nat
      /\ \A a \in 1..Len(sent') : sent'[a] = sent[a + 1] /\ a + 1 \in 1..Len(sent)
      /\ 1 \in 1..Len(sent) /\ sent[1] = u
  BY <1>0, <1>1, QueueMoves
<1>3. \A a \in 1..Len(sent') : sent'[a] \in Window \ {u}
  <2> SUFFICES ASSUME NEW a \in 1..Len(sent') PROVE sent'[a] # u
    BY <1>2, ElementOfSeq
  <2>1. a + 1 # 1
    BY <1>2
  <2> QED
    BY <1>0, <1>2, <2>1 DEF OnceEach
<1>4. \A a \in 1..Len(replies) : replies[a] \in Window \ {u}
  BY <1>0, <1>1, ElementOfSeq DEF QueueInv, Holds
<1>5. \A v \in Window \ {u} : list'[v] = list[v] /\ pc'[v] = pc[v]
  BY <1>0, <1>1
<1>6. pc'[u] = "get"
  BY <1>0, <1>1
<1>7. CASE u = t
  <2>1. From(sent, t, i)
    BY <1>1, <1>7 DEF Kept
  <2>2. i \in Has(disk')
    BY <1>1, <1>2, <1>7, <2>1 DEF From
  <2>3. ASSUME NEW v \in Window, pc'[v] = "save" PROVE i \in Has(list'[v])
    <3>1. v # u /\ pc[v] = "save"
      BY <1>5, <1>6, <2>3
    <3>2. PICK b \in 1..Len(sent) : sent[b] = v
      BY <3>1 DEF QueueInv, Holds
    <3>3. 1 <= b
      BY <1>2
    <3>4. i \in Has(list[v])
      BY <1>2, <1>7, <2>1, <3>2, <3>3 DEF From
    <3> QED
      BY <1>5, <3>1, <3>4
  <2> QED
    BY <1>6, <1>7, <2>2, <2>3 DEF Kept
<1>8. CASE u # t
  <2>1. pc'[t] = pc[t]
    BY <1>5, <1>8
  <2>2. ASSUME From(sent, t, i) PROVE From(sent, t, i)'
    <3> SUFFICES ASSUME NEW a \in 1..Len(sent'), NEW b \in 1..Len(sent'), sent'[a] = t, a <= b
                 PROVE  i \in Has(list'[sent'[b]])
      BY DEF From
    <3>1. /\ a + 1 \in 1..Len(sent) /\ b + 1 \in 1..Len(sent) /\ a + 1 <= b + 1
          /\ sent[a + 1] = t /\ sent'[b] = sent[b + 1]
      BY <1>2
    <3>2. i \in Has(list[sent[b + 1]])
      BY <2>2, <3>1 DEF From
    <3> QED
      BY <1>3, <1>5, <3>1, <3>2
  <2>3. ASSUME From(replies, t, i) PROVE From(replies, t, i)'
    BY <1>1, <1>4, <1>5, <2>3 DEF From
  <2>4. \A v \in Window : pc'[v] \in {"save", "reply"} => v # u /\ pc[v] = pc'[v]
    BY <1>5, <1>6
  <2> QED
    BY <1>1, <1>5, <2>1, <2>2, <2>3, <2>4 DEF Kept
<1> QED
  BY <1>7, <1>8

LEMMA GetsPreserve ==
    ASSUME TypeOK, QueueInv, NEW t \in Window, NEW i \in Ids, Kept(t, i),
           NEW u \in Window, GetSubscriptions(u)
    PROVE  Kept(t, i)'
<1>0. /\ sent \in Seq(Window) /\ replies \in Seq(Window) /\ list \in [Window -> Lists]
      /\ pc \in [Threads -> Labels]
  BY DEF TypeOK
<1>1. /\ disk' = disk /\ mem' = mem /\ replies' = Append(replies, u) /\ sent' = sent
      /\ list' = [list EXCEPT ![u] = disk] /\ pc' = [pc EXCEPT ![u] = "reply"] /\ pc[u] = "get"
  BY DEF GetSubscriptions, At, Goto, dataVars
<1>2. /\ Len(replies) \in Nat /\ Len(Append(replies, u)) = Len(replies) + 1
      /\ \A a \in 1..Len(replies) : Append(replies, u)[a] = replies[a]
      /\ Append(replies, u)[Len(replies) + 1] = u
  BY <1>0, AppendProperties, LenProperties
<1>3. \A a \in 1..Len(replies) : replies[a] \in Window \ {u}
  BY <1>0, <1>1, ElementOfSeq DEF QueueInv, Holds
<1>4. \A a \in 1..Len(sent) : sent[a] \in Window \ {u}
  BY <1>0, <1>1, ElementOfSeq DEF QueueInv, Holds
<1>5. \A v \in Window \ {u} : list'[v] = list[v] /\ pc'[v] = pc[v]
  BY <1>0, <1>1
<1>6. pc'[u] = "reply" /\ list'[u] = disk
  BY <1>0, <1>1
<1>7. ASSUME i \in Has(disk), u = t \/ From(replies, t, i) PROVE From(replies, t, i)'
  <2> SUFFICES ASSUME NEW a \in 1..Len(replies'), NEW b \in 1..Len(replies'), replies'[a] = t, a <= b
               PROVE  i \in Has(list'[replies'[b]])
    BY DEF From
  <2>1. CASE b = Len(replies) + 1
    BY <1>1, <1>2, <1>6, <1>7, <2>1
  <2>2. CASE b # Len(replies) + 1
    <3>1. a \in 1..Len(replies) /\ b \in 1..Len(replies)
      BY <1>1, <1>2, <2>2
    <3>2. replies'[a] = replies[a] /\ replies'[b] = replies[b]
      BY <1>1, <1>2, <3>1
    <3>3. u # t
      BY <1>3, <3>1, <3>2
    <3>4. i \in Has(list[replies[b]])
      BY <1>7, <3>1, <3>2, <3>3 DEF From
    <3> QED
      BY <1>3, <1>5, <3>1, <3>2, <3>4
  <2> QED
    BY <2>1, <2>2
<1>8. ASSUME From(sent, t, i) PROVE From(sent, t, i)'
  BY <1>1, <1>4, <1>5, <1>8 DEF From
<1>9. \A v \in Window : pc'[v] = "save" => v # u /\ pc[v] = "save"
  BY <1>5, <1>6
<1>10. \A v \in Window : pc'[v] = "reply" => v = u \/ (v # u /\ pc[v] = "reply")
  BY <1>5
<1>11. CASE u = t
  BY <1>1, <1>5, <1>6, <1>7, <1>9, <1>11 DEF Kept
<1>12. CASE u # t
  <2>1. pc'[t] = pc[t]
    BY <1>5, <1>12
  <2> QED
    BY <1>1, <1>5, <1>6, <1>7, <1>8, <1>9, <1>10, <2>1 DEF Kept
<1> QED
  BY <1>11, <1>12

LEMMA ReloadsPreserve ==
    ASSUME TypeOK, QueueInv, NEW t \in Window, NEW i \in Ids, Kept(t, i), todo[t] # {},
           ~crossed', NEW u \in Window, Reload(u)
    PROVE  Kept(t, i)'
<1>0. /\ sent \in Seq(Window) /\ replies \in Seq(Window) /\ list \in [Window -> Lists]
      /\ pc \in [Threads -> Labels] /\ OnceEach(replies)
  BY DEF TypeOK, QueueInv
<1>1. /\ disk' = disk /\ mem' = list[u] /\ sent' = sent /\ replies' = After(replies, u)
      /\ list' = [list EXCEPT ![u] = Empty] /\ InTurn(replies, u) /\ pc[u] = "reply"
      /\ pc' = [pc EXCEPT ![u] = IF todo[u] = {} THEN "idle" ELSE "download"]
  BY DEF Reload, At, Goto
<1>2. /\ replies' \in Seq(Window) /\ Len(replies') = Len(replies) - 1 /\ Len(replies) \in Nat
      /\ \A a \in 1..Len(replies') : replies'[a] = replies[a + 1] /\ a + 1 \in 1..Len(replies)
      /\ 1 \in 1..Len(replies) /\ replies[1] = u
  BY <1>0, <1>1, QueueMoves
<1>3. \A a \in 1..Len(replies') : replies'[a] \in Window \ {u}
  <2> SUFFICES ASSUME NEW a \in 1..Len(replies') PROVE replies'[a] # u
    BY <1>2, ElementOfSeq
  <2>1. a + 1 # 1
    BY <1>2
  <2> QED
    BY <1>0, <1>2, <2>1 DEF OnceEach
<1>4. \A a \in 1..Len(sent) : sent[a] \in Window \ {u}
  BY <1>0, <1>1, ElementOfSeq DEF QueueInv, Holds
<1>5. \A v \in Window \ {u} : list'[v] = list[v] /\ pc'[v] = pc[v]
  BY <1>0, <1>1
<1>6. pc'[u] \in {"idle", "download"}
  BY <1>0, <1>1
<1>7. \A v \in Window : pc'[v] \in {"save", "reply"} => v # u /\ pc[v] = pc'[v]
  BY <1>5, <1>6
<1>8. CASE u = t
  <2>1. From(replies, t, i) /\ i \in Has(disk) /\ \A v \in Window : pc[v] = "save" => i \in Has(list[v])
    BY <1>1, <1>8 DEF Kept
  <2>2. i \in Has(mem')
    BY <1>1, <1>2, <1>8, <2>1 DEF From
  <2>3. ASSUME NEW v \in Window, pc'[v] = "reply" PROVE i \in Has(list'[v])
    <3>1. v # u /\ pc[v] = "reply"
      BY <1>7, <2>3
    <3>2. PICK b \in 1..Len(replies) : replies[b] = v
      BY <3>1 DEF QueueInv, Holds
    <3>3. 1 <= b
      BY <1>2
    <3>4. i \in Has(list[v])
      BY <1>2, <1>8, <2>1, <3>2, <3>3 DEF From
    <3> QED
      BY <1>5, <3>1, <3>4
  <2>4. pc'[t] = "download"
    BY <1>0, <1>1, <1>8
  <2> QED
    BY <1>1, <1>5, <1>7, <2>1, <2>2, <2>3, <2>4 DEF Kept
<1>9. CASE u # t
  <2>1. pc'[t] = pc[t]
    BY <1>5, <1>9
  <2>2. ASSUME From(replies, t, i) PROVE From(replies, t, i)'
    <3> SUFFICES ASSUME NEW a \in 1..Len(replies'), NEW b \in 1..Len(replies'), replies'[a] = t, a <= b
                 PROVE  i \in Has(list'[replies'[b]])
      BY DEF From
    <3>1. /\ a + 1 \in 1..Len(replies) /\ b + 1 \in 1..Len(replies) /\ a + 1 <= b + 1
          /\ replies[a + 1] = t /\ replies'[b] = replies[b + 1]
      BY <1>2
    <3>2. i \in Has(list[replies[b + 1]])
      BY <2>2, <3>1 DEF From
    <3> QED
      BY <1>3, <1>5, <3>1, <3>2
  <2>3. ASSUME From(sent, t, i) PROVE From(sent, t, i)'
    BY <1>1, <1>4, <1>5, <2>3 DEF From
  <2> QED
    BY <1>1, <1>5, <1>7, <2>1, <2>2, <2>3 DEF Kept
<1> QED
  BY <1>8, <1>9

LEMMA CalmPreserves ==
    ASSUME TypeOK, TypeOK', NEW t \in Window, NEW i \in Ids, Kept(t, i), alive, Calm,
           pc[t] \in {"save", "get", "reply", "download"},
           pc'[t] \in {"save", "get", "reply", "download"}
    PROVE  Kept(t, i)'
<1>1. UNCHANGED <<list, sent, replies>> /\ Has(mem) \subseteq Has(mem')
  BY DEF Calm, histVars
<1>2. Has(disk') = Has(disk)
  <2>1. disk \in Lists /\ disk' \in Lists /\ Edited(disk') = Edited(disk)
    BY DEF TypeOK, Calm
  <2> QED
    BY <2>1, EditedIs DEF Has
<1>3. pc'[t] = pc[t] /\ \A v \in Window : pc'[v] \in {"save", "reply"} => pc[v] = pc'[v]
  BY DEF Calm, Moves
<1>4. From(sent, t, i)' <=> From(sent, t, i)
  BY <1>1 DEF From
<1>5. From(replies, t, i)' <=> From(replies, t, i)
  BY <1>1 DEF From
<1> QED
  BY <1>1, <1>2, <1>3, <1>4, <1>5 DEF Kept

(* Every step but those of t itself.                                       *)
LEMMA StaysKept ==
    ASSUME TypeOK, TypeOK', EditInv, Dead, AddOK, AddOK', ~crossed, ~crossed',
           NEW t \in Window, NEW i \in Ids, Kept(t, i), Adding(t, i), Adding(t, i)',
           wanted'[i] # NoEntry,
           \/ \E u \in Window \ {t}, l \in Lists, wish \in Wishes : Sends(u, l, wish)
           \/ \E u \in Window : SaveSubscriptions(u) \/ GetSubscriptions(u) \/ Reload(u)
           \/ Calm
    PROVE  Kept(t, i)'
<1>1. QueueInv /\ todo[t] # {} /\ alive
  BY DEF EditInv, Adding, AddOK, Dead
<1>2. /\ pc[t] \in {"save", "get", "reply", "download"}
      /\ pc'[t] \in {"save", "get", "reply", "download"}
  BY DEF Adding, AddOK
<1>3. CASE \E u \in Window \ {t}, l \in Lists, wish \in Wishes : Sends(u, l, wish)
  BY <1>1, <1>3, SendsPreserve
<1>4. CASE \E u \in Window : SaveSubscriptions(u)
  BY <1>1, <1>4, SavesPreserve
<1>5. CASE \E u \in Window : GetSubscriptions(u)
  BY <1>1, <1>5, GetsPreserve
<1>6. CASE \E u \in Window : Reload(u)
  BY <1>1, <1>6, ReloadsPreserve
<1>7. CASE Calm
  BY <1>1, <1>2, <1>7, CalmPreserves
<1> QED
  BY <1>3, <1>4, <1>5, <1>6, <1>7

(* Steps that begin and end no addition.                                   *)
LEMMA SameSpins == ASSUME AddOK, AddOK', Spinning, SameFlows PROVE Spinning'
<1> SUFFICES ASSUME exits' = 0, NEW i \in Ids, Spins(i)'
             PROVE  \E t \in Tasks : Adding(t, i)'
  BY DEF Spinning
<1>1. CASE wanted[i] # NoEntry /\ wanted'[i].loading = wanted[i].loading
  <2>1. \E t \in Tasks : Adding(t, i)
    BY <1>1 DEF Spins, Spinning, SameFlows
  <2> QED
    BY <2>1 DEF SameFlows
<1>2. ~(wanted'[i] = NoEntry) /\ wanted'[i].loading # FALSE
  BY DEF Spins
<1> QED
  BY <1>1, <1>2 DEF SameFlows, SameWish

LEMMA SameKept ==
    ASSUME TypeOK, TypeOK', EditInv, Dead, AddOK, AddOK', AllKept, ~crossed, ~crossed', SameFlows,
           \/ \E u \in Window, l \in Lists, wish \in Wishes : Sends(u, l, wish) /\ flow[u] # "add"
           \/ \E u \in Window : SaveSubscriptions(u) \/ GetSubscriptions(u) \/ Reload(u)
           \/ Calm
    PROVE  AllKept'
<1> SUFFICES ASSUME NEW t \in Window, NEW i \in Ids, Adding(t, i)', wanted'[i] # NoEntry
             PROVE  Kept(t, i)'
  BY DEF AllKept
<1>1. Adding(t, i) /\ i \in used
  BY DEF SameFlows, Adding, AddOK
<1>2. wanted[i] # NoEntry
  BY <1>1 DEF SameFlows, SameWish
<1>3. Kept(t, i)
  BY <1>1, <1>2 DEF AllKept
<1>4. \A u \in Window : flow[u] # "add" => u # t
  BY <1>1 DEF Adding
<1> QED
  BY <1>1, <1>3, <1>4, StaysKept

(* A new addition: its save is the last in the queue.                      *)
LEMMA AddSpins ==
    ASSUME TypeOK, TypeOK', EditInv, Dead, SpinInv, AddOK', ~crossed, ~crossed',
           NEW t \in Tasks, NEW i \in Ids, AddByUrl(t, i)
    PROVE  AllKept' /\ Spinning'
<1> DEFINE l    == [mem EXCEPT ![i] = [NewEntry EXCEPT !.loading = TRUE]]
           wish == [wanted EXCEPT ![i] = Edited(l)[i]]
<1>0. /\ sent \in Seq(Window) /\ list \in [Window -> Lists] /\ mem \in Lists
      /\ pc \in [Threads -> Labels] /\ todo \in [Threads -> SUBSET Ids]
      /\ wanted \in [Ids -> Wish \cup {NoEntry}]
      /\ flow \in [Window -> {"none", "add", "updateAll", "updateOne"}] /\ t \in Window
      /\ 0 \in 0..MaxTime
  BY SubscriptionsAssumption DEF TypeOK
<1>1. /\ Edit(t, "add", l, wish) /\ i \notin used /\ todo' = [todo EXCEPT ![t] = {i}]
  BY DEF AddByUrl, Create
<1>2. l \in Lists /\ i \in Has(l)
  BY <1>0, NewEntryIs, NoEntryAssumption DEF Lists, Has
<1>3. wish \in Wishes
  BY <1>0, <1>2, EditedIs DEF Wishes
<1> HIDE DEF l
<1>4. /\ wanted' = wish /\ flow' = [flow EXCEPT ![t] = "add"] /\ exits' = exits /\ disk' = disk
      /\ sent' = Append(sent, t) /\ list' = [list EXCEPT ![t] = l]
      /\ pc' = [pc EXCEPT ![t] = "save"] /\ pc[t] = "idle" /\ Sends(t, l, wish)
  BY <1>1 DEF Edit, Begin, Send, Goto, At, Sends
<1>5. /\ Adding(t, i)' /\ \A j \in Ids \ {i} : ~Adding(t, j)'
      /\ \A u \in Window \ {t}, j \in Ids : Adding(u, j)' <=> Adding(u, j)
  BY <1>0, <1>1, <1>4 DEF Adding
<1>6. \A u \in Window : flow[u] = "add" => u # t /\ todo[u] # {i}
  BY <1>1, <1>4 DEF SpinInv, AddOK
<1>7. \A j \in Ids \ {i} : wanted'[j] = wanted[j]
  BY <1>0, <1>4
<1>8. Kept(t, i)'
  <2>1. /\ Len(sent) \in Nat /\ Len(sent') = Len(sent) + 1
        /\ \A a \in 1..Len(sent) : sent'[a] = sent[a]
        /\ sent'[Len(sent) + 1] = t
    BY <1>0, <1>4, AppendProperties, LenProperties
  <2>2. \A a \in 1..Len(sent) : sent[a] # t
    BY <1>0, <1>4, ElementOfSeq DEF EditInv, QueueInv, Holds
  <2>3. list'[t] = l /\ pc'[t] = "save"
    BY <1>0, <1>4
  <2>4. From(sent, t, i)'
    <3> SUFFICES ASSUME NEW a \in 1..Len(sent'), NEW b \in 1..Len(sent'), sent'[a] = t, a <= b
                 PROVE  i \in Has(list'[sent'[b]])
      BY DEF From
    <3>1. a = Len(sent) + 1
      BY <2>1, <2>2
    <3>2. b = Len(sent) + 1
      BY <2>1, <3>1
    <3> QED
      BY <1>2, <2>1, <2>3, <3>2
  <2> QED
    BY <2>3, <2>4 DEF Kept
<1>9. ASSUME NEW u \in Window, NEW j \in Ids, Adding(u, j)', wanted'[j] # NoEntry
      PROVE  Kept(u, j)'
  <2>1. CASE u = t
    BY <1>5, <1>8, <1>9, <2>1
  <2>2. CASE u # t
    <3>1. Adding(u, j)
      BY <1>5, <1>9, <2>2
    <3>2. j # i
      BY <1>6, <3>1 DEF Adding
    <3>3. Kept(u, j)
      BY <1>7, <1>9, <3>1, <3>2 DEF SpinInv, AllKept
    <3>4. \E v \in Window \ {u}, m \in Lists, w \in Wishes : Sends(v, m, w)
      BY <1>0, <1>2, <1>3, <1>4, <2>2
    <3> QED
      BY <1>9, <3>1, <3>3, <3>4, StaysKept DEF SpinInv
  <2> QED
    BY <2>1, <2>2
<1>10. ASSUME exits' = 0, NEW j \in Ids, Spins(j)' PROVE \E u \in Tasks : Adding(u, j)'
  <2>1. CASE j = i
    BY <1>5, <2>1
  <2>2. CASE j # i
    <3>1. wanted'[j] = wanted[j] /\ exits = 0
      BY <1>4, <1>7, <1>10, <2>2
    <3>2. PICK u \in Tasks : Adding(u, j)
      BY <1>10, <3>1 DEF SpinInv, Spinning, Spins
    <3>3. u # t
      BY <1>6, <3>2 DEF Adding
    <3> QED
      BY <1>5, <3>2, <3>3
  <2> QED
    BY <2>1, <2>2
<1> QED
  BY <1>9, <1>10 DEF AllKept, Spinning

(* The answer: the entry is still there, unless it was deleted, and its    *)
(* spinner goes.                                                           *)
LEMMA AnswerSpins ==
    ASSUME TypeOK, TypeOK', EditInv, Dead, SpinInv, AddOK', ~crossed, ~crossed',
           NEW t \in Window, NEW i \in Ids, FirstAnswer(t, i)
    PROVE  AllKept' /\ Spinning'
<1>0. /\ pc \in [Threads -> Labels] /\ todo \in [Threads -> SUBSET Ids]
      /\ wanted \in [Ids -> Wish \cup {NoEntry}]
      /\ flow \in [Window -> {"none", "add", "updateAll", "updateOne"}]
  BY DEF TypeOK
<1>1. /\ At(t, "download") /\ flow[t] = "add" /\ i \in todo[t] /\ todo' = [todo EXCEPT ![t] = {}]
      /\ flow' = [flow EXCEPT ![t] = "none"] /\ exits' = exits /\ disk' = disk
  BY DEF FirstAnswer, EndFlow, lifeVars
<1>2. Adding(t, i)
  BY <1>1 DEF SpinInv, AddOK, Adding
<1>3. /\ \A u \in Window \ {t}, j \in Ids : Adding(u, j)' <=> Adding(u, j)
      /\ \A j \in Ids : ~Adding(t, j)'
  BY <1>0, <1>1 DEF Adding
<1>4. /\ ~Spins(i)'
      /\ \A j \in Ids \ {i} : wanted'[j] = wanted[j]
      /\ wanted'[i] # NoEntry => wanted[i] # NoEntry
      /\ (\E l \in Lists, wish \in Wishes : Sends(t, l, wish)) \/ Calm
  <2>1. CASE i \notin Has(mem) /\ Goto(t, "idle") /\ UNCHANGED <<mem, list, histVars>>
    <3>1. wanted[i] = NoEntry
      BY <1>1, <1>2, <2>1 DEF SpinInv, AllKept, Kept, At
    <3>2. Calm
      BY <1>1, <2>1, WaiterMoves DEF Calm, At
    <3> QED
      BY <2>1, <3>1, <3>2 DEF Spins, histVars
  <2>2. CASE Send(t, mem', Asks(i, [wanted[i] EXCEPT !.loading = FALSE]))
    <3>1. wanted' = Asks(i, [wanted[i] EXCEPT !.loading = FALSE])
      BY <2>2 DEF Send
    <3>2. Sends(t, mem', wanted') /\ mem' \in Lists /\ wanted' \in Wishes
      BY <1>1, <2>2, <3>1 DEF Sends, At, TypeOK, Wishes
    <3>3. CASE wanted[i] = NoEntry
      BY <3>1, <3>2, <3>3 DEF Asks, Spins
    <3>4. CASE wanted[i] # NoEntry
      <4>1. wanted[i] \in Wish /\ [wanted[i] EXCEPT !.loading = FALSE].loading = FALSE
        BY <1>0, <3>4 DEF Wish
      <4>2. wanted' = [wanted EXCEPT ![i] = [wanted[i] EXCEPT !.loading = FALSE]]
        BY <3>1, <3>4 DEF Asks
      <4> QED
        BY <1>0, <3>2, <3>4, <4>1, <4>2 DEF Spins
    <3> QED
      BY <3>3, <3>4
  <2> QED
    BY <2>1, <2>2 DEF FirstAnswer
<1>5. ASSUME NEW u \in Window, NEW j \in Ids, Adding(u, j)', wanted'[j] # NoEntry
      PROVE  Kept(u, j)'
  <2>1. u # t /\ Adding(u, j)
    BY <1>3, <1>5
  <2>2. wanted[j] # NoEntry
    BY <1>4, <1>5
  <2>3. Kept(u, j)
    BY <2>1, <2>2 DEF SpinInv, AllKept
  <2>4. \/ \E v \in Window \ {u}, l \in Lists, wish \in Wishes : Sends(v, l, wish)
        \/ Calm
    BY <1>4, <2>1
  <2> QED
    BY <1>5, <2>1, <2>3, <2>4, StaysKept DEF SpinInv
<1>6. ASSUME exits' = 0, NEW j \in Ids, Spins(j)' PROVE \E u \in Tasks : Adding(u, j)'
  <2>1. j # i /\ wanted'[j] = wanted[j] /\ exits = 0
    BY <1>1, <1>4, <1>6
  <2>2. PICK u \in Tasks : Adding(u, j)
    BY <1>6, <2>1 DEF SpinInv, Spinning, Spins
  <2>3. u # t
    BY <1>2, <2>1, <2>2 DEF Adding
  <2> QED
    BY <1>3, <2>2, <2>3
<1> QED
  BY <1>5, <1>6 DEF AllKept, Spinning

(* Crossed is for good.                                                    *)
LEMMA StaysCrossed == ASSUME [Next]_vars, crossed PROVE crossed'
<1>1. ASSUME NEW t \in Tasks, User(t) PROVE crossed'
  BY <1>1 DEF User, Relabel, Delete, Import, Create, AddByUrl, UpdateButton, Update, UpdateNow,
              Edit, Send, histVars
<1>2. ASSUME NEW t \in Window, Call(t) PROVE crossed'
  BY <1>2 DEF Call, SaveSubscriptions, GetSubscriptions, Reload, FirstAnswer, ButtonAnswer,
     Send, histVars
<1>3. CASE OnUpdated \/ updateDueSubscriptions \/ (\E r \in Refreshers : Refresh(r))
             \/ Pass \/ Exit \/ Launch \/ UNCHANGED vars
  BY <1>3 DEF OnUpdated, updateDueSubscriptions, Refresh, Fetch, Merge, Pass, Exit, Launch,
     vars, histVars
<1> QED
  BY <1>1, <1>2, <1>3 DEF Next

LEMMA StepSpins ==
    ASSUME TypeOK, TypeOK', EditInv, Dead, SpinInv, [Next]_vars PROVE SpinInv'
<1>0. AddOK
  BY DEF SpinInv
<1>1. ASSUME AddOK', SameFlows, ~crossed',
             \/ \E u \in Window, l \in Lists, wish \in Wishes : Sends(u, l, wish) /\ flow[u] # "add"
             \/ \E u \in Window : SaveSubscriptions(u) \/ GetSubscriptions(u) \/ Reload(u)
             \/ Calm
      PROVE  AllKept' /\ Spinning'
  <2>1. ~crossed /\ AllKept /\ Spinning
    BY <1>1, StaysCrossed DEF SpinInv
  <2>2. AllKept'
    BY <1>0, <1>1, <2>1, SameKept
  <2>3. Spinning'
    BY <1>0, <1>1, <2>1, SameSpins
  <2> QED
    BY <2>2, <2>3
<1>2. ASSUME NEW t \in Tasks, User(t) PROVE SpinInv'
  <2>1. AddOK' /\ (SameFlows \/ \E i \in Ids : AddByUrl(t, i))
    BY <1>0, <1>2, UserAdds
  <2> SUFFICES ASSUME ~crossed' PROVE AllKept' /\ Spinning'
    BY <2>1 DEF SpinInv
  <2>2. CASE SameFlows
    <3>1. flow[t] # "add"
      BY <1>0, <1>2
         DEF AddOK, User, Relabel, Delete, Import, Create, AddByUrl, UpdateButton, Update,
                        UpdateNow, Edit, Begin, At
    <3>2. (\E l \in Lists, wish \in Wishes : Sends(t, l, wish)) \/ Calm
      BY <1>2, UserKinds
    <3> QED
      BY <1>1, <2>1, <2>2, <3>1, <3>2
  <2>3. ASSUME NEW i \in Ids, AddByUrl(t, i) PROVE AllKept' /\ Spinning'
    BY <2>1, <2>3, AddSpins, StaysCrossed
  <2> QED
    BY <2>1, <2>2, <2>3
<1>3. ASSUME NEW t \in Window, Call(t) PROVE SpinInv'
  <2>1. AddOK' /\ (SameFlows \/ \E i \in Ids : FirstAnswer(t, i))
    BY <1>0, <1>3, CallAdds
  <2> SUFFICES ASSUME ~crossed' PROVE AllKept' /\ Spinning'
    BY <2>1 DEF SpinInv
  <2>2. ASSUME NEW i \in Ids, FirstAnswer(t, i) PROVE AllKept' /\ Spinning'
    BY <2>1, <2>2, AnswerSpins, StaysCrossed
  <2>3. CASE SameFlows /\ ~ \E i \in Ids : FirstAnswer(t, i)
    <3>1. \/ \E l \in Lists, wish \in Wishes : Sends(t, l, wish)
          \/ SaveSubscriptions(t) \/ GetSubscriptions(t) \/ Reload(t)
          \/ Calm
      BY <1>3, CallKinds
    <3>2. ASSUME NEW l, NEW wish, Sends(t, l, wish) PROVE flow[t] # "add"
      <4>1. ~SaveSubscriptions(t) /\ ~GetSubscriptions(t) /\ ~Reload(t)
        <5>1. pc'[t] = "save" /\ pc[t] # "save"
          BY <3>2 DEF Sends, Send, Goto, TypeOK
        <5> QED
          BY <5>1 DEF SaveSubscriptions, GetSubscriptions, Reload, Goto, At, TypeOK
      <4>2. PICK i \in Ids : ButtonAnswer(t, i)
        BY <1>3, <2>3, <4>1 DEF Call
      <4> QED
        BY <4>2 DEF ButtonAnswer
    <3> QED
      BY <1>1, <2>1, <2>3, <3>1, <3>2
  <2> QED
    BY <2>1, <2>2, <2>3
<1>4. CASE OnUpdated \/ updateDueSubscriptions \/ (\E r \in Refreshers : Refresh(r))
             \/ Pass \/ Launch \/ UNCHANGED vars
  <2>1. AddOK' /\ SameFlows
    BY <1>0, <1>4, WorldAdds
  <2>2. Calm
    BY <1>4, WorldKinds
  <2> QED
    BY <1>1, <2>1, <2>2 DEF SpinInv
<1>5. CASE Exit
  <2>1. \A t \in Window : flow'[t] = "none"
    BY <1>5 DEF Exit
  <2>2. exits' # 0
    BY <1>5, SubscriptionsAssumption DEF Exit, TypeOK
  <2> QED
    BY <2>1, <2>2 DEF SpinInv, AddOK, AllKept, Adding, Spinning
<1> QED
  BY <1>2, <1>3, <1>4, <1>5 DEF Next

(* Until two handlers cross, an entry that the user's edits leave loading  *)
(* is being added by a handler, and every copy of the list that handler    *)
(* relies on has the entry.                                                *)
THEOREM SpinInvCorrect == Spec => []SpinInv
<1>1. Init => SpinInv
  <2> SUFFICES ASSUME Init PROVE SpinInv
    OBVIOUS
  <2>1. \A t \in Window : flow[t] = "none"
    BY DEF Init
  <2>2. ASSUME NEW i \in Ids PROVE ~Spins(i)
    <3>1. PICK fresh \in SUBSET used :
            disk = [j \in Ids |->
                      IF j \in used
                      THEN [NewEntry EXCEPT !.links = 1, !.updatedAt = IF j \in fresh THEN 1 ELSE 0]
                      ELSE NoEntry]
      BY DEF Init
    <3>2. disk[i] # NoEntry => disk[i].loading = FALSE
      BY <3>1 DEF NewEntry
    <3>3. wanted[i] # NoEntry => wanted[i].loading = FALSE
      BY <3>2 DEF Init, Edited
    <3> QED
      BY <3>3 DEF Spins
  <2> QED
    BY <2>1, <2>2 DEF SpinInv, AddOK, AllKept, Adding, Spinning
<1>2. TypeOK /\ TypeOK' /\ EditInv /\ ShowInv /\ SpinInv /\ [Next]_vars => SpinInv'
  BY StepSpins DEF ShowInv
<1> QED
  BY <1>1, <1>2, TypeCorrect, EditInvCorrect, ShowInvCorrect, PTL DEF Spec

(* A spinner the file shows belongs to a first download that is still to   *)
(* be answered, however the entry was edited, refreshed or lost from the   *)
(* window's copy meanwhile.                                                *)
THEOREM SpinnersCorrect == Spec => []SpinnerEnds
<1>1. ASSUME TypeOK, EditInv, SpinInv PROVE SpinnerEnds
  <2> SUFFICES ASSUME exits = 0, ~crossed, sent = <<>>, NEW i \in Has(disk), disk[i].loading
               PROVE  \E t \in Tasks : flow[t] = "add" /\ i \in todo[t]
    BY DEF SpinnerEnds
  <2>1. i \in Ids /\ disk[i] # NoEntry /\ disk \in Lists
    BY <1>1 DEF Has, TypeOK
  <2>2. Edited(disk)[i] # NoEntry /\ Edited(disk)[i].loading = disk[i].loading
    BY <2>1, EditedIs
  <2>3. Spins(i)
    BY <1>1, <2>2 DEF EditInv, Spins
  <2>4. PICK t \in Tasks : Adding(t, i)
    BY <1>1, <2>1, <2>3 DEF SpinInv, Spinning
  <2> QED
    BY <2>4 DEF Adding
<1> QED
  BY <1>1, TypeCorrect, EditInvCorrect, SpinInvCorrect, PTL
=============================================================================
