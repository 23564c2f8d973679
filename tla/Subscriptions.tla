---------------------------- MODULE Subscriptions ----------------------------
(***************************************************************************)
(* The list of subscriptions and everybody who writes it                   *)
(* (backend/service/subscriptions.go, frontend/modules/                    *)
(* subscription-manager.ts, frontend/renderer.ts).                         *)
(*                                                                         *)
(* The file holds the whole list.  The window keeps a copy, allSubscrip-   *)
(* tions, changes it in place and sends all of it to SaveSubscriptions;    *)
(* the service downloads on its own, once per period for each entry, and   *)
(* lays what it got over the file.  A window handler runs to its next      *)
(* await; the calls it awaits run on goroutines of their own, so they may  *)
(* take effect and be answered in any order.                               *)
(*                                                                         *)
(* An entry is reduced to what can be lost: what the user gave it (name,   *)
(* period, place: label), how new its servers are (links), when the        *)
(* service says it updated them, the error and the spinner.  The vault     *)
(* below the file is one atomic write; downloads are short of a period.    *)
(***************************************************************************)
EXTENDS Naturals, Sequences

CONSTANTS
    Ids,        \* entries there may ever be
    Imported,   \* those the window makes of a clipboard or QR import
    NoEntry,    \* in the place of an entry a list does not have
    Tasks,      \* bound: handlers of the window under way at one time
    Listener,   \* the handler of "subscriptions-updated"
    Sched,      \* the goroutine of StartAutoUpdateScheduler
    Asked,      \* the goroutine of UpdateSubscriptionNow
    Period,     \* updateInterval
    Owned,      \* bound: sets of entries the user may have at first
    MaxTime, MaxEdits, MaxExits   \* bounds: of the clock, edits and exits

ASSUME SubscriptionsAssumption ==
    /\ Imported \subseteq Ids /\ Owned \subseteq SUBSET (Ids \ Imported)
    /\ Listener \notin Tasks /\ Sched # Asked
    /\ {Sched, Asked} \cap (Tasks \cup {Listener}) = {}
    /\ {Period, MaxTime} \subseteq Nat \ {0} /\ {MaxEdits, MaxExits} \subseteq Nat

VARIABLES
    alive,      \* the process runs
    now,        \* the time in periods, bounded
    disk,       \* subscriptions.json
    mem,        \* allSubscriptions
    pc, todo,   \* where each thread is, and what it has still to download
    flow, held, \* what a task is doing; it works on entries still in the list
    list,       \* what a window call carries: the list saved, or the one read
    found,      \* what a refresher downloaded so far
    slept,      \* schedulerTick has passed since the last round
    event,      \* "subscriptions-updated" is on its way to the window
    used,       \* ids given out; Date.now() repeats none
    edits, exits,   \* bounded: edits of the user, ends of the process
    wanted,     \* history: what the user's edits so far add up to
    sent, replies,  \* history: saves and replies in flight, oldest first
    crossed     \* history: one of those took effect out of turn, or the
                \* window saved a list a late reply had put back

Refreshers == {Sched, Asked}
Window     == Tasks \cup {Listener}
Threads    == Window \cup Refreshers

Entry  == [label: 0..1, links: 0..MaxTime, updatedAt: 0..MaxTime,
           error: BOOLEAN, loading: BOOLEAN]
NewEntry == [label |-> 0, links |-> 0, updatedAt |-> 0, error |-> FALSE, loading |-> FALSE]
Wish   == [label: 0..1, loading: BOOLEAN]
ASSUME NoEntryAssumption == NoEntry \notin Entry \cup Wish
Lists  == [Ids -> Entry \cup {NoEntry}]
Empty  == [i \in Ids |-> NoEntry]
Has(l) == {i \in Ids : l[i] # NoEntry}

(* What an edit of the user decides, and a download does not.              *)
Edited(l) == [i \in Ids |-> IF l[i] = NoEntry THEN NoEntry
                            ELSE [label |-> l[i].label, loading |-> l[i].loading]]

dataVars == <<disk, mem>>
webVars  == <<flow, held, list>>
histVars == <<wanted, sent, replies, crossed>>
lifeVars == <<alive, now, slept, used, edits, exits>>
vars == <<pc, todo, event, dataVars, found, webVars, histVars, lifeVars>>

Labels == {"idle", "save", "get", "reply", "download", "wait", "fetch"}

TypeOK ==
    /\ alive \in BOOLEAN /\ slept \in BOOLEAN /\ now \in 1..MaxTime
    /\ disk \in Lists /\ mem \in Lists
    /\ pc \in [Threads -> Labels]
    /\ todo \in [Threads -> SUBSET Ids]
    /\ flow \in [Window -> {"none", "add", "updateAll", "updateOne"}]
    /\ held \in [Window -> BOOLEAN]
    /\ list \in [Window -> Lists]
    /\ found \in [Refreshers -> [Ids -> {"nothing", "links", "failed"}]]
    /\ event \in BOOLEAN
    /\ used \subseteq Ids
    /\ edits \in 0..MaxEdits /\ exits \in 0..MaxExits
    /\ wanted \in [Ids -> Wish \cup {NoEntry}]
    /\ sent \in Seq(Window) /\ replies \in Seq(Window)
    /\ crossed \in BOOLEAN

NothingFound == [i \in Ids |-> "nothing"]

(* At rest, after the first load of the window, with a list some of which  *)
(* was updated a while ago and the rest never.                             *)
Init ==
    /\ alive = TRUE /\ now = 1 /\ slept = TRUE
    /\ used \in Owned
    /\ \E fresh \in SUBSET used :
         disk = [i \in Ids |->
                   IF i \in used
                   THEN [NewEntry EXCEPT !.links = 1, !.updatedAt = IF i \in fresh THEN 1 ELSE 0]
                   ELSE NoEntry]
    /\ mem = disk
    /\ pc = [t \in Threads |-> "idle"] /\ todo = [t \in Threads |-> {}]
    /\ flow = [t \in Window |-> "none"] /\ held = [t \in Window |-> FALSE]
    /\ list = [t \in Window |-> Empty]
    /\ found = [r \in Refreshers |-> NothingFound]
    /\ event = FALSE
    /\ edits = 0 /\ exits = 0
    /\ wanted = Edited(disk) /\ sent = <<>> /\ replies = <<>>
    /\ crossed = FALSE

(* The history of what is in flight: once something took effect out of     *)
(* turn that is noted for good, and who is left is of no interest.         *)
InTurn(s, t) == s # <<>> /\ Head(s) = t
After(s, t)  == IF InTurn(s, t) THEN Tail(s) ELSE <<>>

At(t, label) == alive /\ pc[t] = label
Goto(t, label) == pc' = [pc EXCEPT ![t] = label]

(***************************************************************************)
(* Handlers of the window.  Each changes its copy and sends all of it.     *)
(***************************************************************************)
Send(t, l, wish) ==
    /\ Goto(t, "save")
    /\ list' = [list EXCEPT ![t] = l]
    /\ wanted' = wish /\ sent' = Append(sent, t)
    /\ crossed' = (crossed \/ Edited(l) # wish)
    /\ UNCHANGED <<replies>>

Begin(t, f) ==
    /\ At(t, "idle")
    /\ edits < MaxEdits /\ edits' = edits + 1
    /\ flow' = [flow EXCEPT ![t] = f]

(* What the user asks of an entry he may not even have any more: a late    *)
(* reply can show him one he deleted.                                      *)
Asks(i, e) == IF wanted[i] = NoEntry THEN wanted ELSE [wanted EXCEPT ![i] = e]

Edit(t, f, l, wish) ==
    /\ Begin(t, f)
    /\ mem' = l
    /\ Send(t, l, wish)
    /\ UNCHANGED <<event, disk, found, alive, now, slept, exits>>

(* Renaming it, giving it a period of its own, dropping its tab elsewhere. *)
Relabel(t, i) ==
    /\ i \in Has(mem)
    /\ Edit(t, "none", [mem EXCEPT ![i].label = 1 - @],
            Asks(i, [wanted[i] EXCEPT !.label = 1 - mem[i].label]))
    /\ UNCHANGED <<todo, held, used>>

Delete(t, i) ==
    /\ i \in Has(mem)
    /\ Edit(t, "none", [mem EXCEPT ![i] = NoEntry], [wanted EXCEPT ![i] = NoEntry])
    /\ UNCHANGED <<todo, held, used>>

Create(t, f, i, e) ==
    LET l == [mem EXCEPT ![i] = e]
    IN  Edit(t, f, l, [wanted EXCEPT ![i] = Edited(l)[i]])

(* Links from the clipboard or a QR code: added to the entry for those, or *)
(* to a new one.                                                           *)
Import(t, i) ==
    /\ i \in Imported
    /\ \/ /\ i \in Has(mem)
          /\ Edit(t, "none", [mem EXCEPT ![i].links = now], wanted)
       \/ i \notin used /\ Create(t, "none", i, [NewEntry EXCEPT !.links = now])
    /\ used' = used \cup {i}
    /\ UNCHANGED <<todo, held>>

(* addSubscriptionByUrl: saved empty and with its spinner on, before the   *)
(* first download.                                                         *)
AddByUrl(t, i) ==
    /\ i \notin Imported \cup used
    /\ Create(t, "add", i, [NewEntry EXCEPT !.loading = TRUE])
    /\ used' = used \cup {i}
    /\ todo' = [todo EXCEPT ![t] = {i}]
    /\ UNCHANGED held

(* The update button, for the selected tab or for all of them: the window  *)
(* downloads by itself, into the entries as they were at the click.        *)
Update(t, f, S) ==
    /\ S # {}
    /\ Begin(t, f) /\ Goto(t, "download")
    /\ todo' = [todo EXCEPT ![t] = S]
    /\ held' = [held EXCEPT ![t] = TRUE]
    /\ UNCHANGED <<event, dataVars, found, list, histVars, alive, now, slept, used, exits>>

UpdateButton(t) ==
    \/ Update(t, "updateAll", Has(mem))
    \/ \E i \in Has(mem) : Update(t, "updateOne", {i})

(* "Update now" of the menu asks the service to do it.                     *)
UpdateNow(t, i) ==
    /\ i \in Has(mem)
    /\ At(Asked, "idle")
    /\ Begin(t, "none")
    /\ pc' = [pc EXCEPT ![t] = "wait", ![Asked] = "fetch"]
    /\ todo' = [todo EXCEPT ![Asked] = {i} \cap Has(disk)]
    /\ UNCHANGED <<event, dataVars, found, held, list, histVars, alive, now, slept, used, exits>>

User(t) ==
    \/ \E i \in Ids : \/ Relabel(t, i) \/ Delete(t, i)
                      \/ Import(t, i) \/ AddByUrl(t, i) \/ UpdateNow(t, i)
    \/ UpdateButton(t)

(***************************************************************************)
(* Answers to what the window itself downloads.                            *)
(***************************************************************************)
EndFlow(t) == flow' = [flow EXCEPT ![t] = "none"] /\ held' = [held EXCEPT ![t] = FALSE]

(* Mutant: only a download that worked turns the spinner off.              *)
FirstAnswerUnlessFailed(t, i) ==
    /\ At(t, "download") /\ flow[t] = "add" /\ i \in todo[t]
    /\ \/ i \notin Has(mem) /\ Goto(t, "idle")
          /\ UNCHANGED <<mem, list, histVars>>
       \/ /\ i \in Has(mem)
          /\ \/ mem' = [mem EXCEPT ![i].links = now, ![i].loading = FALSE]
             \/ UNCHANGED mem
          /\ Send(t, mem', Asks(i, [wanted[i] EXCEPT !.loading = mem'[i].loading]))
    /\ todo' = [todo EXCEPT ![t] = {}]
    /\ EndFlow(t)
    /\ UNCHANGED <<event, disk, found, lifeVars>>

(* The first download of a new entry, which is looked up again in the list *)
(* as it is by now; the spinner goes either way.                           *)
FirstAnswer(t, i) ==
    /\ At(t, "download") /\ flow[t] = "add" /\ i \in todo[t]
    /\ \/ i \notin Has(mem) /\ Goto(t, "idle")
          /\ UNCHANGED <<mem, list, histVars>>
       \/ /\ i \in Has(mem)
          /\ \E links \in {now, mem[i].links} :
               mem' = [mem EXCEPT ![i].links = links, ![i].loading = FALSE]
          /\ Send(t, mem', Asks(i, [wanted[i] EXCEPT !.loading = FALSE]))
    /\ todo' = [todo EXCEPT ![t] = {}]
    /\ EndFlow(t)
    /\ UNCHANGED <<event, disk, found, lifeVars>>

(* An answer to the update button.  What arrives after a reload goes into  *)
(* entries no list has any more.  One entry is saved if it was updated,    *)
(* all of them in any case.  Nobody answers for an imported entry.         *)
ButtonAnswer(t, i) ==
    /\ At(t, "download") /\ flow[t] \in {"updateAll", "updateOne"} /\ i \in todo[t]
    /\ todo' = [todo EXCEPT ![t] = @ \ {i}]
    /\ \E ok \in {FALSE, i \notin Imported} :
         /\ mem' = IF ok /\ held[t] /\ i \in Has(mem) THEN [mem EXCEPT ![i].links = now] ELSE mem
         /\ \/ /\ todo'[t] # {}
               /\ UNCHANGED <<pc, webVars, histVars>>
            \/ /\ todo'[t] = {} /\ ~ok /\ flow[t] = "updateOne"
               /\ Goto(t, "idle") /\ EndFlow(t)
               /\ UNCHANGED <<list, histVars>>
            \/ /\ todo'[t] = {} /\ (ok \/ flow[t] = "updateAll")
               /\ Send(t, mem', wanted) /\ EndFlow(t)
    /\ UNCHANGED <<event, disk, found, lifeVars>>

(***************************************************************************)
(* Calls of the window on their goroutines, and their replies.             *)
(***************************************************************************)
SaveSubscriptions(t) ==
    /\ At(t, "save") /\ t \in Window
    /\ disk' = list[t]
    /\ list' = [list EXCEPT ![t] = Empty]
    /\ Goto(t, "get")
    /\ crossed' = (crossed \/ ~InTurn(sent, t))
    /\ sent' = After(sent, t)
    /\ UNCHANGED <<todo, event, mem, found, flow, held, wanted, replies, lifeVars>>

GetSubscriptions(t) ==
    /\ At(t, "get")
    /\ list' = [list EXCEPT ![t] = disk]
    /\ replies' = Append(replies, t)
    /\ Goto(t, "reply")
    /\ UNCHANGED <<todo, event, dataVars, found, flow, held, wanted, sent, crossed, lifeVars>>

(* loadSubscriptions: the copy is replaced, entries and all.               *)
Reload(t) ==
    /\ At(t, "reply")
    /\ mem' = list[t]
    /\ list' = [list EXCEPT ![t] = Empty]
    /\ held' = [u \in Window |-> FALSE]
    /\ Goto(t, IF todo[t] = {} THEN "idle" ELSE "download")
    /\ crossed' = (crossed \/ ~InTurn(replies, t))
    /\ replies' = After(replies, t)
    /\ UNCHANGED <<todo, event, disk, found, flow, wanted, sent, lifeVars>>

OnUpdated ==
    /\ event /\ At(Listener, "idle")
    /\ event' = FALSE
    /\ Goto(Listener, "get")
    /\ UNCHANGED <<todo, dataVars, found, webVars, histVars, lifeVars>>

(***************************************************************************)
(* refreshSubscriptions, of the scheduler and of UpdateSubscriptionNow.    *)
(***************************************************************************)
(* Entries of any URL are due when a period has passed since the service   *)
(* last updated them; an imported one has the URL "clipboard" or "qrcode". *)
Due(l) == {i \in Has(l) : l[i].updatedAt = 0 \/ now - l[i].updatedAt >= Period}

updateDueSubscriptions ==
    /\ At(Sched, "idle") /\ slept /\ Due(disk) # {}
    /\ slept' = FALSE
    /\ todo' = [todo EXCEPT ![Sched] = Due(disk)]
    /\ Goto(Sched, "fetch")
    /\ UNCHANGED <<event, dataVars, found, webVars, histVars, alive, now, used, edits, exits>>

Fetch(r, i, outcome) ==
    /\ At(r, "fetch") /\ i \in todo[r]
    /\ outcome = "links" => i \notin Imported
    /\ found' = [found EXCEPT ![r][i] = outcome]
    /\ todo' = [todo EXCEPT ![r] = @ \ {i}]
    /\ UNCHANGED <<pc, event, dataVars, webVars, histVars, lifeVars>>

(* The end of refreshSubscriptions: for Asked, the handler that called     *)
(* goes on to reload.                                                      *)
Resume(r) ==
    pc' = [t \in Threads |-> CASE t = r -> "idle"
                               [] r = Asked /\ pc[t] = "wait" -> "get"
                               [] OTHER -> pc[t]]

(* mergeFetchedSubscriptions: onto the list that is on disk by now.        *)
(* Mutants: one that is gone is put back; a failure counts as an update.   *)
OutcomePutsBack(e, result) ==
    CASE result = "nothing" \/ (e = NoEntry /\ result = "failed") -> e
      [] e # NoEntry /\ result = "failed" -> [e EXCEPT !.error = TRUE]
      [] OTHER -> [NewEntry EXCEPT !.links = now, !.updatedAt = now]

OutcomeStampsFailure(e, result) ==
    CASE e = NoEntry \/ result = "nothing" -> e
      [] e # NoEntry /\ result = "failed" -> [e EXCEPT !.error = TRUE, !.updatedAt = now]
      [] OTHER -> [e EXCEPT !.links = now, !.error = FALSE, !.updatedAt = now]

Outcome(e, result) ==
    CASE e = NoEntry \/ result = "nothing" -> e
      [] e # NoEntry /\ result = "failed" -> [e EXCEPT !.error = TRUE]
      [] OTHER -> [e EXCEPT !.links = now, !.error = FALSE, !.updatedAt = now]

(* Mutant: the window hears only of servers, not of failures.              *)
MergeSilently(r) ==
    /\ At(r, "fetch") /\ todo[r] = {}
    /\ found' = [found EXCEPT ![r] = NothingFound]
    /\ disk' = [i \in Ids |-> Outcome(disk[i], found[r][i])]
    /\ event' = (event \/ \E i \in Has(disk) : found[r][i] = "links")
    /\ Resume(r)
    /\ UNCHANGED <<todo, mem, webVars, histVars, lifeVars>>

Merge(r) ==
    /\ At(r, "fetch") /\ todo[r] = {}
    /\ found' = [found EXCEPT ![r] = NothingFound]
    /\ disk' = [i \in Ids |-> Outcome(disk[i], found[r][i])]
    /\ event' = (event \/ \E i \in Has(disk) : found[r][i] # "nothing")
    /\ Resume(r)
    /\ UNCHANGED <<todo, mem, webVars, histVars, lifeVars>>

(***************************************************************************)
(* Time and process.  Ten minutes, or hours, pass only while nothing is    *)
(* under way.                                                              *)
(***************************************************************************)
Quiet == ~event /\ \A t \in Threads : pc[t] = "idle"

Pass ==
    /\ Quiet
    /\ now' \in {now, now + 1} \cap 1..MaxTime
    /\ slept' = TRUE
    /\ UNCHANGED <<pc, todo, event, dataVars, found, webVars, histVars, alive, used, edits, exits>>

(* The process ends, with whatever is in flight; the file is the old one   *)
(* or the new one.                                                         *)
Exit ==
    /\ alive /\ exits < MaxExits /\ exits' = exits + 1
    /\ alive' = FALSE
    /\ pc' = [t \in Threads |-> "idle"] /\ todo' = [t \in Threads |-> {}]
    /\ flow' = [t \in Window |-> "none"] /\ held' = [t \in Window |-> FALSE]
    /\ list' = [t \in Window |-> Empty] /\ found' = [r \in Refreshers |-> NothingFound]
    /\ event' = FALSE /\ sent' = <<>> /\ replies' = <<>>
    /\ mem' = Empty
    /\ wanted' = Edited(disk)
    /\ slept' = TRUE
    /\ UNCHANGED <<disk, now, used, edits, crossed>>

(* A launch, up to where the tray is built and the window has the list.    *)
Launch ==
    /\ ~alive /\ alive' = TRUE
    /\ mem' = disk
    /\ UNCHANGED <<pc, todo, event, disk, found, webVars, histVars, now, slept, used, edits, exits>>

Call(t) ==
    \/ SaveSubscriptions(t) \/ GetSubscriptions(t) \/ Reload(t)
    \/ \E i \in Ids : FirstAnswer(t, i) \/ ButtonAnswer(t, i)

Refresh(r) ==
    \/ \E i \in Ids : Fetch(r, i, "links") \/ Fetch(r, i, "failed")
    \/ Merge(r)

Next ==
    \/ \E t \in Tasks : User(t)
    \/ \E t \in Window : Call(t)
    \/ OnUpdated
    \/ updateDueSubscriptions
    \/ \E r \in Refreshers : Refresh(r)
    \/ Pass \/ Exit \/ Launch

Spec == Init /\ [][Next]_vars

(***************************************************************************)
(* Properties.                                                             *)
(***************************************************************************)
(* What the user added, deleted, renamed in the window is what the file    *)
(* says once his saves have arrived, whatever the service downloaded and   *)
(* wrote meanwhile: a deleted entry does not come back, an added one does  *)
(* not go (mergeFetchedSubscriptions).                                     *)
EditsHold == (alive /\ ~crossed /\ sent = <<>>) => Edited(disk) = wanted

(* An entry that says when it was updated has servers at least that new: a *)
(* save of the window may undo a download, but then the entry is due again.*)
UpdatedHasServers == \A i \in Has(disk) : disk[i].links >= disk[i].updatedAt

(* A spinner belongs to a first download, and goes out with its answer.    *)
SpinnerEnds ==
    (alive /\ exits = 0 /\ ~crossed /\ sent = <<>>) =>
        \A i \in Has(disk) : disk[i].loading =>
            \E t \in Tasks : flow[t] = "add" /\ i \in todo[t]

(* When nothing is under way the window shows the file.                    *)
WindowShowsDisk == (alive /\ ~crossed /\ Quiet) => mem = disk
=============================================================================
