------------------------------- MODULE LogView -------------------------------
(***************************************************************************)
(* The log tab (renderer.ts): the lines the page keeps, and the elements   *)
(* it shows for them.  New lines are appended to the view only while it is *)
(* open; a filter, a search and the way back to the tab build it anew.     *)
(*                                                                         *)
(* A line is its number and its kind: its level and whether the text the   *)
(* user searches for is in it.                                             *)
(***************************************************************************)
EXTENDS Enumeration, SequencesExt

CONSTANTS MAX_LOG_ENTRIES,  \* lines kept (the code: 500)
          MaxLines          \* bound: lines that arrive in one behaviour

LogViewAssumption == MAX_LOG_ENTRIES \in Nat \ {0} /\ MaxLines \in Nat

VARIABLES
    logsArray,
    shown,       \* fullLogOutput's children
    open,        \* the tab is open
    domStale,    \* logsDomStale
    filter,      \* currentLogFilter, logSearchQuery
    typed,       \* what stands in the search field
    searchTimer, \* logSearchTimer is set
    notice,      \* logsEmpty, "nothing found", is displayed
    arrived      \* lines so far, their names

vars == <<logsArray, shown, open, domStale, filter, typed, searchTimer, notice, arrived>>

Levels == {"INFO", "ERROR"}
Lines == [id: 1..MaxLines, level: Levels, found: BOOLEAN]
Filters == [level: Levels \cup {"ALL"}, search: BOOLEAN]

TypeOK ==
    /\ logsArray \in Seq(Lines) /\ Len(logsArray) <= MAX_LOG_ENTRIES
    /\ shown \in Seq(Lines) /\ Len(shown) <= MAX_LOG_ENTRIES
    /\ open \in BOOLEAN /\ domStale \in BOOLEAN /\ notice \in BOOLEAN
    /\ filter \in Filters /\ typed \in BOOLEAN /\ searchTimer \in BOOLEAN
    /\ arrived \in 0..MaxLines

Init ==
    /\ logsArray = <<>> /\ shown = <<>> /\ open = FALSE /\ domStale = FALSE
    /\ filter = [level |-> "ALL", search |-> FALSE] /\ typed = FALSE
    /\ searchTimer = FALSE /\ notice = FALSE /\ arrived = 0

logMatchesFilters(entry, f) ==
    /\ f.level = "ALL" \/ entry.level = f.level
    /\ f.search => entry.found
Matching(entries, f) ==
    Picked(entries, {i \in DOMAIN entries : logMatchesFilters(entries[i], f)})
LastOf(s) == IF Len(s) > MAX_LOG_ENTRIES
             THEN SubSeq(s, Len(s) - MAX_LOG_ENTRIES + 1, Len(s)) ELSE s
EmptyState(count, f, entries) ==
    count = 0 /\ (f.search \/ f.level # "ALL") /\ entries # <<>>

(* The view is built anew from what is kept, under the filters f.          *)
renderLogs(f) ==
    /\ filter' = f /\ shown' = Matching(logsArray, f) /\ domStale' = FALSE
    /\ notice' = EmptyState(Len(shown'), f, logsArray)

(* onLog, with a batch of lines; a batch may be longer than what is kept.  *)
(* Lines about aborted sockets never get this far.                         *)
addLogEntries(batch) ==
    /\ logsArray' = LastOf(logsArray \o batch)
    /\ domStale' = (domStale \/ ~open)
    /\ IF open /\ Matching(batch, filter) # <<>>
       THEN /\ shown' = LastOf(shown \o Matching(batch, filter))
            /\ notice' = EmptyState(Len(shown'), filter, logsArray')
       ELSE UNCHANGED <<shown, notice>>
    /\ UNCHANGED <<open, filter, typed, searchTimer>>
Batches(n) == [1..n -> [level: Levels, found: BOOLEAN]]
OnLog ==
    \E n \in 1..(MaxLines - arrived) : \E b \in Batches(n) :
        /\ addLogEntries([i \in 1..n |->
               [id |-> arrived + i, level |-> b[i].level, found |-> b[i].found]])
        /\ arrived' = arrived + n

SetFilter(level) ==
    /\ open /\ renderLogs([filter EXCEPT !.level = level])
    /\ UNCHANGED <<logsArray, open, typed, searchTimer, arrived>>
(* The search runs 150 ms after the last key, on whatever tab.             *)
Type ==
    /\ open /\ typed' = ~typed /\ searchTimer' = TRUE
    /\ UNCHANGED <<logsArray, shown, open, domStale, filter, notice, arrived>>
SearchDue ==
    /\ searchTimer /\ searchTimer' = FALSE
    /\ renderLogs([filter EXCEPT !.search = typed])
    /\ UNCHANGED <<logsArray, open, typed, arrived>>

selectTab ==
    /\ open' = ~open
    /\ IF ~open /\ domStale THEN renderLogs(filter)
       ELSE UNCHANGED <<shown, domStale, filter, notice>>
    /\ UNCHANGED <<logsArray, typed, searchTimer, arrived>>

clearLogs ==
    /\ open /\ logsArray' = <<>> /\ shown' = <<>> /\ domStale' = FALSE
    /\ UNCHANGED <<open, filter, typed, searchTimer, notice, arrived>>

Next ==
    \/ OnLog \/ \E level \in Levels \cup {"ALL"} : SetFilter(level)
    \/ Type \/ SearchDue \/ selectTab \/ clearLogs

Spec == Init /\ [][Next]_vars

(* Whoever looks at the log sees every line kept that the filters let      *)
(* through, in order, at the end of the view; what stands before them went *)
(* out of the kept lines while it was on screen, and matches as well.      *)
(* Without filters the view is the log.                                    *)
ViewIsLog ==
    open => /\ IsSuffix(Matching(logsArray, filter), shown)
            /\ Matching(shown, filter) = shown
            /\ filter.level = "ALL" /\ ~filter.search => shown = logsArray
(* The notice "nothing found" stands over a log in which nothing is found: *)
(* what updateLogsEmptyState is for.  (Not so: see clearLogs and a batch   *)
(* none of whose lines matches.)                                           *)
NoticeHonest == open => notice = EmptyState(Len(shown), filter, logsArray)
=============================================================================
