------------------------------ MODULE History ------------------------------
(***************************************************************************)
(* The session history: the page keeps the list and sends all of it to Go  *)
(* after every change (renderer.ts), Go keeps the file (history.go).  A    *)
(* page that starts reads the file and moves in what versions before 1.7.6 *)
(* left in the page's own storage.                                         *)
(*                                                                         *)
(* A record is its name; order, the cap of 100 records and what is in them *)
(* are Window's.  A call of the page is a goroutine of Go, and two of them *)
(* run in either order.                                                    *)
(***************************************************************************)
EXTENDS Naturals, FiniteSets

CONSTANTS
    Legacy,       \* records in the page's own storage
    Stored,       \* records in the file
    MaxRecords,   \* bound: sessions that end
    MaxStarts,    \* bound: times the page starts again
    MaxCalls      \* bound: lists sent to Go

HistoryAssumption ==
    /\ IsFiniteSet(Legacy) /\ IsFiniteSet(Stored)
    /\ (Legacy \cup Stored) \cap (1..MaxRecords) = {}
    /\ MaxRecords \in Nat /\ MaxStarts \in Nat /\ MaxCalls \in Nat

VARIABLES
    phase,         \* initHistory: "reading" -> "read" -> "moving" -> "open"
    answer,        \* what GetHistory has answered
    historyCache,
    legacy,        \* localStorage's item, {} when there is none
    file,
    saves,         \* SaveHistory calls that have not run
    ended,         \* sessions recorded so far
    starts, calls, \* bounded counters; calls also names the lists
    removed,       \* history: records the user has deleted
    mishaps        \* history: what went wrong, of Mishap

vars == <<phase, answer, historyCache, legacy, file, saves, ended, starts, calls, removed, mishaps>>

Mishap == {"unread",    \* the file could not be read and was taken for empty
           "failed",    \* a list could not be written
           "crossed",   \* an older list was written over a newer one
           "early",     \* a session ended, or was deleted, before "open"
           "cut",       \* the page or the program ended with a list unwritten
           "notMoved"}  \* the records of old versions could not be written

Records == Legacy \cup Stored \cup (1..MaxRecords)
Save(list, move) == [id |-> calls + 1, list |-> list, move |-> move]

TypeOK ==
    /\ phase \in {"reading", "read", "moving", "open"}
    /\ answer \in SUBSET Records /\ historyCache \in SUBSET Records
    /\ legacy \in {{}, Legacy} /\ file \in SUBSET Records
    /\ saves \subseteq [id: 1..MaxCalls, list: SUBSET Records, move: BOOLEAN]
    /\ ended \in 0..MaxRecords /\ starts \in 0..MaxStarts /\ calls \in 0..MaxCalls
    /\ removed \in SUBSET Records /\ mishaps \in SUBSET Mishap

Init ==
    /\ phase = "reading" /\ answer = {} /\ historyCache = {}
    /\ legacy \in {{}, Legacy} /\ file \in {{}, Stored}
    /\ saves = {} /\ ended = 0 /\ starts = 0 /\ calls = 0 /\ removed = {} /\ mishaps = {}

Send(list, move) ==
    calls < MaxCalls /\ calls' = calls + 1 /\ saves' = saves \cup {Save(list, move)}
Early == IF phase = "open" THEN mishaps ELSE mishaps \cup {"early"}

(* GetHistory: an unreadable file is an empty one.                         *)
GetHistory ==
    /\ phase = "reading" /\ phase' = "read"
    /\ \/ answer' = file /\ UNCHANGED mishaps
       \/ file # {} /\ answer' = {} /\ mishaps' = mishaps \cup {"unread"}
    /\ UNCHANGED <<historyCache, legacy, file, saves, ended, starts, calls, removed>>

(* The answer reaches the page, which moves old records into an empty      *)
(* history only, and drops them otherwise.                                 *)
(* Mutant: they are dropped in any case.                                   *)
ReadArrivesDropping ==
    /\ phase = "read" /\ historyCache' = answer /\ legacy' = {}
    /\ IF answer = {} /\ legacy # {}
       THEN phase' = "moving" /\ Send(legacy, TRUE)
       ELSE phase' = "open" /\ UNCHANGED <<saves, calls>>
    /\ UNCHANGED <<answer, file, ended, starts, removed, mishaps>>
ReadArrives ==
    /\ phase = "read" /\ historyCache' = answer
    /\ IF answer = {} /\ legacy # {}
       THEN phase' = "moving" /\ Send(legacy, TRUE) /\ UNCHANGED legacy
       ELSE phase' = "open" /\ legacy' = {} /\ UNCHANGED <<saves, calls>>
    /\ UNCHANGED <<answer, file, ended, starts, removed, mishaps>>

(* SaveHistory in Go, whenever its goroutine gets the file.  The page      *)
(* waits for the answer to the first one only.                             *)
SaveHistory(s) ==
    /\ saves' = saves \ {s}
    /\ \/ /\ file' = s.list
          /\ mishaps' = IF \E t \in saves : t.id < s.id THEN mishaps \cup {"crossed"} ELSE mishaps
          /\ IF s.move
             THEN historyCache' = legacy /\ legacy' = {} /\ phase' = "open"
             ELSE UNCHANGED <<historyCache, legacy, phase>>
       \/ /\ mishaps' = mishaps \cup {IF s.move THEN "notMoved" ELSE "failed"}
          /\ phase' = (IF s.move THEN "open" ELSE phase)
          /\ UNCHANGED <<file, historyCache, legacy>>
    /\ UNCHANGED <<answer, ended, starts, calls, removed>>

(* The list the page holds from here on, and its way to the file.          *)
saveHistory(list) == historyCache' = list /\ Send(list, FALSE) /\ mishaps' = Early
RecordSession ==
    /\ ended < MaxRecords /\ ended' = ended + 1
    /\ saveHistory(historyCache \cup {ended + 1})
    /\ UNCHANGED <<phase, answer, legacy, file, starts, removed>>
DeleteEntry(e) ==
    /\ saveHistory(historyCache \ {e}) /\ removed' = removed \cup {e}
    /\ UNCHANGED <<phase, answer, legacy, file, ended, starts>>
ClearHistory ==
    /\ historyCache # {} /\ saveHistory({}) /\ removed' = removed \cup historyCache
    /\ UNCHANGED <<phase, answer, legacy, file, ended, starts>>

(* The page starts again: loaded anew, with the calls still under way in   *)
(* Go, or with the program.                                                *)
Restart ==
    /\ starts < MaxStarts /\ starts' = starts + 1
    /\ phase' = "reading" /\ answer' = {} /\ historyCache' = {} /\ saves' = {}
    /\ mishaps' = IF \E s \in saves : ~s.move THEN mishaps \cup {"cut"} ELSE mishaps
    /\ UNCHANGED <<legacy, file, ended, calls, removed>>

Next ==
    \/ GetHistory \/ ReadArrives \/ RecordSession \/ ClearHistory \/ Restart
    \/ \E s \in saves : SaveHistory(s)
    \/ \E e \in historyCache : DeleteEntry(e)

Spec == Init /\ [][Next]_vars

(***************************************************************************)
(* Properties                                                              *)
(***************************************************************************)
Sessions == 1..ended

(* A session that ended is found in the history until the user deletes it, *)
(* over restarts of the page and the program: in the file as soon as no    *)
(* list is under way (saveHistory).  None of the listed mishaps may have   *)
(* happened; that old records could not be moved does no harm to new ones. *)
SessionsKept ==
    saves = {} /\ mishaps \subseteq {"notMoved"} => Sessions \ removed \subseteq file

(* The records of old versions are in one of the two places, whenever they *)
(* were there to begin with: a step that takes them out of the page's      *)
(* storage finds them in the file (initHistory), or finds a history that   *)
(* is not empty.                                                           *)
MovesOver == legacy # legacy' => (legacy \subseteq file' \/ answer # {})

(* "The key is removed only after a successful write; a failed move must   *)
(* leave the old data in place, or a single failed attempt would cost the  *)
(* user the whole history" (renderer.ts).                                  *)
LegacyKept ==
    [][legacy # legacy' /\ "notMoved" \in mishaps => legacy \subseteq file']_vars
=============================================================================
