------------------------------ MODULE LogStream ------------------------------
(***************************************************************************)
(* One logStreamer (backend/service/logstream.go): log lines of the core   *)
(* go into a bounded buffer and leave it in batches, which its loop sends  *)
(* while the window is visible and flushLogStream sends when the window    *)
(* comes back.  Lines are numbered in the order they are written.          *)
(*                                                                         *)
(* flush takes the buffer under the mutex and emits after letting it go,   *)
(* so every flush is two steps and two of them can be under way.           *)
(***************************************************************************)
EXTENDS Naturals, Sequences, FiniteSets

CONSTANTS
    Capacity,      \* maxBufferedLogLines
    Loop,          \* the goroutine of run()
    Others,        \* goroutines that may call flushLogStream
    MaxLines       \* bound: lines written in one behaviour

ASSUME LogStreamAssumption ==
    /\ Capacity \in Nat \ {0}
    /\ Loop \notin Others
    /\ MaxLines \in Nat

VARIABLES
    buf, dropped,  \* the lines kept, and how many made room for newer ones
    written,       \* bounded: lines written so far
    batch,         \* what each flusher has taken and not emitted yet
    shown,         \* the lines the window received, in that order
    told,          \* how many lines the notices it received say were dropped
    stop,          \* the stop channel is closed
    loop,          \* "running", "last" on its final flush, "ended"
    visible,       \* the window is
    late,          \* history: a line was written after the last flush of the loop
    raced          \* history: a batch was taken while another was not emitted yet

histVars == <<late, raced>>
vars == <<buf, dropped, written, batch, shown, told, stop, loop, visible, histVars>>

Flushers == Others \cup {Loop}

Nothing == [lines |-> <<>>, dropped |-> 0]

TypeOK ==
    /\ buf \in Seq(Nat) /\ dropped \in Nat
    /\ written \in 0..MaxLines
    /\ batch \in [Flushers -> [lines: Seq(Nat), dropped: Nat]]
    /\ shown \in Seq(Nat) /\ told \in Nat
    /\ stop \in BOOLEAN /\ visible \in BOOLEAN
    /\ loop \in {"running", "last", "ended"}
    /\ late \in BOOLEAN /\ raced \in BOOLEAN

Init ==
    /\ buf = <<>> /\ dropped = 0 /\ written = 0
    /\ batch = [f \in Flushers |-> Nothing]
    /\ shown = <<>> /\ told = 0
    /\ stop = FALSE /\ loop = "running"
    /\ visible \in BOOLEAN
    /\ late = FALSE /\ raced = FALSE

(* WriteMessage: the oldest line makes room, and is counted.               *)
WriteMessage ==
    /\ written < MaxLines /\ written' = written + 1
    /\ late' = (late \/ loop # "running")
    /\ IF Len(buf) >= Capacity
         THEN /\ buf' = Append(Tail(buf), written')
              /\ dropped' = dropped + 1
         ELSE /\ buf' = Append(buf, written')
              /\ UNCHANGED dropped
    /\ UNCHANGED <<batch, shown, told, stop, loop, visible, raced>>

Taken == {f \in Flushers : batch[f] # Nothing}

(* Mutant: the count of dropped lines is not reset.                        *)
TakeKeepsCount(f) ==
    /\ batch[f] = Nothing
    /\ batch' = [batch EXCEPT ![f] = [lines |-> buf, dropped |-> dropped]]
    /\ buf' = <<>> /\ UNCHANGED dropped
    /\ raced' = (raced \/ Taken # {})

(* flush, up to the unlock: nothing to send is nothing to do.              *)
Take(f) ==
    /\ batch[f] = Nothing
    /\ batch' = [batch EXCEPT ![f] = [lines |-> buf, dropped |-> dropped]]
    /\ buf' = <<>> /\ dropped' = 0
    /\ raced' = (raced \/ Taken # {})

(* Mutant: a batch is put before what was sent earlier.                    *)
EmitFirst(f) ==
    /\ batch[f] # Nothing
    /\ shown' = batch[f].lines \o shown
    /\ told' = told + batch[f].dropped
    /\ batch' = [batch EXCEPT ![f] = Nothing]
    /\ loop' = IF f = Loop /\ loop = "last" THEN "ended" ELSE loop
    /\ UNCHANGED <<buf, dropped, written, stop, visible, histVars>>

Emit(f) ==
    /\ batch[f] # Nothing
    /\ shown' = shown \o batch[f].lines
    /\ told' = told + batch[f].dropped
    /\ batch' = [batch EXCEPT ![f] = Nothing]
    /\ loop' = IF f = Loop /\ loop = "last" THEN "ended" ELSE loop
    /\ UNCHANGED <<buf, dropped, written, stop, visible, histVars>>

HasLines == buf # <<>> \/ dropped # 0

(* Mutant: the ticker only sends while nobody can see it.                  *)
TickWhenHidden ==
    /\ loop = "running" /\ ~visible /\ HasLines
    /\ Take(Loop)
    /\ UNCHANGED <<written, shown, told, stop, loop, visible, late>>

(* The ticker of run(): while the window is hidden the lines stay.         *)
Tick ==
    /\ loop = "running" /\ visible /\ HasLines
    /\ Take(Loop)
    /\ UNCHANGED <<written, shown, told, stop, loop, visible, late>>

(* Mutant: the loop ends without a final flush.                            *)
EndWithoutFlush ==
    /\ loop = "running" /\ stop /\ batch[Loop] = Nothing
    /\ loop' = "ended"
    /\ UNCHANGED <<buf, dropped, batch, written, shown, told, stop, visible, histVars>>

FinalFlush ==
    /\ loop = "running" /\ stop /\ batch[Loop] = Nothing
    /\ IF HasLines
         THEN Take(Loop) /\ loop' = "last"
         ELSE loop' = "ended" /\ UNCHANGED <<buf, dropped, batch, raced>>
    /\ UNCHANGED <<written, shown, told, stop, visible, late>>

(* flushLogStream, by a goroutine that found the stream still set.         *)
FlushLogStream(f) ==
    /\ HasLines
    /\ Take(f)
    /\ UNCHANGED <<written, shown, told, stop, loop, visible, late>>

StopStreaming ==
    /\ ~stop /\ stop' = TRUE
    /\ UNCHANGED <<buf, dropped, written, batch, shown, told, loop, visible, histVars>>

(* The window is hidden or restored; the latter brings on FlushLogStream.  *)
ToggleWindow ==
    /\ visible' = ~visible
    /\ UNCHANGED <<buf, dropped, written, batch, shown, told, stop, loop, histVars>>

Next ==
    \/ WriteMessage
    \/ Tick \/ FinalFlush
    \/ \E f \in Others : FlushLogStream(f)
    \/ \E f \in Flushers : Emit(f)
    \/ StopStreaming \/ ToggleWindow

Spec == Init /\ [][Next]_vars

(***************************************************************************)
(* Safety.                                                                 *)
(***************************************************************************)
(* What is buffered is the newest lines without a gap, and never more than *)
(* the cap: what gives way is always the oldest (WriteMessage).            *)
BufferIsTail ==
    /\ Len(buf) <= Capacity
    /\ \A i \in 1..Len(buf) : buf[i] = written - Len(buf) + i

(* What a flusher has taken: a piece for each line it will show and for    *)
(* each line it will say was dropped.                                      *)
Size(taken)  == Len(taken.lines) + taken.dropped
Pieces(held) == UNION {{f} \X (1..Size(held[f])) : f \in Flushers}

(* Every line is accounted for exactly once, however flushes overlap:      *)
(* shown, told to be dropped, or still on its way to be one of the two.    *)
EveryLineCounted ==
    /\ BufferIsTail
    /\ written = Len(shown) + told + Cardinality(Pieces(batch)) + Len(buf) + dropped

(* "So the tail of a session is not lost": once the loop has ended nothing *)
(* waits in the buffer for a flush that will not come, but for lines the   *)
(* core wrote after the final one.                                         *)
TailIsFlushed == (loop = "ended" /\ ~late) => ~HasLines

(* The window receives the lines in the order they were written, as long   *)
(* as no flush has begun before another had emitted what it took.          *)
InOrder == ~raced => \A i, j \in 1..Len(shown) : i < j => shown[i] < shown[j]

(***************************************************************************)
(* Liveness.                                                               *)
(***************************************************************************)
Fairness ==
    /\ WF_vars(Tick) /\ WF_vars(FinalFlush)
    /\ \A f \in Flushers : WF_vars(Emit(f))

FairSpec == Spec /\ Fairness

(* A line that waits is handed on, unless the window is hidden: by the     *)
(* ticker, or at the end of the session by the final flush.  Lines that    *)
(* come after that are promised nothing.                                   *)
Waiting(n) == \E i \in 1..Len(buf) : buf[i] = n
LinesMoveOn ==
    \A n \in 1..MaxLines : Waiting(n) ~> (~Waiting(n) \/ (~visible /\ ~stop) \/ late)
=============================================================================
