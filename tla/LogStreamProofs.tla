--------------------------- MODULE LogStreamProofs ---------------------------
(***************************************************************************)
(* What a log streamer keeps to, whatever the cap and however many         *)
(* goroutines flush: no line is lost or counted twice, the buffer is the   *)
(* newest lines, the tail of a session is flushed, and the window gets the *)
(* lines in order while flushes do not overlap.                            *)
(***************************************************************************)
EXTENDS LogStream, FiniteSetTheorems, SequenceTheorems, TLAPS

Batch == [lines: Seq(Nat), dropped: Nat]

(***************************************************************************)
(* Lemmas about sequences, batches and their pieces.                       *)
(***************************************************************************)
(* Nothing taken is a batch of size zero.                                  *)
LEMMA NothingIs == /\ Nothing \in Batch /\ Nothing.lines = <<>> /\ Nothing.dropped = 0
                   /\ Size(Nothing) = 0
<1>1. Nothing \in Batch
  BY EmptySeq DEF Nothing, Batch
<1>2. Nothing.lines = <<>> /\ Nothing.dropped = 0
  BY DEF Nothing
<1> QED
  BY <1>1, <1>2, EmptySeq DEF Size

(* The size of a batch is a number.                                        *)
LEMMA SizeIs == ASSUME NEW taken \in Batch PROVE Size(taken) \in Nat
BY LenProperties DEF Batch, Size

(* The new buffer after a line: what the last one is, and the others.      *)
LEMMA Appended ==
    ASSUME NEW s \in Seq(Nat), NEW n \in Nat
    PROVE  /\ Append(s, n) \in Seq(Nat) /\ Len(Append(s, n)) = Len(s) + 1
           /\ \A i \in 1..Len(s) : Append(s, n)[i] = s[i]
           /\ Append(s, n)[Len(s) + 1] = n
BY AppendProperties

(* A batch taken by a flusher that had none adds its pieces, all new.      *)
LEMMA PiecesGrow ==
    ASSUME NEW held \in [Flushers -> Batch], NEW f \in Flushers, NEW taken \in Batch,
           held[f] = Nothing, IsFiniteSet(Pieces(held))
    PROVE  /\ IsFiniteSet(Pieces([held EXCEPT ![f] = taken]))
           /\ Cardinality(Pieces([held EXCEPT ![f] = taken])) = Cardinality(Pieces(held)) + Size(taken)
<1> DEFINE after == [held EXCEPT ![f] = taken]
           new   == {f} \X (1..Size(taken))
<1>1. after[f] = taken /\ \A g \in Flushers \ {f} : after[g] = held[g]
  OBVIOUS
<1>2. {f} \X (1..Size(held[f])) = {}
  BY NothingIs
<1>3. Pieces(after) = Pieces(held) \cup new
  <2>1. ASSUME NEW x \in Pieces(after) PROVE x \in Pieces(held) \cup new
    <3>1. PICK g \in Flushers : x \in {g} \X (1..Size(after[g]))
      BY <2>1 DEF Pieces
    <3> QED
      BY <1>1, <3>1 DEF Pieces
  <2>2. ASSUME NEW x \in Pieces(held) PROVE x \in Pieces(after)
    <3>1. PICK g \in Flushers : x \in {g} \X (1..Size(held[g]))
      BY <2>2 DEF Pieces
    <3>2. g # f
      BY <1>2, <3>1
    <3> QED
      BY <1>1, <3>1, <3>2 DEF Pieces
  <2>3. ASSUME NEW x \in new PROVE x \in Pieces(after)
    <3>1. x \in {f} \X (1..Size(after[f]))
      BY <1>1, <2>3
    <3> QED
      BY <3>1 DEF Pieces
  <2> QED
    BY <2>1, <2>2, <2>3
<1>4. Pieces(held) \cap new = {}
  <2> SUFFICES ASSUME NEW x \in Pieces(held), x \in new PROVE FALSE
    OBVIOUS
  <2>1. PICK g \in Flushers : x \in {g} \X (1..Size(held[g]))
    BY DEF Pieces
  <2> QED
    BY <1>2, <2>1
<1>5. IsFiniteSet(new) /\ Cardinality(new) = Size(taken)
  <2>1. Size(taken) \in Nat
    BY SizeIs
  <2>2. IsFiniteSet(1..Size(taken)) /\ Cardinality(1..Size(taken)) = Size(taken)
    BY <2>1, FS_Interval
  <2>3. IsFiniteSet({f}) /\ Cardinality({f}) = 1
    BY FS_Singleton
  <2>4. /\ IsFiniteSet(new)
        /\ Cardinality(new) = Cardinality({f}) * Cardinality(1..Size(taken))
    <3> QED
      BY <2>2, <2>3, FS_Product
  <2> QED
    BY <2>1, <2>2, <2>3, <2>4
<1>6. IsFiniteSet({}) /\ Cardinality({}) = 0
  BY FS_EmptySet
<1>7. Cardinality(Pieces(held)) \in Nat
  BY FS_CardinalityType
<1>8. Size(taken) \in Nat
  BY SizeIs
<1>9. /\ IsFiniteSet(Pieces(held) \cup new)
      /\ Cardinality(Pieces(held) \cup new)
           = Cardinality(Pieces(held)) + Cardinality(new) - Cardinality(Pieces(held) \cap new)
  <2> HIDE DEF new
  <2> QED
    BY <1>5, FS_Union
<1>10. Cardinality(Pieces(held) \cap new) = 0
  BY <1>4, <1>6
<1>11. /\ IsFiniteSet(Pieces(after))
       /\ Cardinality(Pieces(after)) = Cardinality(Pieces(held)) + Size(taken)
  <2> HIDE DEF new, after
  <2> QED
    BY <1>3, <1>5, <1>7, <1>8, <1>9, <1>10
<1> QED
  BY <1>11

(* Letting it go takes them away again.                                    *)
LEMMA PiecesShrink ==
    ASSUME NEW held \in [Flushers -> Batch], NEW f \in Flushers, IsFiniteSet(Pieces(held))
    PROVE  /\ IsFiniteSet(Pieces([held EXCEPT ![f] = Nothing]))
           /\ Cardinality(Pieces(held))
                = Cardinality(Pieces([held EXCEPT ![f] = Nothing])) + Size(held[f])
<1> DEFINE after == [held EXCEPT ![f] = Nothing]
<1>1. /\ after \in [Flushers -> Batch] /\ after[f] = Nothing
      /\ held = [after EXCEPT ![f] = held[f]] /\ held[f] \in Batch
  BY NothingIs
<1>2. Pieces(after) \subseteq Pieces(held)
  <2> SUFFICES ASSUME NEW x \in Pieces(after) PROVE x \in Pieces(held)
    OBVIOUS
  <2>1. PICK g \in Flushers : x \in {g} \X (1..Size(after[g]))
    BY DEF Pieces
  <2>2. g # f
    BY <1>1, <2>1, NothingIs
  <2> QED
    BY <2>1, <2>2 DEF Pieces
<1>3. IsFiniteSet(Pieces(after))
  BY <1>2, FS_Subset
<1>4. Cardinality(Pieces([after EXCEPT ![f] = held[f]])) = Cardinality(Pieces(after)) + Size(held[f])
  <2> HIDE DEF after
  <2> QED
    BY <1>1, <1>3, PiecesGrow
<1> QED
  BY <1>1, <1>3, <1>4

(***************************************************************************)
(* Type correctness.                                                       *)
(***************************************************************************)
(* What flush does under the mutex.                                        *)
LEMMA TakeType ==
    ASSUME TypeOK, NEW f \in Flushers, Take(f)
    PROVE  /\ buf' \in Seq(Nat) /\ dropped' \in Nat /\ raced' \in BOOLEAN
           /\ batch' \in [Flushers -> Batch]
BY EmptySeq DEF TypeOK, Take, Batch

(* Every variable keeps its type.                                          *)
LEMMA TypeStep == ASSUME TypeOK, [Next]_vars PROVE TypeOK'
<1>0. /\ batch \in [Flushers -> Batch] /\ MaxLines \in Nat /\ Capacity \in Nat \ {0}
      /\ Loop \in Flushers /\ Others \subseteq Flushers
  BY LogStreamAssumption DEF TypeOK, Batch, Flushers
<1>1. CASE WriteMessage
  <2>1. written \in Nat /\ written < MaxLines /\ written' = written + 1
    BY <1>0, <1>1 DEF WriteMessage, TypeOK
  <2>2. written' \in 0..MaxLines /\ written' \in Nat
    BY <1>0, <2>1
  <2>3. buf' \in Seq(Nat) /\ dropped' \in Nat
    <3>1. CASE Len(buf) >= Capacity
      <4>1. buf # <<>>
        BY <1>0, <3>1, EmptySeq DEF TypeOK
      <4>2. Tail(buf) \in Seq(Nat)
        BY <4>1, HeadTailProperties DEF TypeOK
      <4>3. buf' = Append(Tail(buf), written') /\ dropped' = dropped + 1
        BY <1>1, <3>1 DEF WriteMessage
      <4> QED
        BY <2>2, <4>2, <4>3, Appended DEF TypeOK
    <3>2. CASE ~(Len(buf) >= Capacity)
      <4>1. buf' = Append(buf, written') /\ dropped' = dropped
        BY <1>1, <3>2 DEF WriteMessage
      <4> QED
        BY <2>2, <4>1, Appended DEF TypeOK
    <3> QED
      BY <3>1, <3>2
  <2> QED
    BY <1>1, <2>2, <2>3 DEF WriteMessage, TypeOK
<1>2. CASE Tick
  BY <1>0, <1>2, TakeType DEF Tick, TypeOK, Batch
<1>3. CASE FinalFlush
  BY <1>0, <1>3, TakeType DEF FinalFlush, TypeOK, Batch
<1>4. ASSUME NEW f \in Others, FlushLogStream(f) PROVE TypeOK'
  BY <1>0, <1>4, TakeType DEF FlushLogStream, TypeOK, Batch
<1>5. ASSUME NEW f \in Flushers, Emit(f) PROVE TypeOK'
  <2>1. batch[f] \in Batch /\ batch[f].lines \in Seq(Nat) /\ batch[f].dropped \in Nat
    BY <1>0 DEF Batch
  <2>2. shown' \in Seq(Nat)
    BY <1>5, <2>1, ConcatProperties DEF Emit, TypeOK
  <2>3. told' \in Nat
    BY <1>5, <2>1 DEF Emit, TypeOK
  <2>4. batch' \in [Flushers -> Batch]
    BY <1>0, <1>5, NothingIs DEF Emit
  <2> QED
    BY <1>5, <2>2, <2>3, <2>4 DEF Emit, TypeOK, Batch, histVars
<1>6. CASE StopStreaming \/ ToggleWindow \/ UNCHANGED vars
  BY <1>6 DEF StopStreaming, ToggleWindow, TypeOK, vars, histVars
<1> QED
  BY <1>1, <1>2, <1>3, <1>4, <1>5, <1>6 DEF Next

(* Every variable keeps its type.                                          *)
THEOREM TypeCorrect == Spec => []TypeOK
<1>1. Init => TypeOK
  <2> SUFFICES ASSUME Init PROVE TypeOK
    OBVIOUS
  <2>1. buf \in Seq(Nat) /\ shown \in Seq(Nat)
    BY EmptySeq DEF Init
  <2>2. batch \in [Flushers -> [lines: Seq(Nat), dropped: Nat]]
    BY NothingIs DEF Init, Batch
  <2>3. written \in 0..MaxLines
    BY LogStreamAssumption DEF Init
  <2> QED
    BY <2>1, <2>2, <2>3 DEF Init, TypeOK
<1> QED
  BY <1>1, TypeStep, PTL DEF Spec

(***************************************************************************)
(* Every line is counted once.                                             *)
(***************************************************************************)
(* As the count is checked, and that it is a count of finitely many.       *)
Counted == EveryLineCounted /\ IsFiniteSet(Pieces(batch))

(* The step under the mutex: what leaves the buffer is what the batch has. *)
LEMMA TakeCounts ==
    ASSUME TypeOK, Counted, NEW f \in Flushers, Take(f), UNCHANGED <<written, shown, told>>
    PROVE  Counted'
<1> DEFINE taken == [lines |-> buf, dropped |-> dropped]
<1>1. /\ batch \in [Flushers -> Batch] /\ taken \in Batch /\ Size(taken) = Len(buf) + dropped
      /\ Len(buf) \in Nat /\ dropped \in Nat
  BY LenProperties DEF TypeOK, Batch, Size
<1>2. /\ IsFiniteSet(Pieces(batch'))
      /\ Cardinality(Pieces(batch')) = Cardinality(Pieces(batch)) + Len(buf) + dropped
  <2>1. batch[f] = Nothing /\ batch' = [batch EXCEPT ![f] = taken] /\ IsFiniteSet(Pieces(batch))
    BY DEF Take, Counted
  <2>2. Cardinality(Pieces(batch)) \in Nat
    BY <2>1, FS_CardinalityType
  <2>3. /\ IsFiniteSet(Pieces(batch'))
        /\ Cardinality(Pieces(batch')) = Cardinality(Pieces(batch)) + Size(taken)
    <3> HIDE DEF taken
    <3> QED
      BY <1>1, <2>1, PiecesGrow
  <2> QED
    BY <1>1, <2>2, <2>3
<1>3. buf' = <<>> /\ Len(buf') = 0 /\ dropped' = 0
  BY EmptySeq DEF Take
<1>4. BufferIsTail'
  BY <1>3, LogStreamAssumption DEF BufferIsTail
<1>5. Cardinality(Pieces(batch)) \in Nat /\ Len(shown) \in Nat /\ told \in Nat
  BY FS_CardinalityType, LenProperties DEF Counted, TypeOK
<1>6. written' = Len(shown') + told' + Cardinality(Pieces(batch')) + Len(buf') + dropped'
  BY <1>1, <1>2, <1>3, <1>5 DEF Counted, EveryLineCounted
<1> QED
  BY <1>2, <1>4, <1>6 DEF Counted, EveryLineCounted

(* Emitting moves them on.                                                 *)
LEMMA EmitCounts == ASSUME TypeOK, Counted, NEW f \in Flushers, Emit(f) PROVE Counted'
<1>1. /\ batch \in [Flushers -> Batch] /\ batch[f].lines \in Seq(Nat) /\ batch[f].dropped \in Nat
      /\ Size(batch[f]) = Len(batch[f].lines) + batch[f].dropped /\ Len(batch[f].lines) \in Nat
  BY LenProperties DEF TypeOK, Batch, Size
<1>2. /\ IsFiniteSet(Pieces(batch'))
      /\ Cardinality(Pieces(batch)) = Cardinality(Pieces(batch')) + Size(batch[f])
  BY <1>1, PiecesShrink DEF Emit, Counted
<1>3. Len(shown') = Len(shown) + Len(batch[f].lines) /\ told' = told + batch[f].dropped
  BY <1>1, ConcatProperties DEF Emit, TypeOK
<1>4. buf' = buf /\ dropped' = dropped /\ written' = written /\ written \in Nat
  BY LogStreamAssumption DEF Emit, TypeOK
<1>5. /\ Cardinality(Pieces(batch)) \in Nat /\ Cardinality(Pieces(batch')) \in Nat
      /\ Len(shown) \in Nat /\ told \in Nat /\ Len(buf) \in Nat /\ dropped \in Nat
  BY <1>2, FS_CardinalityType, LenProperties DEF Counted, TypeOK
<1>6. written = Len(shown) + told + Cardinality(Pieces(batch)) + Len(buf) + dropped
  BY DEF Counted, EveryLineCounted
<1>7. written' = Len(shown') + told' + Cardinality(Pieces(batch')) + Len(buf') + dropped'
  <2>1. written' = written /\ Len(buf') = Len(buf) /\ dropped' = dropped
    BY <1>4
  <2>2. Cardinality(Pieces(batch))
          = Cardinality(Pieces(batch')) + (Len(batch[f].lines) + batch[f].dropped)
    BY <1>1, <1>2
  <2>3. Len(batch[f].lines) \in Nat /\ batch[f].dropped \in Nat
    BY <1>1
  <2>4. written = (Len(shown) + Len(batch[f].lines)) + (told + batch[f].dropped)
                    + Cardinality(Pieces(batch')) + Len(buf) + dropped
    <3>1. PICK rest \in Nat : rest = Cardinality(Pieces(batch'))
      BY <1>5
    <3>2. PICK all \in Nat : all = Cardinality(Pieces(batch))
      BY <1>5
    <3>3. PICK l \in Nat : l = Len(batch[f].lines)
      BY <2>3
    <3>4. PICK n \in Nat : n = batch[f].dropped
      BY <2>3
    <3>5. PICK s \in Nat : s = Len(shown)
      BY <1>5
    <3>6. PICK b \in Nat : b = Len(buf)
      BY <1>5
    <3>7. all = rest + (l + n)
      BY <2>2, <3>1, <3>2, <3>3, <3>4
    <3>8. written = s + told + all + b + dropped
      BY <1>6, <3>2, <3>5, <3>6
    <3>9. written = (s + l) + (told + n) + rest + b + dropped
      BY <1>4, <1>5, <3>7, <3>8
    <3> QED
      BY <3>1, <3>3, <3>4, <3>5, <3>6, <3>9
  <2> QED
    BY <1>3, <1>4, <2>1, <2>4
<1> QED
  BY <1>2, <1>4, <1>7 DEF Counted, EveryLineCounted, BufferIsTail

(* A new line is one more, and makes room for itself at the old end.       *)
LEMMA WriteCounts == ASSUME TypeOK, Counted, WriteMessage PROVE Counted'
<1>1. /\ written \in Nat /\ written' = written + 1 /\ UNCHANGED <<batch, shown, told>>
      /\ buf \in Seq(Nat) /\ Len(buf) \in Nat /\ dropped \in Nat /\ Capacity \in Nat \ {0}
      /\ Len(buf) <= Capacity /\ \A i \in 1..Len(buf) : buf[i] = written - Len(buf) + i
  BY LenProperties, LogStreamAssumption
     DEF WriteMessage, TypeOK, Counted, EveryLineCounted, BufferIsTail
<1>2. /\ Cardinality(Pieces(batch)) \in Nat /\ Len(shown) \in Nat /\ told \in Nat
      /\ written = Len(shown) + told + Cardinality(Pieces(batch)) + Len(buf) + dropped
  BY FS_CardinalityType, LenProperties DEF Counted, EveryLineCounted, TypeOK
<1>3. CASE Len(buf) >= Capacity
  <2>1. buf' = Append(Tail(buf), written') /\ dropped' = dropped + 1
    BY <1>3 DEF WriteMessage
  <2>2. buf # <<>>
    BY <1>1, <1>3, EmptySeq
  <2>3. /\ Tail(buf) \in Seq(Nat) /\ Len(Tail(buf)) = Len(buf) - 1
        /\ \A i \in 1..Len(Tail(buf)) : Tail(buf)[i] = buf[i + 1]
    BY <1>1, <2>2, HeadTailProperties
  <2>4. /\ Len(buf') = Len(buf)
        /\ \A i \in 1..(Len(buf) - 1) : buf'[i] = buf[i + 1]
        /\ buf'[Len(buf)] = written + 1
    BY <1>1, <1>3, <2>1, <2>3, Appended
  <2>5. \A i \in 1..Len(buf') : buf'[i] = written' - Len(buf') + i
    <3> SUFFICES ASSUME NEW i \in 1..Len(buf) PROVE buf'[i] = (written + 1) - Len(buf) + i
      BY <1>1, <2>4
    <3>1. CASE i = Len(buf)
      BY <1>1, <2>4, <3>1
    <3>2. CASE i # Len(buf)
      <4>1. i \in 1..(Len(buf) - 1) /\ i + 1 \in 1..Len(buf)
        BY <1>1, <3>2
      <4>2. buf'[i] = buf[i + 1] /\ buf[i + 1] = written - Len(buf) + (i + 1)
        BY <1>1, <2>4, <4>1
      <4> QED
        BY <1>1, <4>2
    <3> QED
      BY <3>1, <3>2
  <2>6. Len(buf') <= Capacity
    BY <1>1, <2>4
  <2>7. written' = Len(shown') + told' + Cardinality(Pieces(batch')) + Len(buf') + dropped'
    <3>1. Len(shown') = Len(shown) /\ told' = told /\ Cardinality(Pieces(batch')) = Cardinality(Pieces(batch))
      BY <1>1
    <3>2. Len(buf') = Len(buf) /\ dropped' = dropped + 1 /\ written' = written + 1
      BY <1>1, <2>1, <2>4
    <3>3. Len(buf) \in Nat /\ dropped \in Nat
      BY <1>1
    <3> QED
      BY <1>2, <3>1, <3>2, <3>3
  <2> QED
    BY <1>1, <2>5, <2>6, <2>7 DEF Counted, EveryLineCounted, BufferIsTail
<1>4. CASE ~(Len(buf) >= Capacity)
  <2>1. buf' = Append(buf, written') /\ dropped' = dropped
    BY <1>4 DEF WriteMessage
  <2>2. /\ Len(buf') = Len(buf) + 1
        /\ \A i \in 1..Len(buf) : buf'[i] = buf[i]
        /\ buf'[Len(buf) + 1] = written + 1
    BY <1>1, <2>1, Appended
  <2>3. \A i \in 1..Len(buf') : buf'[i] = written' - Len(buf') + i
    <3> SUFFICES ASSUME NEW i \in 1..(Len(buf) + 1)
                 PROVE  buf'[i] = (written + 1) - (Len(buf) + 1) + i
      BY <1>1, <2>2
    <3>1. CASE i = Len(buf) + 1
      BY <1>1, <2>2, <3>1
    <3>2. CASE i # Len(buf) + 1
      <4>1. i \in 1..Len(buf)
        BY <1>1, <3>2
      <4>2. buf'[i] = buf[i] /\ buf[i] = written - Len(buf) + i
        BY <1>1, <2>2, <4>1
      <4> QED
        BY <1>1, <4>2
    <3> QED
      BY <3>1, <3>2
  <2>4. Len(buf') <= Capacity
    BY <1>1, <1>4, <2>2
  <2>5. written' = Len(shown') + told' + Cardinality(Pieces(batch')) + Len(buf') + dropped'
    BY <1>1, <1>2, <2>1, <2>2
  <2> QED
    BY <1>1, <2>3, <2>4, <2>5 DEF Counted, EveryLineCounted, BufferIsTail
<1> QED
  BY <1>3, <1>4

(* Every line the core writes is shown, said to be dropped, in the buffer  *)
(* or in exactly one batch, however many flushes are under way, and the    *)
(* buffer holds the newest ones.                                           *)
THEOREM CountCorrect == Spec => []EveryLineCounted
<1>1. Init => Counted
  <2> SUFFICES ASSUME Init PROVE Counted
    OBVIOUS
  <2>1. Pieces(batch) = {}
    BY NothingIs DEF Init, Pieces
  <2>2. IsFiniteSet(Pieces(batch)) /\ Cardinality(Pieces(batch)) = 0
    BY <2>1, FS_EmptySet
  <2>3. Len(buf) = 0 /\ Len(shown) = 0
    BY EmptySeq DEF Init
  <2> QED
    BY <2>2, <2>3, LogStreamAssumption DEF Init, Counted, EveryLineCounted, BufferIsTail
<1>2. ASSUME TypeOK, Counted, [Next]_vars PROVE Counted'
  <2>0. Loop \in Flushers /\ Others \subseteq Flushers
    BY DEF Flushers
  <2>1. CASE WriteMessage
    BY <1>2, <2>1, WriteCounts
  <2>2. CASE Tick \/ (FinalFlush /\ HasLines)
    BY <1>2, <2>0, <2>2, TakeCounts DEF Tick, FinalFlush
  <2>3. ASSUME NEW f \in Others, FlushLogStream(f) PROVE Counted'
    BY <1>2, <2>0, <2>3, TakeCounts DEF FlushLogStream
  <2>4. ASSUME NEW f \in Flushers, Emit(f) PROVE Counted'
    BY <1>2, <2>4, EmitCounts
  <2>5. CASE (FinalFlush /\ ~HasLines) \/ StopStreaming \/ ToggleWindow \/ UNCHANGED vars
    BY <1>2, <2>5 DEF FinalFlush, StopStreaming, ToggleWindow, vars, Counted, EveryLineCounted,
       BufferIsTail
  <2> QED
    BY <1>2, <2>1, <2>2, <2>3, <2>4, <2>5 DEF Next
<1>3. Counted => EveryLineCounted
  BY DEF Counted
<1> QED
  BY <1>1, <1>2, <1>3, TypeCorrect, PTL DEF Spec

(***************************************************************************)
(* The tail of a session.                                                  *)
(***************************************************************************)
(* From its final flush on, and not just when it has ended, the loop has   *)
(* left nothing behind but what the core writes later.                     *)
Flushed == (loop \in {"last", "ended"} /\ ~late) => ~HasLines

(* A flush leaves nothing to flush.                                        *)
LEMMA TakeEmpties == ASSUME NEW f \in Flushers, Take(f) PROVE ~HasLines'
BY DEF Take, HasLines

(* Once the loop has ended nothing is left in the buffer, but for lines    *)
(* written after its final flush.                                          *)
THEOREM TailCorrect == Spec => []TailIsFlushed
<1>1. Init => Flushed
  BY DEF Init, Flushed
<1>2. ASSUME TypeOK, Flushed, [Next]_vars PROVE Flushed'
  <2>0. Loop \in Flushers /\ Others \subseteq Flushers
    BY DEF Flushers
  <2>1. CASE WriteMessage
    BY <1>2, <2>1 DEF WriteMessage, TypeOK, Flushed
  <2>2. CASE Tick
    BY <2>0, <2>2, TakeEmpties DEF Tick, Flushed
  <2>3. CASE FinalFlush
    <3>1. CASE HasLines
      BY <2>0, <2>3, <3>1, TakeEmpties DEF FinalFlush, Flushed
    <3>2. CASE ~HasLines
      BY <2>3, <3>2 DEF FinalFlush, Flushed, HasLines
    <3> QED
      BY <3>1, <3>2
  <2>4. ASSUME NEW f \in Others, FlushLogStream(f) PROVE Flushed'
    BY <2>0, <2>4, TakeEmpties DEF FlushLogStream, Flushed
  <2>5. ASSUME NEW f \in Flushers, Emit(f) PROVE Flushed'
    BY <1>2, <2>5 DEF Emit, Flushed, HasLines, histVars, TypeOK
  <2>6. CASE StopStreaming \/ ToggleWindow \/ UNCHANGED vars
    BY <1>2, <2>6 DEF StopStreaming, ToggleWindow, vars, histVars, Flushed, HasLines
  <2> QED
    BY <1>2, <2>1, <2>2, <2>3, <2>4, <2>5, <2>6 DEF Next
<1>3. Flushed => TailIsFlushed
  BY DEF Flushed, TailIsFlushed
<1> QED
  BY <1>1, <1>2, <1>3, TypeCorrect, PTL DEF Spec

(***************************************************************************)
(* The order the window receives the lines in.                             *)
(***************************************************************************)
(* Lines in the order they were written, all within a range of numbers.    *)
Ascends(s) == \A i, j \in 1..Len(s) : i < j => s[i] < s[j]
Within(s, least, most) == \A i \in 1..Len(s) : least <= s[i] /\ s[i] <= most

(* While flushes have not overlapped: at most one batch is on its way, the *)
(* lines it has follow those the window received, and those the buffer has *)
(* follow both.                                                            *)
Alone == \A f, g \in Taken : f = g
Queued ==
    /\ Ascends(shown) /\ Within(shown, 0, written - Len(buf))
    /\ \A f \in Flushers :
         /\ Ascends(batch[f].lines) /\ Within(batch[f].lines, 0, written - Len(buf))
         /\ \A i \in 1..Len(shown), j \in 1..Len(batch[f].lines) : shown[i] < batch[f].lines[j]
OrderInv == (Len(buf) <= written) /\ (~raced => Alone /\ Queued)

(* Two runs of lines, the second after the first, are one.                 *)
LEMMA Joined ==
    ASSUME NEW s \in Seq(Nat), NEW t \in Seq(Nat), NEW least \in Int, NEW most \in Int,
           Ascends(s), Ascends(t), Within(s, least, most), Within(t, least, most),
           \A i \in 1..Len(s), j \in 1..Len(t) : s[i] < t[j]
    PROVE  Ascends(s \o t) /\ Within(s \o t, least, most)
<1>1. /\ s \o t \in Seq(Nat) /\ Len(s \o t) = Len(s) + Len(t) /\ Len(s) \in Nat /\ Len(t) \in Nat
      /\ \A i \in 1..(Len(s) + Len(t)) :
           (s \o t)[i] = IF i <= Len(s) THEN s[i] ELSE t[i - Len(s)]
  BY ConcatProperties, LenProperties
<1>2. \A i \in 1..(Len(s) + Len(t)) : i \in 1..Len(s) \/ (~(i <= Len(s)) /\ i - Len(s) \in 1..Len(t))
  BY <1>1
<1>3. \A i \in 1..Len(s) : s[i] \in Nat
  BY ElementOfSeq
<1>4. \A i \in 1..Len(t) : t[i] \in Nat
  BY ElementOfSeq
<1>5. ASSUME NEW i \in 1..Len(s \o t), NEW j \in 1..Len(s \o t), i < j
      PROVE  (s \o t)[i] < (s \o t)[j]
  <2>0. i \in 1..(Len(s) + Len(t)) /\ j \in 1..(Len(s) + Len(t))
    BY <1>1
  <2>1. CASE i \in 1..Len(s) /\ j \in 1..Len(s)
    <3>1. (s \o t)[i] = s[i] /\ (s \o t)[j] = s[j]
      BY <1>1, <2>0, <2>1
    <3> QED
      BY <1>5, <2>1, <3>1 DEF Ascends
  <2>2. CASE i \in 1..Len(s) /\ ~(j <= Len(s))
    <3>1. (s \o t)[i] = s[i] /\ (s \o t)[j] = t[j - Len(s)] /\ j - Len(s) \in 1..Len(t)
      BY <1>1, <1>2, <2>0, <2>2
    <3> QED
      BY <2>2, <3>1
  <2>3. CASE ~(i <= Len(s))
    <3>1. ~(j <= Len(s))
      BY <1>1, <1>5, <2>0, <2>3
    <3>2. /\ (s \o t)[i] = t[i - Len(s)] /\ (s \o t)[j] = t[j - Len(s)]
          /\ i - Len(s) \in 1..Len(t) /\ j - Len(s) \in 1..Len(t)
      BY <1>1, <1>2, <2>0, <2>3, <3>1
    <3>3. i - Len(s) < j - Len(s)
      BY <1>1, <1>5, <2>0
    <3> QED
      BY <3>2, <3>3 DEF Ascends
  <2> QED
    BY <1>1, <1>2, <2>0, <2>1, <2>2, <2>3
<1>6. ASSUME NEW i \in 1..Len(s \o t) PROVE least <= (s \o t)[i] /\ (s \o t)[i] <= most
  <2>0. i \in 1..(Len(s) + Len(t))
    BY <1>1
  <2>1. CASE i \in 1..Len(s)
    <3>1. (s \o t)[i] = s[i]
      BY <1>1, <2>0, <2>1
    <3> QED
      BY <2>1, <3>1 DEF Within
  <2>2. CASE ~(i <= Len(s))
    <3>1. (s \o t)[i] = t[i - Len(s)] /\ i - Len(s) \in 1..Len(t)
      BY <1>1, <1>2, <2>0, <2>2
    <3> QED
      BY <3>1 DEF Within
  <2> QED
    BY <1>1, <1>2, <2>0, <2>1, <2>2
<1> QED
  BY <1>5, <1>6 DEF Ascends, Within

(* A line that comes or drops the oldest does not disturb the queue.       *)
LEMMA WriteQueues == ASSUME TypeOK, BufferIsTail, OrderInv, WriteMessage PROVE OrderInv'
<1>1. /\ written \in Nat /\ written' = written + 1 /\ UNCHANGED <<batch, shown, raced>>
      /\ buf \in Seq(Nat) /\ Len(buf) \in Nat /\ Capacity \in Nat \ {0} /\ Len(buf) <= written
  BY LenProperties, LogStreamAssumption DEF WriteMessage, TypeOK, OrderInv
<1>2. Len(buf') \in Nat /\ Len(buf') <= written' /\ written - Len(buf) <= written' - Len(buf')
  <2>1. CASE Len(buf) >= Capacity
    <3>1. buf' = Append(Tail(buf), written') /\ buf # <<>>
      BY <1>1, <2>1, EmptySeq DEF WriteMessage
    <3>2. Tail(buf) \in Seq(Nat) /\ Len(Tail(buf)) = Len(buf) - 1
      BY <1>1, <3>1, HeadTailProperties
    <3>3. Len(buf') = Len(buf)
      BY <1>1, <3>1, <3>2, Appended
    <3> QED
      BY <1>1, <3>3
  <2>2. CASE ~(Len(buf) >= Capacity)
    <3>1. Len(buf') = Len(buf) + 1
      BY <1>1, <2>2, Appended DEF WriteMessage
    <3> QED
      BY <1>1, <3>1
  <2> QED
    BY <2>1, <2>2
<1>3. ASSUME NEW s \in Seq(Nat), Within(s, 0, written - Len(buf))
      PROVE  Within(s, 0, written' - Len(buf'))
  BY <1>1, <1>2, <1>3, ElementOfSeq DEF Within
<1>4. shown \in Seq(Nat) /\ \A f \in Flushers : batch[f].lines \in Seq(Nat)
  BY DEF TypeOK
<1>5. ASSUME ~raced' PROVE Alone' /\ Queued'
  BY <1>1, <1>3, <1>4, <1>5 DEF OrderInv, Alone, Taken, Queued
<1> QED
  BY <1>2, <1>5 DEF OrderInv

(* A batch taken alone is the next to be shown.                            *)
LEMMA TakeQueues ==
    ASSUME TypeOK, BufferIsTail, OrderInv, NEW f \in Flushers, Take(f), UNCHANGED <<written, shown>>
    PROVE  OrderInv'
<1>1. /\ written \in Nat /\ buf \in Seq(Nat) /\ Len(buf) \in Nat /\ Len(buf) <= written
      /\ \A i \in 1..Len(buf) : buf[i] = written - Len(buf) + i
      /\ batch \in [Flushers -> Batch] /\ shown \in Seq(Nat)
  BY LenProperties, LogStreamAssumption DEF TypeOK, OrderInv, BufferIsTail, Batch
<1>2. buf' = <<>> /\ Len(buf') = 0 /\ written' = written /\ shown' = shown
  BY EmptySeq DEF Take
<1>3. ASSUME ~raced' PROVE Alone' /\ Queued'
  <2>1. ~raced /\ Taken = {}
    BY <1>3 DEF Take
  <2>2. /\ batch'[f].lines = buf
        /\ \A g \in Flushers \ {f} : batch'[g] = Nothing
    BY <1>1, <2>1 DEF Take, Taken
  <2>3. Alone'
    BY <2>2 DEF Alone, Taken
  <2>4. Ascends(shown') /\ Within(shown', 0, written' - Len(buf'))
    <3>1. Ascends(shown) /\ Within(shown, 0, written - Len(buf))
      BY <2>1 DEF OrderInv, Queued
    <3> QED
      BY <1>1, <1>2, <3>1, ElementOfSeq DEF Within
  <2>5. Ascends(buf) /\ Within(buf, 0, written) 
    BY <1>1 DEF Ascends, Within
  <2>6. ASSUME NEW i \in 1..Len(shown), NEW j \in 1..Len(buf) PROVE shown[i] < buf[j]
    <3>1. shown[i] <= written - Len(buf) /\ shown[i] \in Nat
      BY <1>1, <2>1, <2>6, ElementOfSeq DEF OrderInv, Queued, Within
    <3> QED
      BY <1>1, <2>6, <3>1
  <2>7. ASSUME NEW g \in Flushers
        PROVE  /\ Ascends(batch'[g].lines) /\ Within(batch'[g].lines, 0, written' - Len(buf'))
               /\ \A i \in 1..Len(shown'), j \in 1..Len(batch'[g].lines) :
                    shown'[i] < batch'[g].lines[j]
    <3>1. CASE g = f
      <4>1. written' - Len(buf') = written
        BY <1>1, <1>2
      <4> QED
        BY <1>2, <2>2, <2>5, <2>6, <3>1, <4>1
    <3>2. CASE g # f
      <4>1. batch'[g].lines = <<>> /\ 1..Len(batch'[g].lines) = {}
        BY <2>2, <3>2, NothingIs, EmptySeq
      <4> QED
        BY <4>1 DEF Ascends, Within
    <3> QED
      BY <3>1, <3>2
  <2> QED
    BY <2>3, <2>4, <2>7 DEF Queued
<1> QED
  BY <1>1, <1>2, <1>3 DEF OrderInv

(* Emitting it puts it after what was shown before.                        *)
LEMMA EmitQueues == ASSUME TypeOK, OrderInv, NEW f \in Flushers, Emit(f) PROVE OrderInv'
<1>1. /\ batch \in [Flushers -> Batch] /\ batch[f].lines \in Seq(Nat) /\ shown \in Seq(Nat)
      /\ written - Len(buf) \in Int /\ Len(buf) <= written
  BY LenProperties, LogStreamAssumption DEF TypeOK, OrderInv, Batch
<1>2. buf' = buf /\ written' = written /\ raced' = raced /\ shown' = shown \o batch[f].lines
  BY DEF Emit, histVars
<1>3. ASSUME ~raced PROVE Alone' /\ Queued'
  <2>1. batch'[f] = Nothing /\ \A g \in Flushers \ {f} : batch'[g] = batch[g]
    BY <1>1 DEF Emit
  <2>2. \A g \in Flushers : batch'[g] = Nothing
    BY <1>3, <2>1 DEF Emit, OrderInv, Alone, Taken
  <2>3. Ascends(shown') /\ Within(shown', 0, written' - Len(buf'))
    <3>1. /\ Ascends(shown) /\ Ascends(batch[f].lines)
          /\ Within(shown, 0, written - Len(buf)) /\ Within(batch[f].lines, 0, written - Len(buf))
          /\ \A i \in 1..Len(shown), j \in 1..Len(batch[f].lines) : shown[i] < batch[f].lines[j]
      BY <1>3 DEF OrderInv, Queued
    <3>2. Ascends(shown \o batch[f].lines) /\ Within(shown \o batch[f].lines, 0, written - Len(buf))
      <4>1. 0 \in Int
        OBVIOUS
      <4> QED
        BY <1>1, <3>1, <4>1, Joined
    <3>3. shown' = shown \o batch[f].lines /\ written' - Len(buf') = written - Len(buf)
      BY <1>2
    <3> QED
      BY <3>2, <3>3
  <2>4. \A g \in Flushers : batch'[g].lines = <<>> /\ 1..Len(batch'[g].lines) = {}
    BY <2>2, NothingIs, EmptySeq
  <2>5. \A g \in Flushers :
          /\ Ascends(batch'[g].lines) /\ Within(batch'[g].lines, 0, written' - Len(buf'))
          /\ \A i \in 1..Len(shown'), j \in 1..Len(batch'[g].lines) : shown'[i] < batch'[g].lines[j]
    BY <2>4 DEF Ascends, Within
  <2> QED
    BY <2>2, <2>3, <2>5 DEF Alone, Taken, Queued
<1> QED
  BY <1>1, <1>2, <1>3 DEF OrderInv

(* The window receives the lines in the order they were written, for as    *)
(* long as no flush took a batch while another had not emitted its own.    *)
THEOREM OrderCorrect == Spec => []InOrder
<1>1. Init => OrderInv
  <2> SUFFICES ASSUME Init PROVE OrderInv
    OBVIOUS
  <2>1. buf = <<>> /\ Len(buf) = 0 /\ written = 0 /\ 1..Len(shown) = {}
    BY EmptySeq DEF Init
  <2>2. \A f \in Flushers : batch[f] = Nothing /\ 1..Len(batch[f].lines) = {}
    BY NothingIs, EmptySeq DEF Init
  <2> QED
    BY <2>1, <2>2 DEF OrderInv, Alone, Taken, Queued, Ascends, Within
<1>2. ASSUME TypeOK, EveryLineCounted, OrderInv, [Next]_vars PROVE OrderInv'
  <2>0. Loop \in Flushers /\ Others \subseteq Flushers /\ BufferIsTail
    BY <1>2 DEF Flushers, EveryLineCounted
  <2>1. CASE WriteMessage
    BY <1>2, <2>0, <2>1, WriteQueues
  <2>2. CASE Tick \/ (FinalFlush /\ HasLines)
    BY <1>2, <2>0, <2>2, TakeQueues DEF Tick, FinalFlush
  <2>3. ASSUME NEW f \in Others, FlushLogStream(f) PROVE OrderInv'
    BY <1>2, <2>0, <2>3, TakeQueues DEF FlushLogStream
  <2>4. ASSUME NEW f \in Flushers, Emit(f) PROVE OrderInv'
    BY <1>2, <2>4, EmitQueues
  <2>5. CASE (FinalFlush /\ ~HasLines) \/ StopStreaming \/ ToggleWindow \/ UNCHANGED vars
    BY <1>2, <2>5 DEF FinalFlush, StopStreaming, ToggleWindow, vars, histVars,
                      OrderInv, Alone, Taken, Queued
  <2> QED
    BY <1>2, <2>1, <2>2, <2>3, <2>4, <2>5 DEF Next
<1>3. OrderInv => InOrder
  BY DEF OrderInv, Queued, Ascends, InOrder
<1> QED
  BY <1>1, <1>2, <1>3, TypeCorrect, CountCorrect, PTL DEF Spec
==============================================================================
