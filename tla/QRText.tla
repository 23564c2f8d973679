------------------------------- MODULE QRText -------------------------------
(***************************************************************************)
(* What the window's QR reader makes of a symbol's data bytes (jsQR.js,    *)
(* modules 6 and 7), and the whole way from the matrix to the text         *)
(* (decodeMatrix, decode).  Only TLC evaluates this module.                *)
(*                                                                         *)
(* A text is a sequence of character codes.  The table that turns Shift    *)
(* JIS codes into characters is left out: a kanji is its code.             *)
(***************************************************************************)
EXTENDS QRSymbol

(* BitStream: the bits of the bytes, and the place of the next one.        *)
BitAt(data, k) == (data[((k - 1) \div 8) + 1] \div 2^(7 - ((k - 1) % 8))) % 2 = 1
available(data, k) == 8 * Len(data) - (k - 1)
readBits(data, k, n) == Number([i \in 1..n |-> BitAt(data, k + i - 1)], 0)

(***************************************************************************)
(* A segment is read as groups of characters: how many bits a group of n   *)
(* characters has, what may stand in it, and the characters it holds.      *)
(***************************************************************************)
Modes == [numeric |-> 1, alphanumeric |-> 2, byte |-> 4, kanji |-> 8, eci |-> 7]
AlphanumericCharacterCodes ==
    [i \in 0..44 |-> IF i < 10 THEN 48 + i ELSE IF i < 36 THEN 55 + i
                     ELSE <<32, 36, 37, 42, 43, 45, 46, 47, 58>>[i - 35]]
characterCountSize(mode, size) ==
    CASE mode = Modes.numeric -> <<10, 12, 14>>[size]
      [] mode = Modes.alphanumeric -> <<9, 11, 13>>[size]
      [] mode = Modes.byte -> <<8, 16, 16>>[size]
      [] mode = Modes.kanji -> <<8, 10, 12>>[size]
GroupOf(mode, length) ==
    LET whole == CASE mode = Modes.numeric -> 3 [] mode = Modes.alphanumeric -> 2 [] OTHER -> 1
    IN IF length < whole THEN length ELSE whole
BitsOf(mode, n) ==
    CASE mode = Modes.numeric -> <<4, 7, 10>>[n]
      [] mode = Modes.alphanumeric -> <<6, 11>>[n]
      [] mode = Modes.byte -> 8
      [] mode = Modes.kanji -> 13
InRange(mode, n, value) ==
    CASE mode = Modes.numeric -> value < 10^n
      [] mode = Modes.alphanumeric -> value < 45^n
      [] OTHER -> TRUE
ShiftJIS(k) ==
    LET c == 256 * (k \div 192) + (k % 192) IN IF c < 7936 THEN c + 33088 ELSE c + 49472
Characters(mode, n, value) ==
    CASE mode = Modes.numeric -> [i \in 1..n |-> 48 + ((value \div 10^(n - i)) % 10)]
      [] mode = Modes.alphanumeric ->
           [i \in 1..n |-> AlphanumericCharacterCodes[(value \div 45^(n - i)) % 45]]
      [] mode = Modes.byte -> <<value>>
      [] mode = Modes.kanji -> <<ShiftJIS(value)>>

(* decodeNumeric, decodeAlphanumeric, decodeByte, decodeKanji: the rest of *)
(* a segment from bit k on.  An exception ends the whole attempt.          *)
RECURSIVE decodeGroups(_, _, _, _)
decodeGroups(data, k, mode, length) ==
    IF length = 0 THEN [next |-> k, chars |-> <<>>]
    ELSE LET n == GroupOf(mode, length)
             bits == BitsOf(mode, n)
             value == readBits(data, k, bits)
             rest == decodeGroups(data, k + bits, mode, length - n)
         IN IF available(data, k) < bits THEN [next |-> 0, chars |-> <<>>]
            ELSE IF ~InRange(mode, n, value) THEN [next |-> 0, chars |-> <<>>]
            ELSE [next |-> rest.next, chars |-> Characters(mode, n, value) \o rest.chars]

(* decodeURIComponent of bytes: characters, or an exception that leaves    *)
(* the segment's text empty.                                               *)
Follows(b, n) == Len(b) >= n /\ \A i \in 2..n : b[i] \in 128..191
RECURSIVE Utf8(_)
Utf8(b) ==
    LET then(n, char) == LET rest == Utf8(SubSeq(b, n + 1, Len(b)))
                         IN IF rest = Failure THEN Failure ELSE <<char>> \o rest
    IN CASE b = <<>> -> <<>>
         [] b # <<>> /\ b[1] < 128 -> then(1, b[1])
         [] b # <<>> /\ b[1] \in 194..223 /\ Follows(b, 2) ->
              then(2, 64 * (b[1] - 192) + b[2] - 128)
         [] b # <<>> /\ b[1] \in 224..239 /\ Follows(b, 3)
                     /\ (b[1] = 224 => b[2] >= 160) /\ (b[1] = 237 => b[2] < 160) ->
              then(3, 4096 * (b[1] - 224) + 64 * (b[2] - 128) + b[3] - 128)
         [] b # <<>> /\ b[1] \in 240..244 /\ Follows(b, 4)
                     /\ (b[1] = 240 => b[2] >= 144) /\ (b[1] = 244 => b[2] < 144) ->
              then(4, 262144 * (b[1] - 240) + 4096 * (b[2] - 128) + 64 * (b[3] - 128) + b[4] - 128)
         [] OTHER -> Failure
TextOf(mode, chars) ==
    IF mode # Modes.byte THEN chars ELSE IF Utf8(chars) = Failure THEN <<>> ELSE Utf8(chars)

(* An ECI marker: its length is told by its first bits; it leaves no text. *)
EciBits(data, k) ==
    CASE ~BitAt(data, k) -> 8
      [] BitAt(data, k) /\ ~BitAt(data, k + 1) -> 16
      [] BitAt(data, k) /\ BitAt(data, k + 1) /\ ~BitAt(data, k + 2) -> 24
      [] OTHER -> 3

(* decode: segment after segment until a terminator, the end of the data,  *)
(* or a rest too short for a mode, which must be all 0.  A mode that is    *)
(* not known is passed over.                                               *)
sizeOf(version) == IF version <= 9 THEN 1 ELSE IF version <= 26 THEN 2 ELSE 3
RECURSIVE decodeData(_, _, _, _)
decodeData(data, version, k, text) ==
    LET mode == readBits(data, k, 4)
        count == characterCountSize(mode, sizeOf(version))
        segment == decodeGroups(data, k + 4 + count, mode, readBits(data, k + 4, count))
        rest == available(data, k)
    IN IF rest < 4 THEN IF rest = 0 THEN text
                        ELSE IF readBits(data, k, rest) = 0 THEN text ELSE Failure
       ELSE IF mode = 0 THEN text
       ELSE IF mode = Modes.eci
            THEN IF rest < 7 THEN Failure
                 ELSE IF rest < 4 + EciBits(data, k + 4) THEN Failure
                 ELSE decodeData(data, version, k + 4 + EciBits(data, k + 4), text)
       ELSE IF mode \notin {1, 2, 4, 8} THEN decodeData(data, version, k + 4, text)
       ELSE IF rest < 4 + count THEN Failure
       ELSE IF segment.next = 0 THEN Failure
       ELSE decodeData(data, version, segment.next, text \o TextOf(mode, segment.chars))

decodeBytes(data, version) ==
    IF data = Failure THEN Failure ELSE decodeData(data, version, 1, <<>>)
(* decodeMatrix, and decode: the matrix as it is, then mirrored.           *)
decodeWith(matrix, version, format) ==
    IF version = 0 \/ format = 0 THEN Failure
    ELSE decodeBytes(DataBytes(matrix, version, format), version)
decodeMatrix(matrix) == decodeWith(matrix, readVersion(matrix), readFormatInformation(matrix))
Mirrored(matrix) == [matrix EXCEPT !.black = {<<p[2], p[1]>> : p \in matrix.black}]
OrElse(text, other) == IF text # Failure THEN text ELSE other
decode(matrix) == OrElse(decodeMatrix(matrix), decodeMatrix(Mirrored(matrix)))
=============================================================================
