------------------------------ MODULE QRWriter ------------------------------
(***************************************************************************)
(* The reference against which the QR reader is checked: how a symbol is   *)
(* written (ISO/IEC 18004), as far as the reader looks at it, and what may *)
(* happen to it on paper.  None of it is code of the program.              *)
(***************************************************************************)
EXTENDS QRText

BitsOfNumber(value, n) == [i \in 1..n |-> (value \div 2^(n - i)) % 2 = 1]
RECURSIVE Flat(_)
Flat(s) == IF s = <<>> THEN <<>> ELSE Head(s) \o Flat(Tail(s))

(* A character of a segment as the numbers its mode writes.                *)
Utf8Bytes(c) ==
    CASE c < 128 -> <<c>>
      [] c \in 128..2047 -> <<192 + (c \div 64), 128 + (c % 64)>>
      [] c \in 2048..65535 -> <<224 + (c \div 4096), 128 + ((c \div 64) % 64), 128 + (c % 64)>>
      [] OTHER -> <<240 + (c \div 262144), 128 + ((c \div 4096) % 64),
                    128 + ((c \div 64) % 64), 128 + (c % 64)>>
Units(mode, chars) ==
    CASE mode = Modes.numeric -> [i \in DOMAIN chars |-> chars[i] - 48]
      [] mode = Modes.alphanumeric ->
           [i \in DOMAIN chars |->
               CHOOSE a \in 0..44 : AlphanumericCharacterCodes[a] = chars[i]]
      [] mode = Modes.byte -> Flat([i \in DOMAIN chars |-> Utf8Bytes(chars[i])])
      [] mode = Modes.kanji ->
           [i \in DOMAIN chars |->
               LET c == chars[i] - (IF chars[i] < 40960 THEN 33088 ELSE 49472)
               IN 192 * (c \div 256) + (c % 256)]

(* The bits of a segment: groups of 3 digits, of 2 letters, single bytes.  *)
RECURSIVE Groups(_, _)
Groups(mode, units) ==
    LET n == IF mode = Modes.numeric THEN 3 ELSE IF mode = Modes.alphanumeric THEN 2 ELSE 1
        base == IF mode = Modes.numeric THEN 10 ELSE 45
        k == IF Len(units) < n THEN Len(units) ELSE n
        value == CASE k = 1 -> units[1]
                   [] k = 2 -> base * units[1] + units[2]
                   [] k = 3 -> 100 * units[1] + 10 * units[2] + units[3]
        width == CASE mode = Modes.numeric -> 3 * k + 1
                   [] mode = Modes.alphanumeric -> 5 * k + 1
                   [] mode = Modes.byte -> 8
                   [] mode = Modes.kanji -> 13
    IN IF units = <<>> THEN <<>>
       ELSE BitsOfNumber(value, width) \o Groups(mode, SubSeq(units, k + 1, Len(units)))
CountWidth(mode, version) ==
    LET step == IF version < 10 THEN 0 ELSE IF version < 27 THEN 1 ELSE 2
    IN CASE mode = Modes.numeric -> 10 + 2 * step
         [] mode = Modes.alphanumeric -> 9 + 2 * step
         [] mode = Modes.byte -> IF step = 0 THEN 8 ELSE 16
         [] mode = Modes.kanji -> 8 + 2 * step
SegmentBits(segment, version) ==
    LET units == Units(segment.mode, segment.chars)
    IN BitsOfNumber(segment.mode, 4)
       \o BitsOfNumber(Len(units), CountWidth(segment.mode, version))
       \o Groups(segment.mode, units)
EciMark == BitsOfNumber(7, 4) \o BitsOfNumber(26, 8)

(* The data bytes: a terminator as far as it fits, zeros to a whole byte,  *)
(* and two bytes in turn until the symbol is full.                         *)
Filled(bits, n) ==
    LET closed == bits \o [i \in 1..(IF 8 * n - Len(bits) < 4 THEN 8 * n - Len(bits) ELSE 4) |-> FALSE]
        whole == closed \o [i \in 1..((8 - (Len(closed) % 8)) % 8) |-> FALSE]
        used == Len(whole) \div 8
    IN [i \in 1..n |->
           IF i <= used THEN Number(SubSeq(whole, 8 * i - 7, 8 * i), 0)
           ELSE IF (i - used) % 2 = 1 THEN 236 ELSE 17]

(* The codewords for correction: the rest of a division by the generator.  *)
RECURSIVE Generator(_)
Generator(n) == IF n = 0 THEN <<1>> ELSE multiplyPoly(Generator(n - 1), <<1, exp(n - 1)>>)
Parity(data, ec) ==
    LET rest == Divided(Poly(data \o [i \in 1..ec |-> 0]), Generator(ec), <<0>>).r
    IN Padded(rest, ec)

(***************************************************************************)
(* Codewords as they are placed, the first numbers of all blocks first.    *)
(* hurt: how many codewords of each block are damaged.                     *)
(***************************************************************************)
BlockOf(data, b, n) ==
    LET before == (n - 1) * b.size + (IF n > b.short THEN n - 1 - b.short ELSE 0)
        own == SubSeq(data, before + 1, before + b.size + (IF n > b.short THEN 1 ELSE 0))
    IN own \o Parity(own, b.ec)
Hurt(block, hurt) ==
    [i \in DOMAIN block |->
        IF i <= hurt THEN addOrSubtractGF(block[i], 85 + i) ELSE block[i]]
Placed(data, b, hurt) ==
    LET blocks == Tuple([n \in 1..b.count |-> Hurt(BlockOf(data, b, n), hurt)], b.count)
        size(n) == Len(blocks[n]) - b.ec
        round(i) == Flat([n \in 1..b.count |-> IF i <= size(n) THEN <<blocks[n][i]>> ELSE <<>>])
        check(i) == [n \in 1..b.count |-> blocks[n][size(n) + i]]
    IN Flat([i \in 1..(b.size + 1) |-> round(i)]) \o Flat([i \in 1..b.ec |-> check(i)])

(* The matrix: data under its mask, and the codes of format and version in *)
(* both copies, with some bits of each copy the other way.                 *)
Codes(version) == VERSIONS[version].info
FormatCode(level, mask) == FORMAT_INFO_TABLE[8 * (<<1, 0, 3, 2>>[level + 1]) + mask + 1]
CodeModules(code, width, places, wrong) ==
    LET bits == BitsOfNumber(code, width)
    IN {places[i] : i \in {k \in 1..width : bits[k] # (k \in wrong)}}
Seen(matrix, mirror) == IF mirror THEN Mirrored(matrix) ELSE matrix
(* c: version, level, mask, segments (as bits, with their text), hurt, the *)
(* wrong bits of the copies, and whether the symbol is seen in a mirror.   *)
CodewordsOf(c, b) ==
    LET bits == Flat([i \in DOMAIN c.segments |-> SegmentBits(c.segments[i], c.version)])
    IN Placed(Filled((IF c.eci THEN EciMark ELSE <<>>) \o bits, b.count * b.size + b.long), b, c.hurt)
DataModules(codewords, places, mask) ==
    LET bit(k) == IF k > 8 * Len(codewords) THEN FALSE ELSE BitAt(codewords, k)
    IN {places[k] : k \in {j \in DOMAIN places :
           bit(j) # DATA_MASKS(mask, places[j][1], places[j][2])}}
Written(c) ==
    LET d == 17 + 4 * c.version
        data == DataModules(CodewordsOf(c, BlocksOf(c.version, c.level)), DataPlaces(c.version), c.mask)
        format(places15) == CodeModules(FormatCode(c.level, c.mask), 15, places15, c.wrong)
        version(places18) == CodeModules(Codes(c.version), 18, places18, c.wrong)
        black == data \cup format(FormatPlacesLeft) \cup format(FormatPlacesRight(d))
                 \cup IF c.version < 7 THEN {}
                      ELSE version(VersionPlaces(d)) \cup version(Flipped(VersionPlaces(d)))
    IN Seen([height |-> d, black |-> black], c.mirror)
TextWritten(c) == Flat([i \in DOMAIN c.segments |-> c.segments[i].chars])
=============================================================================
