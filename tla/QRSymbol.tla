------------------------------ MODULE QRSymbol ------------------------------
(***************************************************************************)
(* How the window's QR reader takes a symbol apart (jsQR.js, modules 5 and *)
(* 10): the version and format are read from the symbol, the data modules  *)
(* in a zigzag around the function patterns, and the codewords are dealt   *)
(* out to the blocks that ReedSolomon corrects.  Only TLC evaluates it.    *)
(*                                                                         *)
(* A matrix is its height and the set of its black modules <<x, y>>;       *)
(* BitMatrix.get is membership, and white outside of it.                   *)
(***************************************************************************)
EXTENDS ReedSolomon

(***************************************************************************)
(* The table of versions: the code of the version (0: null), the centres   *)
(* of the alignment patterns and for each level of error correction the    *)
(* codewords of a block that are for correction, then the number of blocks *)
(* and their data codewords, for the short and the long ones.              *)
(***************************************************************************)
V(info, centers, low, medium, quartile, high) ==
    [info |-> info, centers |-> centers, levels |-> <<low, medium, quartile, high>>]
VERSIONS_1 == <<
    V(0, <<>>, <<7, 1, 19>>, <<10, 1, 16>>, <<13, 1, 13>>, <<17, 1, 9>>),
    V(0, <<6, 18>>, <<10, 1, 34>>, <<16, 1, 28>>, <<22, 1, 22>>, <<28, 1, 16>>),
    V(0, <<6, 22>>, <<15, 1, 55>>, <<26, 1, 44>>, <<18, 2, 17>>, <<22, 2, 13>>),
    V(0, <<6, 26>>, <<20, 1, 80>>, <<18, 2, 32>>, <<26, 2, 24>>, <<16, 4, 9>>),
    V(0, <<6, 30>>, <<26, 1, 108>>, <<24, 2, 43>>, <<18, 2, 15, 2, 16>>, <<22, 2, 11, 2, 12>>)>>
VERSIONS_6 == <<
    V(0, <<6, 34>>, <<18, 2, 68>>, <<16, 4, 27>>, <<24, 4, 19>>, <<28, 4, 15>>),
    V(31892, <<6, 22, 38>>, <<20, 2, 78>>, <<18, 4, 31>>, <<18, 2, 14, 4, 15>>,
      <<26, 4, 13, 1, 14>>),
    V(34236, <<6, 24, 42>>, <<24, 2, 97>>, <<22, 2, 38, 2, 39>>, <<22, 4, 18, 2, 19>>,
      <<26, 4, 14, 2, 15>>),
    V(39577, <<6, 26, 46>>, <<30, 2, 116>>, <<22, 3, 36, 2, 37>>, <<20, 4, 16, 4, 17>>,
      <<24, 4, 12, 4, 13>>),
    V(42195, <<6, 28, 50>>, <<18, 2, 68, 2, 69>>, <<26, 4, 43, 1, 44>>, <<24, 6, 19, 2, 20>>,
      <<28, 6, 15, 2, 16>>)>>
VERSIONS_11 == <<
    V(48118, <<6, 30, 54>>, <<20, 4, 81>>, <<30, 1, 50, 4, 51>>, <<28, 4, 22, 4, 23>>,
      <<24, 3, 12, 8, 13>>),
    V(51042, <<6, 32, 58>>, <<24, 2, 92, 2, 93>>, <<22, 6, 36, 2, 37>>, <<26, 4, 20, 6, 21>>,
      <<28, 7, 14, 4, 15>>),
    V(55367, <<6, 34, 62>>, <<26, 4, 107>>, <<22, 8, 37, 1, 38>>, <<24, 8, 20, 4, 21>>,
      <<22, 12, 11, 4, 12>>),
    V(58893, <<6, 26, 46, 66>>, <<30, 3, 115, 1, 116>>, <<24, 4, 40, 5, 41>>,
      <<20, 11, 16, 5, 17>>, <<24, 11, 12, 5, 13>>)>>
VERSIONS_15 == <<
    V(63784, <<6, 26, 48, 70>>, <<22, 5, 87, 1, 88>>, <<24, 5, 41, 5, 42>>,
      <<30, 5, 24, 7, 25>>, <<24, 11, 12, 7, 13>>),
    V(68472, <<6, 26, 50, 74>>, <<24, 5, 98, 1, 99>>, <<28, 7, 45, 3, 46>>,
      <<24, 15, 19, 2, 20>>, <<30, 3, 15, 13, 16>>),
    V(70749, <<6, 30, 54, 78>>, <<28, 1, 107, 5, 108>>, <<28, 10, 46, 1, 47>>,
      <<28, 1, 22, 15, 23>>, <<28, 2, 14, 17, 15>>),
    V(76311, <<6, 30, 56, 82>>, <<30, 5, 120, 1, 121>>, <<26, 9, 43, 4, 44>>,
      <<28, 17, 22, 1, 23>>, <<28, 2, 14, 19, 15>>)>>
VERSIONS_19 == <<
    V(79154, <<6, 30, 58, 86>>, <<28, 3, 113, 4, 114>>, <<26, 3, 44, 11, 45>>,
      <<26, 17, 21, 4, 22>>, <<26, 9, 13, 16, 14>>),
    V(84390, <<6, 34, 62, 90>>, <<28, 3, 107, 5, 108>>, <<26, 3, 41, 13, 42>>,
      <<30, 15, 24, 5, 25>>, <<28, 15, 15, 10, 16>>),
    V(87683, <<6, 28, 50, 72, 94>>, <<28, 4, 116, 4, 117>>, <<26, 17, 42>>,
      <<28, 17, 22, 6, 23>>, <<30, 19, 16, 6, 17>>),
    V(92361, <<6, 26, 50, 74, 98>>, <<28, 2, 111, 7, 112>>, <<28, 17, 46>>,
      <<30, 7, 24, 16, 25>>, <<24, 34, 13>>)>>
VERSIONS_23 == <<
    V(96236, <<6, 30, 54, 74, 102>>, <<30, 4, 121, 5, 122>>, <<28, 4, 47, 14, 48>>,
      <<30, 11, 24, 14, 25>>, <<30, 16, 15, 14, 16>>),
    V(102084, <<6, 28, 54, 80, 106>>, <<30, 6, 117, 4, 118>>, <<28, 6, 45, 14, 46>>,
      <<30, 11, 24, 16, 25>>, <<30, 30, 16, 2, 17>>),
    V(102881, <<6, 32, 58, 84, 110>>, <<26, 8, 106, 4, 107>>, <<28, 8, 47, 13, 48>>,
      <<30, 7, 24, 22, 25>>, <<30, 22, 15, 13, 16>>),
    V(110507, <<6, 30, 58, 86, 114>>, <<28, 10, 114, 2, 115>>, <<28, 19, 46, 4, 47>>,
      <<28, 28, 22, 6, 23>>, <<30, 33, 16, 4, 17>>)>>
VERSIONS_27 == <<
    V(110734, <<6, 34, 62, 90, 118>>, <<30, 8, 122, 4, 123>>, <<28, 22, 45, 3, 46>>,
      <<30, 8, 23, 26, 24>>, <<30, 12, 15, 28, 16>>),
    V(117786, <<6, 26, 50, 74, 98, 122>>, <<30, 3, 117, 10, 118>>, <<28, 3, 45, 23, 46>>,
      <<30, 4, 24, 31, 25>>, <<30, 11, 15, 31, 16>>),
    V(119615, <<6, 30, 54, 78, 102, 126>>, <<30, 7, 116, 7, 117>>, <<28, 21, 45, 7, 46>>,
      <<30, 1, 23, 37, 24>>, <<30, 19, 15, 26, 16>>),
    V(126325, <<6, 26, 52, 78, 104, 130>>, <<30, 5, 115, 10, 116>>, <<28, 19, 47, 10, 48>>,
      <<30, 15, 24, 25, 25>>, <<30, 23, 15, 25, 16>>)>>
VERSIONS_31 == <<
    V(127568, <<6, 30, 56, 82, 108, 134>>, <<30, 13, 115, 3, 116>>, <<28, 2, 46, 29, 47>>,
      <<30, 42, 24, 1, 25>>, <<30, 23, 15, 28, 16>>),
    V(133589, <<6, 34, 60, 86, 112, 138>>, <<30, 17, 115>>, <<28, 10, 46, 23, 47>>,
      <<30, 10, 24, 35, 25>>, <<30, 19, 15, 35, 16>>),
    V(136944, <<6, 30, 58, 86, 114, 142>>, <<30, 17, 115, 1, 116>>, <<28, 14, 46, 21, 47>>,
      <<30, 29, 24, 19, 25>>, <<30, 11, 15, 46, 16>>),
    V(141498, <<6, 34, 62, 90, 118, 146>>, <<30, 13, 115, 6, 116>>, <<28, 14, 46, 23, 47>>,
      <<30, 44, 24, 7, 25>>, <<30, 59, 16, 1, 17>>)>>
VERSIONS_35 == <<
    V(145311, <<6, 30, 54, 78, 102, 126, 150>>, <<30, 12, 121, 7, 122>>,
      <<28, 12, 47, 26, 48>>, <<30, 39, 24, 14, 25>>, <<30, 22, 15, 41, 16>>),
    V(150283, <<6, 24, 50, 76, 102, 128, 154>>, <<30, 6, 121, 14, 122>>, <<28, 6, 47, 34, 48>>,
      <<30, 46, 24, 10, 25>>, <<30, 2, 15, 64, 16>>),
    V(152622, <<6, 28, 54, 80, 106, 132, 158>>, <<30, 17, 122, 4, 123>>,
      <<28, 29, 46, 14, 47>>, <<30, 49, 24, 10, 25>>, <<30, 24, 15, 46, 16>>),
    V(158308, <<6, 32, 58, 84, 110, 136, 162>>, <<30, 4, 122, 18, 123>>,
      <<28, 13, 46, 32, 47>>, <<30, 48, 24, 14, 25>>, <<30, 42, 15, 32, 16>>)>>
VERSIONS_39 == <<
    V(161089, <<6, 26, 54, 82, 110, 138, 166>>, <<30, 20, 117, 4, 118>>, <<28, 40, 47, 7, 48>>,
      <<30, 43, 24, 22, 25>>, <<30, 10, 15, 67, 16>>),
    V(167017, <<6, 30, 58, 86, 114, 142, 170>>, <<30, 19, 118, 6, 119>>,
      <<28, 18, 47, 31, 48>>, <<30, 34, 24, 34, 25>>, <<30, 20, 15, 61, 16>>)>>
VERSIONS ==
    VERSIONS_1 \o VERSIONS_6 \o VERSIONS_11 \o VERSIONS_15 \o VERSIONS_19
    \o VERSIONS_23 \o VERSIONS_27 \o VERSIONS_31 \o VERSIONS_35 \o VERSIONS_39

dimensionOf(version) == 17 + 4 * version

(* Bits read one after the other into a number (pushBit), the first one    *)
(* the highest.                                                            *)
RECURSIVE Number(_, _)
Number(bits, sum) ==
    IF bits = <<>> THEN sum ELSE Number(Tail(bits), 2 * sum + (IF Head(bits) THEN 1 ELSE 0))
numBitsDiffering(a, b) == Cardinality({i \in 0..17 : (a \div 2^i) % 2 # (b \div 2^i) % 2})

FORMAT_INFO_TABLE == <<
    21522, 20773, 24188, 23371, 17913, 16590, 20375, 19104,
    30660, 29427, 32170, 30877, 26159, 25368, 27713, 26998,
     5769,  5054,  7399,  6608,  1890,   597,  3340,  2107,
    13663, 12392, 16177, 14854,  9396,  8579, 11994, 11245>>
formatInfo(i) == [level |-> <<1, 0, 3, 2>>[((i - 1) \div 8) + 1], mask |-> (i - 1) % 8]

DATA_MASKS(mask, x, y) ==
    CASE mask = 0 -> (y + x) % 2 = 0
      [] mask = 1 -> y % 2 = 0
      [] mask = 2 -> x % 3 = 0
      [] mask = 3 -> (y + x) % 3 = 0
      [] mask = 4 -> ((y \div 2) + (x \div 3)) % 2 = 0
      [] mask = 5 -> ((x * y) % 2) + ((x * y) % 3) = 0
      [] mask = 6 -> (((y * x) % 2) + ((y * x) % 3)) % 2 = 0
      [] mask = 7 -> (((y + x) % 2) + ((y * x) % 3)) % 2 = 0

setRegion(left, top, width, height) == (left..(left + width - 1)) \X (top..(top + height - 1))
buildFunctionPatternMask(version) ==
    LET d == dimensionOf(version)
        c == {VERSIONS[version].centers[i] : i \in DOMAIN VERSIONS[version].centers}
        corners == {<<6, 6>>, <<6, d - 7>>, <<d - 7, 6>>}
    IN setRegion(0, 0, 9, 9) \cup setRegion(d - 8, 0, 8, 9) \cup setRegion(0, d - 8, 9, 8)
       \cup UNION {setRegion(p[1] - 2, p[2] - 2, 5, 5) : p \in (c \X c) \ corners}
       \cup setRegion(6, 9, 1, d - 17) \cup setRegion(9, 6, d - 17, 1)
       \cup IF version > 6 THEN setRegion(d - 11, 0, 3, 6) \cup setRegion(0, d - 11, 6, 3) ELSE {}

(* The places of the data, as readCodewords comes past them: pairs of      *)
(* columns from the right, up and down in turn, without column 6.          *)
(* Mutant: column 6 is read.                                               *)
rightColumnPlain(d, pair) == d + 1 - 2 * pair
rightColumn(d, pair) == LET x == d + 1 - 2 * pair IN IF x <= 6 THEN x - 1 ELSE x
Place(d, k) ==
    LET pair == ((k - 1) \div (2 * d)) + 1
        row == ((k - 1) % (2 * d)) \div 2
    IN <<rightColumn(d, pair) - ((k - 1) % 2), IF pair % 2 = 1 THEN d - 1 - row ELSE row>>
DataPlaces(version) ==
    LET d == dimensionOf(version)
        pattern == buildFunctionPatternMask(version)
        all == [k \in 1..(d * (d - 1)) |-> Place(d, k)]
    IN SelectSeq(all, LAMBDA p : p \notin pattern)
readCodewords(matrix, version, mask) ==
    LET places == DataPlaces(version)
        bit(p) == (p \in matrix.black) # DATA_MASKS(mask, p[1], p[2])
    IN [n \in 1..(Len(places) \div 8) |->
           Number([i \in 1..8 |-> bit(places[8 * (n - 1) + i])], 0)]

(* One of the two copies of a code in the symbol.                          *)
ReadAt(matrix, places) == Number([i \in DOMAIN places |-> places[i] \in matrix.black], 0)
VersionPlaces(d) == [i \in 1..18 |-> <<d - 9 - ((i - 1) % 3), 5 - ((i - 1) \div 3)>>]
Flipped(places) == [i \in DOMAIN places |-> <<places[i][2], places[i][1]>>]
FormatPlacesLeft == [i \in 1..15 |-> IF i <= 8 THEN <<IF i <= 6 THEN i - 1 ELSE i, 8>>
                                     ELSE <<8, IF i = 9 THEN 7 ELSE 15 - i>>]
FormatPlacesRight(d) == [i \in 1..15 |-> IF i <= 7 THEN <<8, d - i>> ELSE <<d - 16 + i, 8>>]

(* The first entry of a table that is one of the two codes read or, when   *)
(* none is, the first of those nearest to one of them, if at most 3 bits   *)
(* differ.  0 when there is none.                                          *)
first(S) == CHOOSE i \in S : \A j \in S : i <= j
distance(table, codes, i) == first({numBitsDiffering(c, table[i]) : c \in codes})
Nearest(table, exact, codes) ==
    LET matches == {i \in exact : table[i] \in codes}
        near == {i \in DOMAIN table : distance(table, codes, i) <= 3}
        best == {i \in near : \A j \in near : distance(table, codes, i) <= distance(table, codes, j)}
    IN IF matches # {} THEN first(matches) ELSE IF near # {} THEN first(best) ELSE 0

InfoBits == [v \in 1..40 |-> VERSIONS[v].info]
readVersion(matrix) ==
    LET d == matrix.height
        topRight == ReadAt(matrix, VersionPlaces(d))
        bottomLeft == ReadAt(matrix, Flipped(VersionPlaces(d)))
        provisional == (d - 17) \div 4
    IN IF provisional <= 6 THEN IF provisional < 1 THEN 0 ELSE provisional
       ELSE Nearest(InfoBits, 7..40, {topRight, bottomLeft})
readFormatInformation(matrix) ==
    Nearest(FORMAT_INFO_TABLE, 1..32,
            {ReadAt(matrix, FormatPlacesLeft), ReadAt(matrix, FormatPlacesRight(matrix.height))})

(***************************************************************************)
(* getDataBlocks.  The codewords are dealt to the blocks in turn: data     *)
(* while all have room, one more for each long block, then correction.     *)
(***************************************************************************)
BlocksOfRow(row) ==
    LET long == IF Len(row) > 3 THEN row[4] ELSE 0
    IN [ec |-> row[1], short |-> row[2], long |-> long, size |-> row[3], count |-> row[2] + long]
BlocksOf(version, level) == BlocksOfRow(VERSIONS[version].levels[level + 1])
dataOf(b, n) == b.size + (IF n > b.short THEN 1 ELSE 0)
TotalCodewords(b) == b.count * (b.size + b.ec) + b.long
(* Where codeword i of block n is in what was read.                        *)
Source(b, n, i) ==
    CASE i <= b.size -> (i - 1) * b.count + n
      [] i = b.size + 1 /\ n > b.short -> b.size * b.count + (n - b.short)
      [] OTHER -> b.size * b.count + b.long + (i - dataOf(b, n) - 1) * b.count + n
getDataBlocks(codewords, b) ==
    [n \in 1..b.count |-> [i \in 1..(dataOf(b, n) + b.ec) |-> codewords[Source(b, n, i)]]]

WithRest(block, size, rest) ==
    IF block = Failure \/ rest = Failure THEN Failure ELSE SubSeq(block, 1, size) \o rest
(* decodeMatrix up to the text: the data bytes of all blocks.              *)
RECURSIVE Joined(_, _, _)
Joined(blocks, b, n) ==
    IF n > b.count THEN <<>>
    ELSE WithRest(correct(blocks[n], b.ec), dataOf(b, n), Joined(blocks, b, n + 1))
BytesOf(codewords, b) ==
    IF Len(codewords) < TotalCodewords(b) THEN Failure
    ELSE Joined(getDataBlocks(codewords, b), b, 1)
DataBytes(matrix, version, format) ==
    BytesOf(readCodewords(matrix, version, formatInfo(format).mask),
            BlocksOf(version, formatInfo(format).level))
=============================================================================
