------------------------------- MODULE QRImage -------------------------------
(***************************************************************************)
(* How the window's QR reader makes a matrix of a picture (jsQR.js,        *)
(* modules 4 and 11, and its entry): the picture is made black and white   *)
(* by thresholds of its regions, and the matrix is sampled through the     *)
(* perspective of four points.  Finding the points (module 12) works with  *)
(* square roots and is left out: a picture comes with its location.  Only  *)
(* TLC evaluates this module.                                              *)
(*                                                                         *)
(* A picture is its width, height and the greys 0..255 of its pixels, row  *)
(* by row, as JavaScript's arrays have them; a coordinate is counted in    *)
(* half pixels, and a matrix of perspective is given up to a factor.       *)
(***************************************************************************)
EXTENDS QRText, SequencesExt

REGION_SIZE == 8
MIN_DYNAMIC_RANGE == 24

(* An array clamps what it is given to whole numbers, halves to even ones. *)
Clamped(n, d) ==
    LET q == n \div d
        r == 2 * (n % d)
    IN  IF r > d \/ (r = d /\ q % 2 = 1) THEN q + 1 ELSE q
(* A column right of the picture is one of the next row, a row below it is *)
(* not a number, which makes the sum 0 when it is stored.                  *)
Regions(length) == (length + REGION_SIZE - 1) \div REGION_SIZE
Index(image, x, y) == y * image.width + x + 1
RECURSIVE SumOf(_, _), LeastOf(_, _), GreatestOf(_, _)
SumOf(s, k) == IF k = 0 THEN 0 ELSE s[k] + SumOf(s, k - 1)
LeastOf(s, k) ==
    IF k = 1 THEN s[1] ELSE LET l == LeastOf(s, k - 1) IN IF s[k] < l THEN s[k] ELSE l
GreatestOf(s, k) ==
    IF k = 1 THEN s[1] ELSE LET g == GreatestOf(s, k - 1) IN IF s[k] > g THEN s[k] ELSE g

(* The black point of the region in column h and row v, those before it    *)
(* being known.  A region of one colour is white, unless its neighbours'   *)
(* black points say otherwise.                                             *)
BlackPoint(image, points, h, v) ==
    LET columns == Regions(image.width)
        size == REGION_SIZE * REGION_SIZE
        places == [k \in 1..size |-> Index(image, REGION_SIZE * h + ((k - 1) % REGION_SIZE),
                                           REGION_SIZE * v + ((k - 1) \div REGION_SIZE))]
        pixels == Tuple([k \in 1..size |-> image.grey[places[k]]], size)
        least == LeastOf(pixels, size)
        neighbours == points[(v - 1) * columns + h + 1] + 2 * points[v * columns + h]
                      + points[(v - 1) * columns + h]
    IN  CASE places[size] > Len(image.grey) -> 0
          [] places[size] <= Len(image.grey) /\ GreatestOf(pixels, size) - least > MIN_DYNAMIC_RANGE ->
               Clamped(SumOf(pixels, size), size)
          [] OTHER -> IF v > 0 /\ h > 0 /\ 4 * least < neighbours THEN Clamped(neighbours, 4)
                      ELSE Clamped(least, 2)
RECURSIVE BlackPointsFrom(_, _)
BlackPointsFrom(image, points) ==
    LET columns == Regions(image.width)
        k == Len(points)
    IN  IF k = columns * Regions(image.height) THEN points
        ELSE BlackPointsFrom(image,
                 Append(points, BlackPoint(image, points, k % columns, k \div columns)))

(* The regions' thresholds (times 25): the black points of the 5 by 5 next *)
(* to the region, for pictures of 5 regions or more on each side.          *)
numBetween(value, min, max) == IF value < min THEN min ELSE IF value > max THEN max ELSE value
Threshold(image, points, h, v) ==
    LET columns == Regions(image.width)
        left == numBetween(h, 2, columns - 3)
        top == numBetween(v, 2, Regions(image.height) - 3)
        around == [k \in 1..25 |->
            points[(top - 2 + ((k - 1) \div 5)) * columns + left - 2 + ((k - 1) % 5) + 1]]
    IN  SumOf(around, 25)
Thresholds(image) ==
    LET columns == Regions(image.width)
        count == columns * Regions(image.height)
        points == BlackPointsFrom(image, <<>>)
    IN  Tuple([k \in 1..count |->
                  Threshold(image, points, (k - 1) % columns, (k - 1) \div columns)], count)

(* The region that writes a pixel last: of a row that does not fill its    *)
(* regions, the overhang of the row above is the beginning of this one,    *)
(* and comes after it unless that row belongs to the regions above.        *)
RegionOf(image, x, y) ==
    LET columns == Regions(image.width)
        overhang == columns * REGION_SIZE - image.width
    IN  IF x < overhang /\ y % REGION_SIZE # 0 THEN (y \div REGION_SIZE) * columns + columns
        ELSE (y \div REGION_SIZE) * columns + (x \div REGION_SIZE) + 1
binarize(image) ==
    [width |-> image.width, height |-> image.height, grey |-> image.grey,
     thresholds |-> Thresholds(image), inverted |-> FALSE]
invert(bits) == [bits EXCEPT !.inverted = TRUE]
(* BitMatrix.get: outside of the picture nothing is black, inverted or not.*)
IsBlack(bits, x, y) ==
    /\ x \in 0..(bits.width - 1) /\ y \in 0..(bits.height - 1)
    /\ bits.inverted #
           (25 * bits.grey[Index(bits, x, y)] <= bits.thresholds[RegionOf(bits, x, y)])

(* Perspective, without the divisions.                                     *)
RECURSIVE GcdOf(_, _)
GcdOf(a, b) == IF b = 0 THEN (IF a < 0 THEN -a ELSE a) ELSE GcdOf(b, a % (IF b < 0 THEN -b ELSE b))
RECURSIVE GcdOfAll(_, _)
GcdOfAll(m, k) == IF k = 0 THEN 0 ELSE GcdOf(m[k], GcdOfAll(m, k - 1))
(* a11, a12, a13, a21, and so on.                                          *)
Reduced(m) == LET g == GcdOfAll(m, 9) IN Tuple([k \in 1..9 |-> m[k] \div g], 9)
squareToQuadrilateral(p1, p2, p3, p4) ==
    LET dx3 == p1[1] - p2[1] + p3[1] - p4[1]
        dy3 == p1[2] - p2[2] + p3[2] - p4[2]
        dx1 == p2[1] - p3[1]
        dx2 == p4[1] - p3[1]
        dy1 == p2[2] - p3[2]
        dy2 == p4[2] - p3[2]
        d == dx1 * dy2 - dx2 * dy1
        a13 == dx3 * dy2 - dx2 * dy3
        a23 == dx1 * dy3 - dx3 * dy1
    IN  IF dx3 = 0 /\ dy3 = 0
        THEN <<p2[1] - p1[1], p2[2] - p1[2], 0, p3[1] - p2[1], p3[2] - p2[2], 0, p1[1], p1[2], 1>>
        ELSE Reduced(<<(p2[1] - p1[1]) * d + a13 * p2[1], (p2[2] - p1[2]) * d + a13 * p2[2], a13,
                       (p4[1] - p1[1]) * d + a23 * p4[1], (p4[2] - p1[2]) * d + a23 * p4[2], a23,
                       p1[1] * d, p1[2] * d, d>>)
(* The adjoint serves as the inverse.                                      *)
buildAdjoint(m) ==
    Reduced(<<m[5] * m[9] - m[6] * m[8], m[3] * m[8] - m[2] * m[9], m[2] * m[6] - m[3] * m[5],
              m[6] * m[7] - m[4] * m[9], m[1] * m[9] - m[3] * m[7], m[3] * m[4] - m[1] * m[6],
              m[4] * m[8] - m[5] * m[7], m[2] * m[7] - m[1] * m[8], m[1] * m[5] - m[2] * m[4]>>)
quadrilateralToSquare(p1, p2, p3, p4) == buildAdjoint(squareToQuadrilateral(p1, p2, p3, p4))
times(a, b) ==
    Reduced([k \in 1..9 |->
        LET row == (k - 1) \div 3
            column == ((k - 1) % 3) + 1
        IN  a[column] * b[3 * row + 1] + a[column + 3] * b[3 * row + 2] + a[column + 6] * b[3 * row + 3]])

(* The fourth point is the alignment pattern, 3 modules in from where the  *)
(* corner's own pattern would be.                                          *)
Fourth(d) == <<2 * d - 13, 2 * d - 13>>
mapping(location, d) ==
    times(squareToQuadrilateral(location.topLeft, location.topRight,
                                location.alignmentPattern, location.bottomLeft),
          quadrilateralToSquare(<<7, 7>>, <<2 * d - 7, 7>>, Fourth(d), <<7, 2 * d - 7>>))
Floor(n, m) == IF m < 0 THEN (-n) \div (-m) ELSE n \div m
(* The pixel in which the middle of a module lies: X and Y in half modules.*)
PixelIsBlack(bits, t, X, Y) ==
    LET m == t[3] * X + t[6] * Y + t[9]
    IN  IsBlack(bits, Floor(t[1] * X + t[4] * Y + t[7], 2 * m),
                      Floor(t[2] * X + t[5] * Y + t[8], 2 * m))
Sampled(bits, d, t) ==
    [height |-> d, black |-> {p \in (0..(d - 1)) \X (0..(d - 1)) :
                                 PixelIsBlack(bits, t, 2 * p[1] + 1, 2 * p[2] + 1)}]
extract(bits, location) ==
    Sampled(bits, location.dimension, mapping(location, location.dimension))

(* scan and jsQR: the first of the locations whose matrix can be decoded,  *)
(* in the picture and then in its inverse.  locations: what is found in    *)
(* each of them.                                                           *)
scan(bits, locations) ==
    FoldLeft(LAMBDA text, location : OrElse(text, decode(extract(bits, location))),
             Failure, locations)
scanBoth(bits, locations, invertedLocations) ==
    OrElse(scan(bits, locations), scan(invert(bits), invertedLocations))
jsQR(image, locations, invertedLocations) ==
    scanBoth(binarize(image), locations, invertedLocations)
=============================================================================
