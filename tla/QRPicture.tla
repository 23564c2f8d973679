------------------------------ MODULE QRPicture ------------------------------
(***************************************************************************)
(* The reference for QRImage: pictures of written symbols, turned, scaled, *)
(* unevenly lit or inverted.  None of it is code of the program.           *)
(***************************************************************************)
EXTENDS QRImage, QRWriter

(* p: symbol (of QRWriter), a and b (a module's side is the vector (a, b), *)
(* in pixels), width, height, origin (the symbol's corner, in half         *)
(* pixels), dark and light (the greys at the left), shade (one grey lost   *)
(* or won in so many columns), inverted.                                   *)
Finder(x, y) ==
    {q \in ((x - 3)..(x + 3)) \X ((y - 3)..(y + 3)) :
        LET far(n) == IF n < 0 THEN -n ELSE n
        IN  (IF far(q[1] - x) > far(q[2] - y) THEN far(q[1] - x) ELSE far(q[2] - y)) # 2}
WithFinders(matrix) ==
    LET d == matrix.height
    IN  matrix.black \cup Finder(3, 3) \cup Finder(d - 4, 3) \cup Finder(3, d - 4)
DrawnIn(p, black) ==
    LET scale == 2 * (p.a * p.a + p.b * p.b)
        ink(x, y) ==
            LET X == 2 * x + 1 - p.origin[1]
                Y == 2 * y + 1 - p.origin[2]
            IN  <<(p.a * X + p.b * Y) \div scale, (p.a * Y - p.b * X) \div scale>> \in black
        grey(x, y) == (IF ink(x, y) # p.inverted THEN p.dark ELSE p.light) + x \div p.shade
    IN  [width |-> p.width, height |-> p.height,
         grey |-> Tuple([k \in 1..(p.width * p.height) |->
                            grey((k - 1) % p.width, (k - 1) \div p.width)], p.width * p.height)]
Drawn(p) == DrawnIn(p, WithFinders(Written(p.symbol)))
(* Where the patterns are: what the reader should have found.              *)
PlaceOf(p, m, n) == <<p.origin[1] + p.a * m - p.b * n, p.origin[2] + p.b * m + p.a * n>>
LocationOf(p) ==
    LET d == 17 + 4 * p.symbol.version
    IN  [dimension |-> d, topLeft |-> PlaceOf(p, 7, 7), topRight |-> PlaceOf(p, 2 * d - 7, 7),
         bottomLeft |-> PlaceOf(p, 7, 2 * d - 7),
         alignmentPattern |-> PlaceOf(p, 2 * d - 13, 2 * d - 13)]
(* Elsewhere first, where nothing can be decoded.                          *)
Elsewhere(p) == [LocationOf(p) EXCEPT !.topLeft = p.origin]
Read(p) == jsQR(Drawn(p), IF p.inverted THEN <<>> ELSE <<Elsewhere(p), LocationOf(p)>>,
                          IF p.inverted THEN <<Elsewhere(p), LocationOf(p)>> ELSE <<>>)
=============================================================================
