----------------------------- MODULE ReedSolomon -----------------------------
(***************************************************************************)
(* The error correction of the window's QR reader (frontend/public/lib/    *)
(* jsQR.js): arithmetic in GF(256) and over its polynomials, and the       *)
(* decoder: the extended Euclidean algorithm, Chien's search and Forney's  *)
(* formula.  Only TLC evaluates this module.                               *)
(*                                                                         *)
(* A polynomial is the sequence of its coefficients, the leading one       *)
(* first, without leading zeros; <<0>> is zero.                            *)
(***************************************************************************)
EXTENDS Integers, Sequences, FiniteSets

Failure == <<-1>>    \* no bytes: null, or an exception

(* A byte as the set of its bits that are 1; addOrSubtractGF is exclusive  *)
(* or, here of a whole family of bytes.                                    *)
Bytes == 0..255
Bits == [n \in Bytes |-> {i \in 0..7 : (n \div 2^i) % 2 = 1}]
SumOfBits(w) == w[0] + w[1] + w[2] + w[3] + w[4] + w[5] + w[6] + w[7]
XorAll(f) ==
    SumOfBits([i \in 0..7 |->
        IF Cardinality({k \in DOMAIN f : i \in Bits[f[k]]}) % 2 = 1 THEN 2^i ELSE 0])
addOrSubtractGF(a, b) == XorAll(<<a, b>>)

(* The field of x^8 + x^4 + x^3 + x^2 + 1.  expTable[i] is 1 doubled i     *)
(* times, here by squaring, to spare the evaluator's stack.                *)
Doubled(x) == IF x < 128 THEN 2 * x ELSE addOrSubtractGF(2 * x - 256, 29)
Shifted[x \in Bytes, n \in 0..7] == IF n = 0 THEN x ELSE Doubled(Shifted[x, n - 1])
PowerOfTwo[i \in 0..255] ==
    IF i = 0 THEN 1
    ELSE IF i % 2 = 1 THEN Doubled(PowerOfTwo[i - 1])
    ELSE LET root == PowerOfTwo[i \div 2] IN XorAll([k \in Bits[root] |-> Shifted[root, k]])
Tuple(f, n) == SubSeq(f, 1, n)    \* f, each place evaluated once
expTable == Tuple([i \in 1..256 |-> PowerOfTwo[i - 1]], 256)
exp(i) == expTable[i + 1]
logTable == Tuple([a \in 1..255 |-> CHOOSE i \in 0..254 : exp(i) = a], 255)
log(a) == logTable[a]

multiply(a, b) == IF a = 0 \/ b = 0 THEN 0 ELSE exp((log(a) + log(b)) % 255)
inverse(a) == exp(255 - log(a))

(* GenericGFPoly.                                                          *)
Poly(c) ==
    LET nonZero == {i \in DOMAIN c : c[i] # 0}
    IN IF nonZero = {} THEN <<0>>
       ELSE SubSeq(c, CHOOSE i \in nonZero : \A j \in nonZero : i <= j, Len(c))
degree(p) == Len(p) - 1
isZero(p) == p[1] = 0
getCoefficient(p, d) == p[Len(p) - d]
buildMonomial(d, c) == IF c = 0 THEN <<0>> ELSE [i \in 1..(d + 1) |-> IF i = 1 THEN c ELSE 0]

Padded(p, n) == [i \in 1..n |-> IF i <= n - Len(p) THEN 0 ELSE p[i - (n - Len(p))]]
addOrSubtract(p, q) ==
    LET n == IF Len(p) > Len(q) THEN Len(p) ELSE Len(q)
    IN Poly([i \in 1..n |-> addOrSubtractGF(Padded(p, n)[i], Padded(q, n)[i])])
multiplyBy(p, scalar) == Poly([i \in DOMAIN p |-> multiply(p[i], scalar)])
multiplyByMonomial(p, d, c) ==
    Poly([i \in 1..(Len(p) + d) |-> IF i > Len(p) THEN 0 ELSE multiply(p[i], c)])
multiplyPoly(p, q) ==
    LET terms(k) == {i \in DOMAIN p : k + 1 - i \in DOMAIN q}
    IN Poly([k \in 1..(Len(p) + Len(q) - 1) |->
                XorAll([i \in terms(k) |-> multiply(p[i], q[k + 1 - i])])])
power(a, n) == IF n = 0 THEN 1 ELSE IF a = 0 THEN 0 ELSE exp((log(a) * n) % 255)
evaluateAt(p, a) == XorAll([i \in DOMAIN p |-> multiply(p[i], power(a, Len(p) - i))])

(***************************************************************************)
(* decode: the bytes of a block, the last twoS of them for correction.     *)
(***************************************************************************)
(* r divided by d: the quotient, added to q, and the rest.                 *)
RECURSIVE Divided(_, _, _)
Divided(r, d, q) ==
    IF degree(r) < degree(d) \/ isZero(r) THEN [q |-> q, r |-> r]
    ELSE LET diff == degree(r) - degree(d)
             scale == multiply(r[1], inverse(d[1]))
         IN Divided(addOrSubtract(r, multiplyByMonomial(d, diff, scale)), d,
                    addOrSubtract(q, buildMonomial(diff, scale)))

RECURSIVE Euclid(_, _, _, _, _)
Euclid(rLast, r, tLast, t, R) ==
    IF 2 * degree(r) < R THEN [found |-> TRUE, t |-> t, r |-> r]
    ELSE IF isZero(r) THEN [found |-> FALSE]
    ELSE LET step == Divided(rLast, r, <<0>>)
         IN IF degree(step.r) >= degree(r) THEN [found |-> FALSE]
            ELSE Euclid(r, step.r, t, addOrSubtract(multiplyPoly(step.q, t), tLast), R)
Scaled(end) ==
    LET scale == inverse(getCoefficient(end.t, 0))
    IN IF ~end.found \/ getCoefficient(end.t, 0) = 0 THEN [found |-> FALSE]
       ELSE [found |-> TRUE, locator |-> multiplyBy(end.t, scale),
             evaluator |-> multiplyBy(end.r, scale)]
runEuclideanAlgorithm(a, b, R) == Scaled(Euclid(a, b, <<0>>, <<1>>, R))

(* Chien's search, in the order of the roots.                              *)
Roots(locator) == SelectSeq([i \in 1..255 |-> i], LAMBDA i : evaluateAt(locator, i) = 0)
Inverses(roots, count) ==
    IF Len(roots) = count THEN [i \in DOMAIN roots |-> inverse(roots[i])] ELSE <<0>>
findErrorLocations(locator) ==
    IF degree(locator) = 1 THEN <<getCoefficient(locator, 1)>>
    ELSE Inverses(Roots(locator), degree(locator))

(* Forney's formula.                                                       *)
RECURSIVE Product(_)
Product(s) == IF s = <<>> THEN 1 ELSE multiply(Head(s), Product(Tail(s)))
findErrorMagnitude(evaluator, locations, i) ==
    LET x == inverse(locations[i])
        factor(j) == IF j = i THEN 1 ELSE addOrSubtractGF(1, multiply(locations[j], x))
    IN multiply(evaluateAt(evaluator, x), inverse(Product([j \in DOMAIN locations |-> factor(j)])))

Syndromes(bytes, twoS) == [i \in 1..twoS |-> evaluateAt(bytes, exp(twoS - i))]
Corrected(bytes, locations, evaluator) ==
    LET place(i) == Len(bytes) - log(locations[i])
        hit(k) == {i \in DOMAIN locations : place(i) = k}
        error(k) == XorAll([i \in hit(k) |-> findErrorMagnitude(evaluator, locations, i)])
    IN IF locations = <<0>> THEN Failure
       ELSE IF \E i \in DOMAIN locations : place(i) < 1 THEN Failure
       ELSE [k \in DOMAIN bytes |-> addOrSubtractGF(bytes[k], error(k))]
CorrectedBy(bytes, so) ==
    IF ~so.found THEN Failure
    ELSE Corrected(bytes, findErrorLocations(so.locator), so.evaluator)
CorrectedFrom(bytes, syndrome, twoS) ==
    IF \A i \in 1..twoS : syndrome[i] = 0 THEN bytes
    ELSE CorrectedBy(bytes, runEuclideanAlgorithm(buildMonomial(twoS, 1), Poly(syndrome), twoS))
correct(bytes, twoS) == CorrectedFrom(bytes, Syndromes(bytes, twoS), twoS)
=============================================================================
