--------------------------- MODULE PageListsProofs ---------------------------
(***************************************************************************)
(* Theorems about the lists in PageLists, for any lines, servers and       *)
(* connections and any number of them: at every moment each shows what it  *)
(* would show if it were built anew.  The first part says what the lists   *)
(* of Enumeration are: sorted, filtered and joined without a repetition.   *)
(***************************************************************************)
EXTENDS PageLists, Enumeration, Naturals, SequenceTheorems, FiniteSetTheorems, TLAPS

(***************************************************************************)
(* Lists made of sets and of other lists.                                  *)
(***************************************************************************)
Rises(f, n, order) == \A i, j \in 1..n : i < j => <<f[i], f[j]>> \in order
Reaches(f, n, S) == \A x \in S : \E k \in 1..n : f[k] = x

(* Whatever runs through a set in its order does so without a repetition,  *)
(* each member at the place after those before it: there is one such list. *)
LEMMA RankedUnique ==
    ASSUME NEW S, NEW order, StrictlyOrders(order, S),
           NEW n \in Nat, NEW f \in [1..n -> S], Rises(f, n, order), Reaches(f, n, S)
    PROVE  Cardinality(S) = n /\ IsFiniteSet(S) /\ Ranked(S, order) = f
<1>1. \A i, j \in 1..n : f[i] = f[j] => i = j
  <2> SUFFICES ASSUME NEW i \in 1..n, NEW j \in 1..n, f[i] = f[j], i < j PROVE FALSE
    OBVIOUS
  <2>1. <<f[i], f[j]>> \in order /\ <<f[j], f[i]>> \in order
    BY DEF Rises
  <2> QED
    BY <2>1 DEF StrictlyOrders
<1>2. f \in Bijection(1..n, S)
  BY <1>1 DEF Bijection, Injection, Surjection, IsInjective, Reaches
<1>3. Cardinality(S) = n
  BY <1>2, FS_CountingElements DEF ExistsBijection
<1>4. IsFiniteSet(S)
  BY <1>2, FS_NatBijection DEF ExistsBijection
<1>5. ASSUME NEW k \in 1..n PROVE Cardinality(Below(f[k], S, order)) = k - 1
  <2>1. \A j \in 1..n : <<f[j], f[k]>> \in order <=> j < k
    <3>1. ASSUME NEW j \in 1..n, k < j PROVE <<f[j], f[k]>> \notin order
      <4>1. <<f[k], f[j]>> \in order
        BY <3>1 DEF Rises
      <4> QED
        BY <4>1 DEF StrictlyOrders
    <3>2. <<f[k], f[k]>> \notin order
      BY DEF StrictlyOrders
    <3>3. ASSUME NEW j \in 1..n, j < k PROVE <<f[j], f[k]>> \in order
      BY <3>3 DEF Rises
    <3> QED
      BY <3>1, <3>2, <3>3
  <2>2. DEFINE g == [j \in 1..(k - 1) |-> f[j]]
  <2>3. g \in Bijection(1..(k - 1), Below(f[k], S, order))
    <3>1. g \in [1..(k - 1) -> Below(f[k], S, order)]
      BY <2>1 DEF Below
    <3>2. \A i, j \in 1..(k - 1) : g[i] = g[j] => i = j
      BY <1>1
    <3>3. ASSUME NEW x \in Below(f[k], S, order) PROVE \E j \in 1..(k - 1) : g[j] = x
      <4>1. PICK j \in 1..n : f[j] = x
        BY DEF Reaches, Below
      <4> QED
        BY <4>1, <2>1 DEF Below
    <3> QED
      BY <3>1, <3>2, <3>3 DEF Bijection, Injection, Surjection, IsInjective
  <2> HIDE DEF g
  <2>4. k - 1 \in Nat
    OBVIOUS
  <2> QED
    BY <2>3, <2>4, FS_CountingElements DEF ExistsBijection
<1>6. ASSUME NEW k \in 1..n PROVE f[k] = CHOOSE x \in S : Cardinality(Below(x, S, order)) = k - 1
  <2>1. \A x \in S : Cardinality(Below(x, S, order)) = k - 1 => x = f[k]
    <3> TAKE x \in S
    <3>1. PICK j \in 1..n : f[j] = x
      BY DEF Reaches
    <3>2. Cardinality(Below(x, S, order)) = j - 1
      BY <3>1, <1>5
    <3> QED
      BY <3>1, <3>2
  <2> QED
    BY <2>1, <1>5
<1>7. Ranked(S, order) = [k \in 1..n |-> f[k]]
  BY <1>3, <1>6 DEF Ranked
<1> QED
  BY <1>3, <1>4, <1>7

(* A finite set can be run through in its order.                           *)
LEMMA RankedProperties ==
    ASSUME NEW S, IsFiniteSet(S), NEW order, StrictlyOrders(order, S)
    PROVE  /\ Cardinality(S) \in Nat /\ Ranked(S, order) \in [1..Cardinality(S) -> S]
           /\ Rises(Ranked(S, order), Cardinality(S), order)
           /\ Reaches(Ranked(S, order), Cardinality(S), S)
<1> DEFINE n == Cardinality(S)
           rank == [x \in S |-> Cardinality(Below(x, S, order)) + 1]
<1>1. n \in Nat
  BY FS_CardinalityType
<1>2. \A x \in S : IsFiniteSet(Below(x, S, order)) /\ Cardinality(Below(x, S, order)) \in Nat
  BY FS_Subset, FS_CardinalityType DEF Below
<1>3. ASSUME NEW x \in S PROVE Cardinality(Below(x, S, order)) < n
  <2>1. Below(x, S, order) \in SUBSET S /\ x \notin Below(x, S, order)
    BY DEF Below, StrictlyOrders
  <2>2. /\ Cardinality(Below(x, S, order)) <= n
        /\ n = Cardinality(Below(x, S, order)) => S = Below(x, S, order)
    BY <2>1, FS_Subset
  <2> QED
    BY <1>1, <1>2, <2>1, <2>2
<1>4. ASSUME NEW x \in S, NEW y \in S, <<x, y>> \in order
      PROVE  Cardinality(Below(x, S, order)) < Cardinality(Below(y, S, order))
  <2>1. Below(x, S, order) \in SUBSET Below(y, S, order)
    <3> SUFFICES ASSUME NEW z \in S, <<z, x>> \in order PROVE <<z, y>> \in order
      BY DEF Below
    <3> QED
      BY <1>4 DEF StrictlyOrders
  <2>2. x \in Below(y, S, order) /\ x \notin Below(x, S, order)
    BY <1>4 DEF Below, StrictlyOrders
  <2>3. /\ Cardinality(Below(x, S, order)) <= Cardinality(Below(y, S, order))
        /\ Cardinality(Below(y, S, order)) = Cardinality(Below(x, S, order)) =>
              Below(y, S, order) = Below(x, S, order)
    BY <1>2, <2>1, FS_Subset
  <2> QED
    BY <1>2, <2>2, <2>3
<1>5. \A x, y \in S : Cardinality(Below(x, S, order)) = Cardinality(Below(y, S, order)) => x = y
  <2> SUFFICES ASSUME NEW x \in S, NEW y \in S, x # y
               PROVE  Cardinality(Below(x, S, order)) # Cardinality(Below(y, S, order))
    OBVIOUS
  <2>1. <<x, y>> \in order \/ <<y, x>> \in order
    BY DEF StrictlyOrders
  <2> QED
    BY <1>2, <1>4, <2>1
<1>6. rank \in [S -> 1..n] /\ \A x, y \in S : rank[x] = rank[y] => x = y
  <2>1. rank \in [S -> 1..n]
    BY <1>1, <1>2, <1>3
  <2>2. \A x, y \in S : rank[x] = rank[y] => x = y
    BY <1>2, <1>5
  <2> QED
    BY <2>1, <2>2
<1> HIDE DEF rank
<1>7. rank \in Injection(S, 1..n)
  BY <1>6 DEF Injection, IsInjective
<1>8. IsFiniteSet(1..n) /\ Cardinality(1..n) = n
  BY <1>1, FS_Interval
<1>9. rank \in Surjection(S, 1..n)
  BY <1>7, <1>8, FS_Injection
<1>10. ASSUME NEW k \in 1..n PROVE \E x \in S : Cardinality(Below(x, S, order)) = k - 1
  <2>1. PICK x \in S : rank[x] = k
    BY <1>9 DEF Surjection
  <2> QED
    BY <2>1, <1>2 DEF rank
<1>11. \A k \in 1..n : /\ Ranked(S, order)[k] \in S
                       /\ Cardinality(Below(Ranked(S, order)[k], S, order)) = k - 1
  BY <1>10 DEF Ranked
<1>12. Ranked(S, order) \in [1..n -> S]
  <2>1. Ranked(S, order) = [k \in 1..n |-> Ranked(S, order)[k]]
    BY DEF Ranked
  <2> QED
    BY <1>11, <2>1
<1>13. Rises(Ranked(S, order), n, order)
  <2> SUFFICES ASSUME NEW i \in 1..n, NEW j \in 1..n, i < j
               PROVE  <<Ranked(S, order)[i], Ranked(S, order)[j]>> \in order
    BY DEF Rises
  <2> DEFINE x == Ranked(S, order)[i]
             y == Ranked(S, order)[j]
  <2>1. x \in S /\ y \in S /\ Cardinality(Below(x, S, order)) = i - 1
        /\ Cardinality(Below(y, S, order)) = j - 1
    BY <1>11
  <2> HIDE DEF x, y
  <2>2. x # y /\ ~(Cardinality(Below(y, S, order)) < Cardinality(Below(x, S, order)))
    BY <1>1, <2>1
  <2>3. <<x, y>> \in order
    BY <1>4, <2>1, <2>2 DEF StrictlyOrders
  <2> QED
    BY <2>3 DEF x, y
<1>14. Reaches(Ranked(S, order), n, S)
  <2> SUFFICES ASSUME NEW x \in S PROVE \E k \in 1..n : Ranked(S, order)[k] = x
    BY DEF Reaches
  <2>1. rank[x] \in 1..n /\ rank[x] - 1 = Cardinality(Below(x, S, order))
    BY <1>2, <1>6 DEF rank
  <2>2. Ranked(S, order)[rank[x]] = x
    BY <1>5, <1>11, <2>1
  <2> QED
    BY <2>1, <2>2
<1> QED
  BY <1>1, <1>12, <1>13, <1>14

(* The entries picked are those at the places, in their order.             *)
Climbs(f, n) == \A i, j \in 1..n : i < j => f[i] < f[j]

LEMMA UpwardsOrders ==
    ASSUME NEW places \in SUBSET Int PROVE StrictlyOrders(Upwards(places), places)
<1>1. \A x, y \in places : <<x, y>> \in Upwards(places) <=> x < y
  BY DEF Upwards
<1>2. \A x \in places : x \in Int
  OBVIOUS
<1>3. ASSUME NEW x \in places, NEW y \in places
      PROVE  /\ x # y => <<x, y>> \in Upwards(places) \/ <<y, x>> \in Upwards(places)
             /\ <<x, y>> \in Upwards(places) => <<y, x>> \notin Upwards(places)
  BY <1>1, <1>2
<1>4. ASSUME NEW x \in places, NEW y \in places, NEW z \in places,
             <<x, y>> \in Upwards(places), <<y, z>> \in Upwards(places)
      PROVE  <<x, z>> \in Upwards(places)
  <2>1. x < y /\ y < z /\ x \in Int /\ y \in Int /\ z \in Int
    BY <1>1, <1>2, <1>4
  <2> QED
    BY <1>1, <2>1
<1> QED
  BY <1>3, <1>4 DEF StrictlyOrders

LEMMA PickedIs ==
    ASSUME NEW places \in SUBSET Int, NEW list, NEW n \in Nat, NEW f \in [1..n -> places],
           Climbs(f, n), Reaches(f, n, places)
    PROVE  Picked(list, places) = [k \in 1..n |-> list[f[k]]] /\ Cardinality(places) = n
<1>1. Rises(f, n, Upwards(places))
  BY DEF Rises, Climbs, Upwards
<1>2. Ranked(places, Upwards(places)) = f /\ Cardinality(places) = n
  BY <1>1, UpwardsOrders, RankedUnique
<1> QED
  BY <1>2 DEF Picked

Place(places) == Ranked(places, Upwards(places))
LEMMA PickedBy ==
    ASSUME NEW places \in SUBSET Int, IsFiniteSet(places)
    PROVE  LET n == Cardinality(places)
           IN  /\ n \in Nat /\ Place(places) \in [1..n -> places]
               /\ Climbs(Place(places), n) /\ Reaches(Place(places), n, places)
               /\ \A list : Picked(list, places) = [k \in 1..n |-> list[Place(places)[k]]]
<1> DEFINE n == Cardinality(places)
           f == Place(places)
<1>1. /\ n \in Nat /\ f \in [1..n -> places] /\ Rises(f, n, Upwards(places))
      /\ Reaches(f, n, places)
  BY UpwardsOrders, RankedProperties DEF Place
<1>2. \A list : Picked(list, places) = [k \in 1..n |-> list[f[k]]]
  BY DEF Picked, Place
<1> HIDE DEF n, f
<1>3. Climbs(f, n)
  BY <1>1 DEF Rises, Climbs, Upwards
<1> QED
  BY <1>1, <1>2, <1>3 DEF n, f

LEMMA PlacesAreFinite ==
    ASSUME NEW T, NEW list \in Seq(T), NEW places \in SUBSET DOMAIN list
    PROVE  /\ places \in SUBSET Int /\ IsFiniteSet(places) /\ Cardinality(places) \in Nat
           /\ Cardinality(places) <= Len(list)
<1>1. DOMAIN list = 1..Len(list) /\ Len(list) \in Nat
  BY LenProperties
<1> DEFINE n == Len(list)
<1>2. IsFiniteSet(1..n) /\ Cardinality(1..n) = n
  <2>1. 1 \in Int /\ n \in Int /\ n \in Nat
    BY <1>1
  <2> HIDE DEF n
  <2> QED
    BY <2>1, FS_Interval
<1> QED
  BY <1>1, <1>2, FS_Subset, FS_CardinalityType

LEMMA PickedProperties ==
    ASSUME NEW T, NEW list \in Seq(T), NEW places \in SUBSET DOMAIN list
    PROVE  LET some == Picked(list, places)
           IN  /\ some \in Seq(T) /\ Len(some) = Cardinality(places) /\ Len(some) <= Len(list)
               /\ \A k \in DOMAIN some : \E i \in places : some[k] = list[i]
               /\ \A i \in places : \E k \in DOMAIN some : some[k] = list[i]
<1>1. /\ places \in SUBSET Int /\ IsFiniteSet(places) /\ Cardinality(places) <= Len(list)
      /\ DOMAIN list = 1..Len(list) /\ list \in [1..Len(list) -> T]
  BY PlacesAreFinite, LenProperties
<1> DEFINE n == Cardinality(places)
           f == Place(places)
<1>3. /\ n \in Nat /\ f \in [1..n -> places] /\ Climbs(f, n) /\ Reaches(f, n, places)
      /\ Picked(list, places) = [k \in 1..n |-> list[f[k]]]
  BY <1>1, PickedBy
<1> HIDE DEF n, f
<1>4. Picked(list, places) \in [1..n -> T]
  BY <1>1, <1>3
<1>5. Picked(list, places) \in Seq(T) /\ Len(Picked(list, places)) = n
      /\ DOMAIN Picked(list, places) = 1..n
  <2>1. \A w, p : p \in Nat /\ w \in [1..p -> T] => w \in Seq(T) /\ Len(w) = p /\ DOMAIN w = 1..p
    BY SeqDef
  <2> QED
    BY <1>3, <1>4, <2>1
<1>6. \A k \in 1..n : Picked(list, places)[k] = list[f[k]] /\ f[k] \in places
  BY <1>3
<1>7. \A i \in places : \E k \in 1..n : f[k] = i
  BY <1>3 DEF Reaches
<1>8. Len(Picked(list, places)) <= Len(list) /\ n = Cardinality(places)
  BY <1>1, <1>5 DEF n
<1> DEFINE some == Picked(list, places)
<1>9. some \in Seq(T) /\ Len(some) = Cardinality(places) /\ Len(some) <= Len(list)
  BY <1>5, <1>8
<1>10. \A k \in DOMAIN some : \E i \in places : some[k] = list[i]
  BY <1>5, <1>6
<1>11. \A i \in places : \E k \in DOMAIN some : some[k] = list[i]
  <2> SUFFICES ASSUME NEW i \in places PROVE \E k \in DOMAIN some : some[k] = list[i]
    OBVIOUS
  <2>1. PICK k \in 1..n : f[k] = i
    BY <1>7
  <2> QED
    BY <1>5, <1>6, <2>1
<1> HIDE DEF some
<1> QED
  BY <1>9, <1>10, <1>11 DEF some

LEMMA PickedAll ==
    ASSUME NEW T, NEW list \in Seq(T) PROVE Picked(list, DOMAIN list) = list
<1> DEFINE n == Len(list)
           f == [k \in 1..n |-> k]
<1>1. n \in Nat /\ DOMAIN list = 1..n /\ list \in [1..n -> T]
  BY LenProperties
<1>2. f \in [1..n -> DOMAIN list] /\ Climbs(f, n) /\ Reaches(f, n, DOMAIN list)
      /\ DOMAIN list \in SUBSET Int
  BY <1>1 DEF Climbs, Reaches
<1>3. list = [k \in 1..n |-> list[f[k]]]
  BY <1>1
<1> HIDE DEF n, f
<1> QED
  BY <1>1, <1>2, <1>3, PickedIs

LEMMA PickedNone == \A list : Picked(list, {}) = <<>>
<1> TAKE list
<1>1. Cardinality({}) = 0
  BY FS_EmptySet
<1>2. Picked(list, {}) = [k \in 1..0 |-> list[Ranked({}, Upwards({}))[k]]]
  BY <1>1 DEF Picked
<1> QED
  BY <1>2

(* Of two lists one behind the other, those of the first and then those of *)
(* the second are picked.                                                  *)
Splits(s, t, I, J, K) ==
    /\ I \in SUBSET DOMAIN s /\ J \in SUBSET DOMAIN t /\ K \in SUBSET DOMAIN (s \o t)
    /\ \A i \in DOMAIN s : i \in K <=> i \in I
    /\ \A j \in DOMAIN t : Len(s) + j \in K <=> j \in J
LEMMA PickedConcat ==
    ASSUME NEW T, NEW s \in Seq(T), NEW t \in Seq(T), NEW I, NEW J, NEW K,
           Splits(s, t, I, J, K)
    PROVE  Picked(s \o t, K) = Picked(s, I) \o Picked(t, J)
<1> SUFFICES ASSUME I \in SUBSET DOMAIN s, J \in SUBSET DOMAIN t, K \in SUBSET DOMAIN (s \o t),
                    \A i \in DOMAIN s : i \in K <=> i \in I,
                    \A j \in DOMAIN t : Len(s) + j \in K <=> j \in J
             PROVE  Picked(s \o t, K) = Picked(s, I) \o Picked(t, J)
  BY DEF Splits
<1> DEFINE a == Len(s)
           b == Len(t)
<1>1. /\ a \in Nat /\ b \in Nat /\ DOMAIN s = 1..a /\ DOMAIN t = 1..b
      /\ s \in [1..a -> T] /\ t \in [1..b -> T]
  BY LenProperties
<1>2. /\ s \o t \in Seq(T) /\ DOMAIN (s \o t) = 1..(a + b)
      /\ \A i \in 1..(a + b) : (s \o t)[i] = IF i <= a THEN s[i] ELSE t[i - a]
  BY <1>1, ConcatProperties, LenProperties
<1> DEFINE m == Cardinality(I)
           f == Place(I)
           n == Cardinality(J)
           g == Place(J)
<1>3. I \in SUBSET Int /\ IsFiniteSet(I) /\ J \in SUBSET Int /\ IsFiniteSet(J)
  BY PlacesAreFinite
<1>4. /\ m \in Nat /\ f \in [1..m -> I] /\ Climbs(f, m) /\ Reaches(f, m, I)
      /\ Picked(s, I) = [k \in 1..m |-> s[f[k]]]
  BY <1>3, PickedBy
<1>6. /\ n \in Nat /\ g \in [1..n -> J] /\ Climbs(g, n) /\ Reaches(g, n, J)
      /\ Picked(t, J) = [k \in 1..n |-> t[g[k]]]
  BY <1>3, PickedBy
<1>5. /\ Picked(s, I) \in Seq(T) /\ Len(Picked(s, I)) = m
      /\ Picked(t, J) \in Seq(T) /\ Len(Picked(t, J)) = n
  BY PickedProperties
<1> HIDE DEF m, f, n, g
<1> HIDE DEF a, b
<1> DEFINE h == [k \in 1..(m + n) |-> IF k <= m THEN f[k] ELSE a + g[k - m]]
<1>7. \A k \in 1..(m + n) : /\ k <= m => h[k] = f[k] /\ f[k] \in I /\ f[k] \in 1..a
                            /\ k > m => /\ h[k] = a + g[k - m] /\ k - m \in 1..n
                                        /\ g[k - m] \in J /\ g[k - m] \in 1..b
  <2>1. \A k \in 1..m : f[k] \in I /\ f[k] \in 1..a
    BY <1>1, <1>4
  <2>2. \A k \in 1..n : g[k] \in J /\ g[k] \in 1..b
    BY <1>1, <1>6
  <2>3. ASSUME NEW k \in 1..(m + n)
        PROVE  /\ k <= m => h[k] = f[k] /\ k \in 1..m
               /\ k > m => h[k] = a + g[k - m] /\ k - m \in 1..n
    BY <1>4, <1>6
  <2> QED
    BY <2>1, <2>2, <2>3
<1>70. \A k \in 1..(m + n) : k <= m \/ k > m
  BY <1>4, <1>6
<1> HIDE DEF h
<1>8. h \in [1..(m + n) -> K]
  <2> SUFFICES ASSUME NEW k \in 1..(m + n) PROVE h[k] \in K
    BY DEF h
  <2>1. CASE k <= m
    BY <1>1, <1>7, <2>1
  <2>2. CASE k > m
    BY <1>1, <1>7, <2>2 DEF a
  <2> QED
    BY <1>70, <2>1, <2>2
<1>9. Climbs(h, m + n)
  <2> SUFFICES ASSUME NEW i \in 1..(m + n), NEW j \in 1..(m + n), i < j PROVE h[i] < h[j]
    BY DEF Climbs
  <2>0. m \in Nat /\ n \in Nat /\ a \in Nat
    BY <1>1, <1>4, <1>6
  <2>1. CASE j <= m
    <3>1. i \in 1..m /\ j \in 1..m /\ i <= m
      BY <2>0, <2>1
    <3> QED
      BY <1>4, <1>7, <2>1, <3>1 DEF Climbs
  <2>2. CASE i <= m /\ j > m
    <3>1. h[i] \in 1..a
      BY <1>7, <2>2
    <3>2. \E x \in 1..b : h[j] = a + x
      BY <1>7, <2>2
    <3> QED
      BY <2>0, <1>1, <3>1, <3>2
  <2>3. CASE i > m
    <3>1. i - m \in 1..n /\ j - m \in 1..n /\ i - m < j - m /\ j > m
      BY <2>0, <2>3
    <3>2. g[i - m] < g[j - m] /\ g[i - m] \in 1..b /\ g[j - m] \in 1..b
      BY <1>6, <1>7, <2>3, <3>1 DEF Climbs
    <3>3. h[i] = a + g[i - m] /\ h[j] = a + g[j - m]
      BY <1>7, <2>3, <3>1
    <3>4. \A x, y \in 1..b : x < y => a + x < a + y
      BY <2>0, <1>1
    <3> QED
      BY <3>2, <3>3, <3>4
  <2> QED
    BY <2>0, <2>1, <2>2, <2>3
<1>10. Reaches(h, m + n, K)
  <2> SUFFICES ASSUME NEW i \in K PROVE \E k \in 1..(m + n) : h[k] = i
    BY DEF Reaches
  <2>1. i \in 1..(a + b)
    BY <1>2
  <2>2. CASE i <= a
    <3>1. i \in I
      BY <1>1, <2>1, <2>2
    <3>2. PICK k \in 1..m : f[k] = i
      BY <1>4, <3>1 DEF Reaches
    <3>3. k \in 1..(m + n) /\ k <= m
      BY <1>4, <1>6, <3>2
    <3> QED
      BY <1>7, <3>2, <3>3
  <2>3. CASE i > a
    <3>1. i - a \in 1..b /\ i = a + (i - a)
      BY <1>1, <2>1, <2>3
    <3>2. i - a \in J
      BY <1>1, <3>1 DEF a
    <3>3. PICK k \in 1..n : g[k] = i - a
      BY <1>6, <3>2 DEF Reaches
    <3>4. m + k \in 1..(m + n) /\ m + k > m /\ (m + k) - m = k
      BY <1>4, <1>6, <3>3
    <3> QED
      BY <1>7, <3>1, <3>3, <3>4
  <2> QED
    BY <1>1, <2>1, <2>2, <2>3
<1> HIDE DEF h
<1>11. m + n \in Nat /\ K \in SUBSET Int
  BY <1>2, <1>4, <1>6
<1>12. Picked(s \o t, K) = [k \in 1..(m + n) |-> (s \o t)[h[k]]]
  <2> DEFINE many == s \o t
             some == m + n
  <2>1. /\ some \in Nat /\ K \in SUBSET Int /\ h \in [1..some -> K]
        /\ Climbs(h, some) /\ Reaches(h, some, K)
    BY <1>8, <1>9, <1>10, <1>11
  <2> HIDE DEF many, some
  <2>2. Picked(many, K) = [k \in 1..some |-> many[h[k]]]
    BY <2>1, PickedIs
  <2> QED
    BY <2>2 DEF many, some
<1>13. ASSUME NEW k \in 1..(m + n)
       PROVE  (s \o t)[h[k]] = IF k <= m THEN s[f[k]] ELSE t[g[k - m]]
  <2>1. CASE k <= m
    <3>1. h[k] = f[k] /\ f[k] \in 1..a
      BY <1>7, <2>1
    <3>2. f[k] \in 1..(a + b) /\ f[k] <= a
      BY <1>1, <3>1
    <3> QED
      BY <1>2, <2>1, <3>1, <3>2
  <2>2. CASE k > m
    <3>1. h[k] = a + g[k - m] /\ g[k - m] \in 1..b
      BY <1>7, <2>2
    <3>2. a + g[k - m] \in 1..(a + b) /\ ~(a + g[k - m] <= a)
          /\ (a + g[k - m]) - a = g[k - m]
      BY <1>1, <3>1
    <3>3. ~(k <= m)
      BY <1>4, <1>6, <2>2
    <3> QED
      BY <1>2, <3>1, <3>2, <3>3
  <2> QED
    BY <1>70, <2>1, <2>2
<1>15. /\ Picked(s, I) \o Picked(t, J) \in Seq(T)
       /\ Len(Picked(s, I) \o Picked(t, J)) = m + n
       /\ \A k \in 1..(m + n) : (Picked(s, I) \o Picked(t, J))[k] =
             IF k <= m THEN Picked(s, I)[k] ELSE Picked(t, J)[k - m]
  BY <1>5, ConcatProperties
<1>16. \A k \in 1..(m + n) : (Picked(s, I) \o Picked(t, J))[k] = (s \o t)[h[k]]
  <2> TAKE k \in 1..(m + n)
  <2>1. CASE k <= m
    <3>1. Picked(s, I)[k] = s[f[k]]
      BY <1>4, <2>1
    <3> QED
      BY <1>13, <1>15, <2>1, <3>1
  <2>2. CASE k > m
    <3>1. Picked(t, J)[k - m] = t[g[k - m]]
      BY <1>6, <1>7, <2>2
    <3>2. ~(k <= m)
      BY <1>4, <1>6, <2>2
    <3> QED
      BY <1>13, <1>15, <3>1, <3>2
  <2> QED
    BY <1>70, <2>1, <2>2
<1>17. Picked(s \o t, K) \in Seq(T) /\ Len(Picked(s \o t, K)) = m + n
       /\ \A k \in 1..(m + n) : Picked(s \o t, K)[k] = (s \o t)[h[k]]
  <2>1. \A k \in 1..(m + n) : (s \o t)[h[k]] \in T
    <3>1. \A i \in 1..(a + b) : (s \o t)[i] \in T
      BY <1>2, ElementOfSeq, ConcatProperties DEF a, b
    <3> QED
      BY <1>2, <1>8, <3>1
  <2>2. Picked(s \o t, K) \in [1..(m + n) -> T]
    BY <1>12, <2>1
  <2>3. \A w, p : p \in Nat /\ w \in [1..p -> T] => w \in Seq(T) /\ Len(w) = p
    BY SeqDef
  <2> QED
    BY <1>11, <1>12, <2>2, <2>3
<1> DEFINE left == Picked(s \o t, K)
           right == Picked(s, I) \o Picked(t, J)
<1>18. left \in Seq(T) /\ right \in Seq(T) /\ Len(left) = m + n /\ Len(right) = m + n
       /\ \A k \in 1..(m + n) : left[k] = right[k]
  BY <1>15, <1>16, <1>17
<1> HIDE DEF left, right
<1>19. left = right
  BY <1>18, SeqEqual
<1> QED
  BY <1>19 DEF left, right

(***************************************************************************)
(* The log.                                                                *)
(***************************************************************************)
LEMMA LogPicked == \A list, places : Log!Picked(list, places) = Picked(list, places)
BY Zenon DEF Log!Picked, Picked, Log!Ranked, Ranked, Log!Below, Below, Log!Upwards, Upwards,
   Log!Cardinality, Cardinality

(* One list stands at the end of the other.                                *)
Ends(s, t) == Len(s) <= Len(t) /\ \A i \in 1..Len(s) : s[i] = t[Len(t) - Len(s) + i]

LEMMA EndsConcat ==
    ASSUME NEW T, NEW s \in Seq(T), NEW t \in Seq(T) PROVE Ends(t, s \o t)
<1>1. Len(s) \in Nat /\ Len(t) \in Nat
  BY LenProperties
<1>2. /\ Len(s \o t) = Len(s) + Len(t)
      /\ \A i \in 1..(Len(s) + Len(t)) : (s \o t)[i] = IF i <= Len(s) THEN s[i] ELSE t[i - Len(s)]
  BY ConcatProperties
<1>3. ASSUME NEW i \in 1..Len(t) PROVE t[i] = (s \o t)[Len(s \o t) - Len(t) + i]
  <2>1. Len(s \o t) - Len(t) + i = Len(s) + i /\ Len(s) + i \in 1..(Len(s) + Len(t))
        /\ ~(Len(s) + i <= Len(s)) /\ (Len(s) + i) - Len(s) = i
    BY <1>1, <1>2
  <2> QED
    BY <1>2, <2>1
<1> QED
  BY <1>1, <1>2, <1>3 DEF Ends

LEMMA EndsTrans ==
    ASSUME NEW T, NEW r \in Seq(T), NEW s \in Seq(T), NEW t \in Seq(T), Ends(r, s), Ends(s, t)
    PROVE  Ends(r, t)
<1>1. Len(r) \in Nat /\ Len(s) \in Nat /\ Len(t) \in Nat
  BY LenProperties
<1>2. ASSUME NEW i \in 1..Len(r) PROVE r[i] = t[Len(t) - Len(r) + i]
  <2> DEFINE j == Len(s) - Len(r) + i
  <2>1. r[i] = s[j] /\ j \in 1..Len(s) /\ Len(t) - Len(s) + j = Len(t) - Len(r) + i
    BY <1>1 DEF Ends
  <2> HIDE DEF j
  <2>2. s[j] = t[Len(t) - Len(s) + j]
    BY <2>1 DEF Ends
  <2> QED
    BY <2>1, <2>2
<1> QED
  BY <1>1, <1>2 DEF Ends

LEMMA EndsAppend ==
    ASSUME NEW T, NEW s \in Seq(T), NEW t \in Seq(T), NEW u \in Seq(T), Ends(s, t)
    PROVE  Ends(s \o u, t \o u)
<1> DEFINE a == Len(s)
           b == Len(t)
           c == Len(u)
<1>1. a \in Nat /\ b \in Nat /\ c \in Nat /\ a <= b
  BY LenProperties DEF Ends
<1>2. /\ Len(s \o u) = a + c
      /\ \A i \in 1..(a + c) : (s \o u)[i] = IF i <= a THEN s[i] ELSE u[i - a]
  BY ConcatProperties
<1>3. /\ Len(t \o u) = b + c
      /\ \A i \in 1..(b + c) : (t \o u)[i] = IF i <= b THEN t[i] ELSE u[i - b]
  BY ConcatProperties
<1>4. \A i \in 1..a : s[i] = t[b - a + i]
  BY DEF Ends
<1> HIDE DEF a, b, c
<1>5. ASSUME NEW i \in 1..(a + c) PROVE (s \o u)[i] = (t \o u)[(b + c) - (a + c) + i]
  <2> DEFINE j == b - a + i
  <2>1. (b + c) - (a + c) + i = j /\ j \in 1..(b + c) /\ i \in Nat
    BY <1>1
  <2>2. CASE i <= a
    <3>1. j <= b /\ i \in 1..a
      BY <1>1, <2>2
    <3> QED
      BY <1>2, <1>3, <1>4, <2>1, <2>2, <3>1
  <2>3. CASE ~(i <= a)
    <3>1. ~(j <= b) /\ j - b = i - a
      BY <1>1, <2>3
    <3> QED
      BY <1>2, <1>3, <2>1, <2>3, <3>1
  <2> QED
    BY <2>2, <2>3
<1> QED
  BY <1>1, <1>2, <1>3, <1>5 DEF Ends

LEMMA EndsIsSuffix ==
    ASSUME NEW T, NEW s \in Seq(T), NEW t \in Seq(T), Ends(s, t) PROVE Log!IsSuffix(s, t)
<1> DEFINE m == Len(s)
           n == Len(t)
           r == Log!Reverse(s)
           v == Log!Reverse(t)
<1>1. m \in Nat /\ n \in Nat /\ m <= n /\ s \in [1..m -> T] /\ t \in [1..n -> T]
  BY LenProperties DEF Ends
<1>2. r = [i \in 1..m |-> s[m - i + 1]] /\ v = [i \in 1..n |-> t[n - i + 1]]
  BY DEF Log!Reverse
<1>3. \A i \in 1..m : s[i] = t[n - m + i]
  BY DEF Ends
<1>4. r \in [1..m -> T] /\ v \in [1..n -> T]
  <2>1. \A i \in 1..m : m - i + 1 \in 1..m
    BY <1>1
  <2>2. \A i \in 1..n : n - i + 1 \in 1..n
    BY <1>1
  <2> HIDE DEF m, n
  <2> QED
    BY <1>1, <1>2, <2>1, <2>2
<1>5. r \in Seq(T) /\ Len(r) = m /\ v \in Seq(T) /\ Len(v) = n
  <2>1. \A w, p : p \in Nat /\ w \in [1..p -> T] => w \in Seq(T) /\ Len(w) = p
    BY SeqDef
  <2> QED
    BY <1>1, <1>4, <2>1
<1> HIDE DEF m, n
<1>6. ASSUME NEW i \in 1..m PROVE r[i] = v[i]
  <2>1. /\ m - i + 1 \in 1..m /\ i \in 1..n
        /\ n - m + (m - i + 1) = n - i + 1
    BY <1>1
  <2>2. r[i] = s[m - i + 1] /\ v[i] = t[n - i + 1]
    BY <1>2, <2>1
  <2> QED
    BY <1>3, <2>1, <2>2
<1> HIDE DEF r, v
<1> DEFINE x == SubSeq(r, 1, m)
           y == SubSeq(v, 1, m)
<1>7. \A i \in 1..m : r[i] \in T /\ v[i] \in T
  BY <1>1, <1>4
<1>8. /\ x \in Seq(T) /\ Len(x) = m /\ \A i \in 1..m : x[i] = r[i]
      /\ y \in Seq(T) /\ Len(y) = m /\ \A i \in 1..m : y[i] = v[i]
  <2>1. 1 \in Int /\ m \in Int /\ m - 1 + 1 = m /\ \A i \in 1..m : 1 + i - 1 = i
    BY <1>1
  <2>2. /\ x \in Seq(T) /\ Len(x) = (IF 1 <= m THEN m - 1 + 1 ELSE 0)
        /\ \A i \in 1..(m - 1 + 1) : x[i] = r[1 + i - 1]
    BY <1>7, <2>1, SubSeqProperties
  <2>3. /\ y \in Seq(T) /\ Len(y) = (IF 1 <= m THEN m - 1 + 1 ELSE 0)
        /\ \A i \in 1..(m - 1 + 1) : y[i] = v[1 + i - 1]
    BY <1>7, <2>1, SubSeqProperties
  <2> HIDE DEF x, y
  <2> QED
    BY <1>1, <2>1, <2>2, <2>3
<1> HIDE DEF x, y
<1>9. x = y
  BY <1>6, <1>8, SeqEqual
<1> QED
  BY <1>1, <1>5, <1>9 DEF Log!IsSuffix, Log!IsPrefix, x, y, r, v

LEMMA LogLimits == MAX_LOG_ENTRIES \in Nat /\ MAX_LOG_ENTRIES >= 1 /\ MaxLines \in Nat
BY PageListsAssumption DEF Log!LogViewAssumption

Match(list, f) == {i \in DOMAIN list : Log!logMatchesFilters(list[i], f)}
LEMMA MatchingIs == \A list, f : Log!Matching(list, f) = Picked(list, Match(list, f))
BY LogPicked DEF Log!Matching, Match

(* What matches are entries of the list, and all of them match.            *)
LEMMA MatchingType ==
    ASSUME NEW list \in Seq(Log!Lines), NEW f
    PROVE  /\ Log!Matching(list, f) \in Seq(Log!Lines)
           /\ Len(Log!Matching(list, f)) <= Len(list)
           /\ \A k \in DOMAIN Log!Matching(list, f) :
                 Log!logMatchesFilters(Log!Matching(list, f)[k], f)
<1>1. Match(list, f) \in SUBSET DOMAIN list
  BY DEF Match
<1>2. \A i \in Match(list, f) : Log!logMatchesFilters(list[i], f)
  BY DEF Match
<1> QED
  BY <1>1, <1>2, MatchingIs, PickedProperties

LEMMA MatchingConcat ==
    ASSUME NEW s \in Seq(Log!Lines), NEW t \in Seq(Log!Lines), NEW f
    PROVE  Log!Matching(s \o t, f) = Log!Matching(s, f) \o Log!Matching(t, f)
<1>1. /\ Match(s, f) \in SUBSET DOMAIN s /\ Match(t, f) \in SUBSET DOMAIN t
      /\ Match(s \o t, f) \in SUBSET DOMAIN (s \o t)
  BY DEF Match
<1>2. /\ Len(s) \in Nat /\ Len(t) \in Nat /\ DOMAIN s = 1..Len(s) /\ DOMAIN t = 1..Len(t)
      /\ DOMAIN (s \o t) = 1..(Len(s) + Len(t))
      /\ \A i \in 1..(Len(s) + Len(t)) : (s \o t)[i] = IF i <= Len(s) THEN s[i] ELSE t[i - Len(s)]
  BY ConcatProperties, LenProperties
<1>3. ASSUME NEW i \in DOMAIN s PROVE i \in Match(s \o t, f) <=> i \in Match(s, f)
  <2>1. i \in 1..(Len(s) + Len(t)) /\ i <= Len(s)
    BY <1>2
  <2> QED
    BY <1>2, <2>1 DEF Match
<1>4. ASSUME NEW j \in DOMAIN t PROVE Len(s) + j \in Match(s \o t, f) <=> j \in Match(t, f)
  <2>1. Len(s) + j \in 1..(Len(s) + Len(t)) /\ ~(Len(s) + j <= Len(s)) /\ (Len(s) + j) - Len(s) = j
    BY <1>2
  <2> QED
    BY <1>2, <2>1 DEF Match
<1>5. Picked(s \o t, Match(s \o t, f)) = Picked(s, Match(s, f)) \o Picked(t, Match(t, f))
  <2> DEFINE I == Match(s, f)
             J == Match(t, f)
             K == Match(s \o t, f)
  <2>1. Splits(s, t, I, J, K)
    BY <1>1, <1>3, <1>4 DEF Splits
  <2> HIDE DEF I, J, K
  <2>2. Picked(s \o t, K) = Picked(s, I) \o Picked(t, J)
    BY <2>1, PickedConcat
  <2> QED
    BY <2>2 DEF I, J, K
<1> QED
  BY <1>5, MatchingIs

LEMMA MatchingAll ==
    ASSUME NEW list \in Seq(Log!Lines), NEW f,
           \A i \in DOMAIN list : Log!logMatchesFilters(list[i], f)
    PROVE  Log!Matching(list, f) = list
<1>1. Match(list, f) = DOMAIN list
  BY DEF Match
<1> QED
  BY <1>1, MatchingIs, PickedAll

LEMMA MatchingEmpty == \A f : Log!Matching(<<>>, f) = <<>>
<1> TAKE f
<1>1. Match(<<>>, f) = {}
  BY DEF Match
<1> QED
  BY <1>1, MatchingIs, PickedNone

LEMMA Unfiltered ==
    ASSUME NEW list \in Seq(Log!Lines), NEW f \in Log!Filters, f.level = "ALL", ~f.search
    PROVE  Log!Matching(list, f) = list
BY MatchingAll DEF Log!logMatchesFilters

(* The last lines are at the end, and so is whatever short list is.        *)
LEMMA LastOfProperties ==
    ASSUME NEW list \in Seq(Log!Lines)
    PROVE  /\ Log!LastOf(list) \in Seq(Log!Lines) /\ Len(Log!LastOf(list)) <= MAX_LOG_ENTRIES
           /\ Ends(Log!LastOf(list), list)
           /\ \E before \in Seq(Log!Lines) : list = before \o Log!LastOf(list)
           /\ \A i \in DOMAIN Log!LastOf(list) : \E j \in DOMAIN list : Log!LastOf(list)[i] = list[j]
<1> DEFINE n == Len(list)
           m == n - MAX_LOG_ENTRIES
<1>0. n \in Nat /\ MAX_LOG_ENTRIES \in Nat /\ MAX_LOG_ENTRIES >= 1 /\ DOMAIN list = 1..n
      /\ \A i \in 1..n : list[i] \in Log!Lines
  BY LenProperties, LogLimits, ElementOfSeq
<1>1. CASE n <= MAX_LOG_ENTRIES
  <2>1. Log!LastOf(list) = list
    BY <1>0, <1>1 DEF Log!LastOf
  <2>2. Ends(list, list)
    BY <1>0 DEF Ends
  <2>3. <<>> \in Seq(Log!Lines) /\ list = <<>> \o list
    BY ConcatEmptySeq, EmptySeq
  <2> QED
    BY <1>1, <2>1, <2>2, <2>3
<1>2. CASE n > MAX_LOG_ENTRIES
  <2>1. Log!LastOf(list) = SubSeq(list, m + 1, n)
    BY <1>2 DEF Log!LastOf
  <2> DEFINE x == SubSeq(list, m + 1, n)
             w == SubSeq(list, 1, m)
  <2>2. m \in 1..n /\ m + 1 \in 1..n /\ n - (m + 1) + 1 = MAX_LOG_ENTRIES
        /\ m + 1 \in Int /\ n \in Int /\ m \in Int /\ 1 \in Int /\ m + 1 <= n
    BY <1>0, <1>2
  <2>3. x \in Seq(Log!Lines) /\ Len(x) = MAX_LOG_ENTRIES
        /\ \A i \in 1..MAX_LOG_ENTRIES : x[i] = list[m + 1 + i - 1]
    <3>1. \A i \in (m + 1)..n : list[i] \in Log!Lines
      BY <1>0, <2>2
    <3> QED
      BY <2>2, <3>1, SubSeqProperties
  <2>4. w \in Seq(Log!Lines)
    <3>1. \A i \in 1..m : list[i] \in Log!Lines
      BY <1>0, <2>2
    <3> QED
      BY <2>2, <3>1, SubSeqProperties
  <2>5. list = w \o x
    <3>1. 1 \in 1..(Len(list) + 1) /\ m \in (1 - 1)..Len(list) /\ n \in m..Len(list)
      BY <1>0, <2>2
    <3>2. SubSeq(list, 1, m) \o SubSeq(list, m + 1, n) = SubSeq(list, 1, n)
      BY <3>1, ConcatAdjacentSubSeq
    <3> QED
      BY <3>2, SubSeqFull
  <2> HIDE DEF x, w
  <2>6. Ends(x, list)
    BY <2>3, <2>4, <2>5, EndsConcat
  <2>7. \A i \in DOMAIN x : \E j \in DOMAIN list : x[i] = list[j]
    <3>1. DOMAIN x = 1..MAX_LOG_ENTRIES
      BY <2>3, LenProperties
    <3>2. \A i \in 1..MAX_LOG_ENTRIES : m + 1 + i - 1 \in 1..n
      BY <1>0, <2>2
    <3> QED
      BY <1>0, <2>3, <3>1, <3>2
  <2>8. Log!LastOf(list) = x
    BY <2>1 DEF x
  <2>9. Len(x) <= MAX_LOG_ENTRIES
    BY <1>0, <2>3
  <2>10. \E before \in Seq(Log!Lines) : list = before \o x
    BY <2>4, <2>5
  <2> QED
    BY <2>3, <2>6, <2>7, <2>8, <2>9, <2>10
<1>3. n <= MAX_LOG_ENTRIES \/ n > MAX_LOG_ENTRIES
  BY <1>0
<1> QED
  BY <1>1, <1>2, <1>3

LEMMA EndsLast ==
    ASSUME NEW s \in Seq(Log!Lines), NEW t \in Seq(Log!Lines), Ends(s, t), Len(s) <= MAX_LOG_ENTRIES
    PROVE  Ends(s, Log!LastOf(t))
<1> DEFINE x == Log!LastOf(t)
<1>1. x \in Seq(Log!Lines) /\ Ends(x, t)
  BY LastOfProperties
<1>2. Len(s) \in Nat /\ Len(t) \in Nat /\ Len(x) \in Nat /\ MAX_LOG_ENTRIES \in Nat
  BY <1>1, LenProperties, LogLimits
<1>3. Len(s) <= Len(x)
  <2>1. CASE Len(t) <= MAX_LOG_ENTRIES
    <3>1. x = t
      BY <1>2, <2>1 DEF Log!LastOf
    <3> QED
      BY <3>1 DEF Ends
  <2>2. CASE Len(t) > MAX_LOG_ENTRIES
    <3>1. x = SubSeq(t, Len(t) - MAX_LOG_ENTRIES + 1, Len(t))
      BY <2>2 DEF Log!LastOf
    <3>2. Len(x) = MAX_LOG_ENTRIES
      <4> DEFINE n == Len(t)
                 m == n - MAX_LOG_ENTRIES + 1
      <4>1. m \in Int /\ n \in Int /\ m <= n /\ n - m + 1 = MAX_LOG_ENTRIES
        BY <1>2, <2>2, LogLimits
      <4>2. \A i \in m..n : t[i] \in Log!Lines
        <5>1. \A i \in 1..n : t[i] \in Log!Lines
          BY ElementOfSeq
        <5>2. \A i \in m..n : i \in 1..n
          BY <1>2, <2>2
        <5> QED
          BY <5>1, <5>2
      <4>3. Len(SubSeq(t, m, n)) = IF m <= n THEN n - m + 1 ELSE 0
        <5> HIDE DEF m, n
        <5> QED
          BY <4>1, <4>2, SubSeqProperties
      <4> QED
        BY <3>1, <4>1, <4>3
    <3> QED
      BY <3>2
  <2> QED
    BY <1>2, <2>1, <2>2
<1>4. ASSUME NEW i \in 1..Len(s) PROVE s[i] = x[Len(x) - Len(s) + i]
  <2> DEFINE j == Len(x) - Len(s) + i
  <2>1. j \in 1..Len(x) /\ Len(t) - Len(x) + j = Len(t) - Len(s) + i
    BY <1>2, <1>3
  <2> HIDE DEF j
  <2>2. x[j] = t[Len(t) - Len(x) + j] /\ s[i] = t[Len(t) - Len(s) + i]
    BY <1>1, <2>1 DEF Ends
  <2> QED
    BY <2>1, <2>2 DEF j
<1> QED
  BY <1>3, <1>4 DEF Ends

LEMMA MatchingLast ==
    ASSUME NEW list \in Seq(Log!Lines), NEW f
    PROVE  Ends(Log!Matching(Log!LastOf(list), f), Log!Matching(list, f))
<1> DEFINE x == Log!LastOf(list)
<1>1. x \in Seq(Log!Lines) /\ \E before \in Seq(Log!Lines) : list = before \o x
  BY LastOfProperties
<1> HIDE DEF x
<1>2. PICK before \in Seq(Log!Lines) : list = before \o x
  BY <1>1
<1>3. Log!Matching(before \o x, f) = Log!Matching(before, f) \o Log!Matching(x, f)
  BY <1>1, MatchingConcat
<1>4. Log!Matching(before, f) \in Seq(Log!Lines) /\ Log!Matching(x, f) \in Seq(Log!Lines)
  BY <1>1, MatchingType
<1>5. Ends(Log!Matching(x, f), Log!Matching(before, f) \o Log!Matching(x, f))
  BY <1>4, EndsConcat
<1>6. Log!Matching(list, f) = Log!Matching(before, f) \o Log!Matching(x, f)
  BY <1>2, <1>3
<1>7. Ends(Log!Matching(x, f), Log!Matching(list, f))
  BY <1>5, <1>6
<1> QED
  BY <1>7 DEF x

(* While the view is not stale it ends with the lines that match, and      *)
(* while it is shown it is not stale.                                      *)
ViewOK ==
    /\ Ends(Log!Matching(logsArray, logFilter), logView)
    /\ \A i \in DOMAIN logView : Log!logMatchesFilters(logView[i], logFilter)
    /\ logFilter.level = "ALL" /\ ~logFilter.search => logView = logsArray
LogInv == Log!TypeOK /\ (logOpen => ~domStale) /\ (~domStale => ViewOK)

LEMMA EndsSelf == ASSUME NEW T, NEW s \in Seq(T) PROVE Ends(s, s)
BY LenProperties DEF Ends

LEMMA RenderLogsDoes ==
    ASSUME Log!TypeOK, NEW f \in Log!Filters, Log!renderLogs(f), UNCHANGED logsArray
    PROVE  /\ logView' \in Seq(Log!Lines) /\ Len(logView') <= MAX_LOG_ENTRIES
           /\ logFilter' \in Log!Filters /\ domStale' = FALSE /\ notice' \in BOOLEAN /\ ViewOK'
<1>1. logsArray \in Seq(Log!Lines) /\ Len(logsArray) <= MAX_LOG_ENTRIES
  BY DEF Log!TypeOK
<1>2. logView' = Log!Matching(logsArray, f) /\ logFilter' = f /\ domStale' = FALSE
      /\ notice' = Log!EmptyState(Len(logView'), f, logsArray) /\ logsArray' = logsArray
  BY DEF Log!renderLogs
<1>3. /\ Log!Matching(logsArray, f) \in Seq(Log!Lines)
      /\ Len(Log!Matching(logsArray, f)) <= Len(logsArray)
      /\ \A k \in DOMAIN Log!Matching(logsArray, f) :
            Log!logMatchesFilters(Log!Matching(logsArray, f)[k], f)
  BY <1>1, MatchingType
<1>4. Len(logView') <= MAX_LOG_ENTRIES
  BY <1>1, <1>2, <1>3, LogLimits, LenProperties
<1>5. ViewOK'
  <2>1. Ends(Log!Matching(logsArray, f), Log!Matching(logsArray, f))
    BY <1>3, EndsSelf
  <2>2. f.level = "ALL" /\ ~f.search => Log!Matching(logsArray, f) = logsArray
    BY <1>1, Unfiltered
  <2> QED
    BY <1>2, <1>3, <2>1, <2>2 DEF ViewOK
<1>6. notice' \in BOOLEAN
  BY <1>2 DEF Log!EmptyState
<1> QED
  BY <1>2, <1>3, <1>4, <1>5, <1>6

LEMMA AddLogEntriesKeeps ==
    ASSUME LogInv, NEW batch \in Seq(Log!Lines), batch # <<>>, Log!addLogEntries(batch),
           arrived' \in 0..MaxLines
    PROVE  LogInv'
<1> DEFINE f == logFilter
           M(s) == Log!Matching(s, f)
           all == logsArray \o batch
           grown == logView \o M(batch)
<1>1. /\ logsArray \in Seq(Log!Lines) /\ logView \in Seq(Log!Lines) /\ f \in Log!Filters
      /\ Len(logView) <= MAX_LOG_ENTRIES
  BY DEF LogInv, Log!TypeOK
<1>2. all \in Seq(Log!Lines) /\ M(batch) \in Seq(Log!Lines) /\ grown \in Seq(Log!Lines)
      /\ M(logsArray) \in Seq(Log!Lines) /\ M(all) \in Seq(Log!Lines)
  <2>1. all \in Seq(Log!Lines) /\ M(batch) \in Seq(Log!Lines)
    BY <1>1, MatchingType, ConcatProperties
  <2> QED
    BY <1>1, <2>1, MatchingType, ConcatProperties
<1>3. /\ logsArray' = Log!LastOf(all) /\ domStale' = (domStale \/ ~logOpen)
      /\ UNCHANGED <<logOpen, logFilter, typed, searchTimer>>
      /\ logOpen /\ M(batch) # <<>> => /\ logView' = Log!LastOf(grown)
                                       /\ notice' = Log!EmptyState(Len(logView'), f, logsArray')
      /\ ~(logOpen /\ M(batch) # <<>>) => UNCHANGED <<logView, notice>>
  BY DEF Log!addLogEntries
<1>4. logsArray' \in Seq(Log!Lines) /\ Len(logsArray') <= MAX_LOG_ENTRIES
  BY <1>2, <1>3, LastOfProperties
<1>5. logView' \in Seq(Log!Lines) /\ Len(logView') <= MAX_LOG_ENTRIES /\ notice' \in BOOLEAN
  BY <1>1, <1>2, <1>3, LastOfProperties DEF Log!EmptyState, LogInv, Log!TypeOK
<1>6. Log!TypeOK'
  BY <1>3, <1>4, <1>5 DEF LogInv, Log!TypeOK
<1>7. ASSUME ~domStale' PROVE ViewOK'
  <2>1. logOpen /\ ViewOK
    BY <1>3, <1>7 DEF LogInv
  <2>2. M(logsArray') \in Seq(Log!Lines) /\ Ends(M(logsArray'), M(all))
        /\ Len(M(logsArray')) <= MAX_LOG_ENTRIES
    <3>1. M(logsArray') \in Seq(Log!Lines) /\ Len(M(logsArray')) <= Len(logsArray')
      BY <1>4, MatchingType
    <3>2. Ends(M(logsArray'), M(all))
      BY <1>2, <1>3, MatchingLast
    <3>3. Len(M(logsArray')) <= MAX_LOG_ENTRIES
      <4>1. Len(M(logsArray')) \in Nat /\ Len(logsArray') \in Nat
        BY <1>4, <3>1, LenProperties
      <4> QED
        BY <1>4, <3>1, <4>1, LogLimits
    <3> QED
      BY <3>1, <3>2, <3>3
  <2>3. M(all) = M(logsArray) \o M(batch)
    BY <1>1, MatchingConcat
  <2>4. Ends(M(all), grown)
    <3>1. Ends(M(logsArray), logView)
      BY <2>1 DEF ViewOK
    <3> QED
      BY <1>1, <1>2, <2>3, <3>1, EndsAppend
  <2>5. Ends(M(logsArray'), grown)
    BY <1>2, <2>2, <2>4, EndsTrans
  <2>6. \A i \in DOMAIN grown : Log!logMatchesFilters(grown[i], f)
    <3>1. \A i \in DOMAIN logView : Log!logMatchesFilters(logView[i], f)
      BY <2>1 DEF ViewOK
    <3>2. \A i \in DOMAIN M(batch) : Log!logMatchesFilters(M(batch)[i], f)
      BY MatchingType
    <3> DEFINE a == Len(logView)
               b == Len(M(batch))
    <3>3. a \in Nat /\ b \in Nat /\ DOMAIN grown = 1..(a + b)
          /\ DOMAIN logView = 1..a /\ DOMAIN M(batch) = 1..b
          /\ \A i \in 1..(a + b) : grown[i] = IF i <= a THEN logView[i] ELSE M(batch)[i - a]
      BY <1>1, <1>2, ConcatProperties, LenProperties
    <3> HIDE DEF a, b, grown, M
    <3> TAKE i \in DOMAIN grown
    <3>4. CASE i <= a
      BY <3>1, <3>3, <3>4
    <3>5. CASE ~(i <= a)
      <4>1. i - a \in 1..b
        BY <3>3, <3>5
      <4> QED
        BY <3>2, <3>3, <3>5, <4>1
    <3> QED
      BY <3>4, <3>5
  <2>7. CASE M(batch) # <<>>
    <3>1. logView' = Log!LastOf(grown)
      BY <1>3, <2>1, <2>7
    <3>2. Ends(M(logsArray'), logView')
      BY <1>2, <2>2, <2>5, <3>1, EndsLast
    <3>3. \A i \in DOMAIN logView' : Log!logMatchesFilters(logView'[i], f)
      <4>1. \A i \in DOMAIN Log!LastOf(grown) : \E j \in DOMAIN grown : Log!LastOf(grown)[i] = grown[j]
        BY <1>2, LastOfProperties
      <4> HIDE DEF grown, f
      <4> QED
        BY <2>6, <3>1, <4>1
    <3>4. f.level = "ALL" /\ ~f.search => logView' = logsArray'
      <4>1. f.level = "ALL" /\ ~f.search => logView = logsArray /\ M(batch) = batch
        BY <1>1, <2>1, Unfiltered DEF ViewOK
      <4> QED
        BY <1>3, <3>1, <4>1
    <3>5. logFilter' = f
      BY <1>3
    <3> QED
      BY <3>2, <3>3, <3>4, <3>5 DEF ViewOK
  <2>8. CASE M(batch) = <<>>
    <3>1. logView' = logView /\ logFilter' = f /\ grown = logView
      BY <1>1, <1>3, <2>8, ConcatEmptySeq
    <3>2. Ends(M(logsArray'), logView')
      BY <2>5, <3>1
    <3>3. ~(f.level = "ALL" /\ ~f.search)
      BY <1>1, <2>8, Unfiltered
    <3>4. \A i \in DOMAIN logView : Log!logMatchesFilters(logView[i], f)
      BY <2>1 DEF ViewOK
    <3> QED
      BY <3>1, <3>2, <3>3, <3>4 DEF ViewOK
  <2> QED
    BY <2>7, <2>8
<1>8. logOpen' => ~domStale'
  BY <1>3 DEF LogInv, Log!TypeOK
<1> QED
  BY <1>6, <1>7, <1>8 DEF LogInv

LEMMA OnLogKeeps == ASSUME LogInv, Log!OnLog PROVE LogInv'
<1>1. arrived \in 0..MaxLines /\ MaxLines \in Nat
  BY LogLimits DEF LogInv, Log!TypeOK
<1>2. PICK n \in 1..(MaxLines - arrived) : \E b \in Log!Batches(n) :
        /\ Log!addLogEntries([i \in 1..n |->
               [id |-> arrived + i, level |-> b[i].level, found |-> b[i].found]])
        /\ arrived' = arrived + n
  BY DEF Log!OnLog
<1>3. PICK b \in Log!Batches(n) :
        /\ Log!addLogEntries([i \in 1..n |->
               [id |-> arrived + i, level |-> b[i].level, found |-> b[i].found]])
        /\ arrived' = arrived + n
  BY <1>2
<1> DEFINE batch == [i \in 1..n |->
               [id |-> arrived + i, level |-> b[i].level, found |-> b[i].found]]
<1>4. n \in Nat /\ n >= 1 /\ arrived + n \in 0..MaxLines /\ \A i \in 1..n : arrived + i \in 1..MaxLines
  BY <1>1, <1>2
<1>5. batch \in [1..n -> Log!Lines]
  <2>1. \A i \in 1..n : b[i].level \in Log!Levels /\ b[i].found \in BOOLEAN
    BY DEF Log!Batches
  <2> QED
    BY <1>4, <2>1 DEF Log!Lines
<1> HIDE DEF batch
<1>6. batch \in Seq(Log!Lines) /\ Len(batch) = n
  <2>1. \A w, p : p \in Nat /\ w \in [1..p -> Log!Lines] => w \in Seq(Log!Lines) /\ Len(w) = p
    BY SeqDef
  <2> QED
    BY <1>4, <1>5, <2>1
<1>7. batch # <<>>
  BY <1>4, <1>6, EmptySeq
<1>8. Log!addLogEntries(batch) /\ arrived' \in 0..MaxLines
  BY <1>3, <1>4 DEF batch
<1> QED
  BY <1>6, <1>7, <1>8, AddLogEntriesKeeps

LEMMA LogSteps == ASSUME LogInv, [Log!Next]_(Log!vars) PROVE LogInv'
<1>1. CASE Log!OnLog
  BY <1>1, OnLogKeeps
<1>2. ASSUME NEW level \in Log!Levels \cup {"ALL"}, Log!SetFilter(level) PROVE LogInv'
  <2>1. [logFilter EXCEPT !.level = level] \in Log!Filters
    BY DEF LogInv, Log!TypeOK, Log!Filters
  <2> QED
    BY <1>2, <2>1, RenderLogsDoes DEF Log!SetFilter, LogInv, Log!TypeOK
<1>3. CASE Log!SearchDue
  <2>1. [logFilter EXCEPT !.search = typed] \in Log!Filters
    BY DEF LogInv, Log!TypeOK, Log!Filters
  <2> QED
    BY <1>3, <2>1, RenderLogsDoes DEF Log!SearchDue, LogInv, Log!TypeOK
<1>4. CASE Log!selectTab
  <2>1. CASE ~logOpen /\ domStale
    BY <1>4, <2>1, RenderLogsDoes DEF Log!selectTab, LogInv, Log!TypeOK
  <2>2. CASE ~(~logOpen /\ domStale)
    BY <1>4, <2>2 DEF Log!selectTab, LogInv, Log!TypeOK, ViewOK
  <2> QED
    BY <2>1, <2>2
<1>5. CASE Log!Type
  BY <1>5 DEF Log!Type, LogInv, Log!TypeOK, ViewOK
<1>6. CASE Log!clearLogs
  <2>1. <<>> \in Seq(Log!Lines) /\ Len(<<>>) = 0
    BY EmptySeq
  <2>2. Ends(Log!Matching(<<>>, logFilter), <<>>)
    BY <2>1, MatchingEmpty, EndsSelf
  <2>3. ViewOK'
    BY <1>6, <2>2 DEF Log!clearLogs, ViewOK
  <2>4. Log!TypeOK'
    <3>1. Len(<<>>) <= MAX_LOG_ENTRIES
      BY <2>1, LogLimits
    <3> QED
      BY <1>6, <2>1, <3>1 DEF Log!clearLogs, LogInv, Log!TypeOK
  <2> QED
    BY <1>6, <2>3, <2>4 DEF Log!clearLogs, LogInv
<1>7. CASE UNCHANGED Log!vars
  BY <1>7 DEF Log!vars, LogInv, Log!TypeOK, ViewOK
<1> QED
  BY <1>1, <1>2, <1>3, <1>4, <1>5, <1>6, <1>7 DEF Log!Next

(* Once the tab has been drawn, the kept lines that match stand at the end *)
(* of the view, all of it matches and without filters it is the log, so    *)
(* that a batch appended and cut to the limit shows it (addLogEntries).    *)
THEOREM LogCorrect == Log!Spec => []LogInv
<1>1. Log!Init => LogInv
  <2> SUFFICES ASSUME Log!Init PROVE LogInv
    OBVIOUS
  <2>1. <<>> \in Seq(Log!Lines) /\ Len(<<>>) = 0
    BY EmptySeq
  <2>2. Ends(Log!Matching(<<>>, logFilter), <<>>)
    BY <2>1, MatchingEmpty, EndsSelf
  <2>3. ViewOK
    BY <2>2 DEF Log!Init, ViewOK
  <2>4. Log!TypeOK
    <3>1. Len(<<>>) <= MAX_LOG_ENTRIES /\ 0 \in 0..MaxLines
      BY <2>1, LogLimits
    <3>2. [level |-> "ALL", search |-> FALSE] \in Log!Filters
      BY DEF Log!Filters
    <3> QED
      BY <2>1, <3>1, <3>2 DEF Log!Init, Log!TypeOK
  <2> QED
    BY <2>3, <2>4 DEF Log!Init, LogInv
<1> QED
  BY <1>1, LogSteps, PTL DEF Log!Spec

LEMMA LogShown == LogInv => Log!ViewIsLog
<1> SUFFICES ASSUME LogInv, logOpen
             PROVE  /\ Log!IsSuffix(Log!Matching(logsArray, logFilter), logView)
                    /\ Log!Matching(logView, logFilter) = logView
                    /\ logFilter.level = "ALL" /\ ~logFilter.search => logView = logsArray
  BY DEF Log!ViewIsLog
<1>1. ViewOK /\ logsArray \in Seq(Log!Lines) /\ logView \in Seq(Log!Lines)
  BY DEF LogInv, Log!TypeOK
<1>2. Log!Matching(logsArray, logFilter) \in Seq(Log!Lines)
  BY <1>1, MatchingType
<1> QED
  BY <1>1, <1>2, EndsIsSuffix, MatchingAll DEF ViewOK

(* Lists one behind the other.                                             *)
LEMMA OnwardsOrders ==
    ASSUME NEW places \in SUBSET (Int \X Int) PROVE StrictlyOrders(Onwards(places), places)
<1> DEFINE before(x, y) == x[1] < y[1] \/ (x[1] = y[1] /\ x[2] < y[2])
<1>1. \A x, y \in places : <<x, y>> \in Onwards(places) <=> before(x, y)
  BY DEF Onwards
<1>2. \A x \in places : x[1] \in Int /\ x[2] \in Int /\ x = <<x[1], x[2]>>
  OBVIOUS
<1>3. ASSUME NEW x \in places, NEW y \in places
      PROVE  /\ x # y => <<x, y>> \in Onwards(places) \/ <<y, x>> \in Onwards(places)
             /\ <<x, y>> \in Onwards(places) => <<y, x>> \notin Onwards(places)
  <2>1. x # y => x[1] # y[1] \/ x[2] # y[2]
    BY <1>2
  <2>2. x # y => before(x, y) \/ before(y, x)
    BY <1>2, <2>1
  <2>3. before(x, y) => ~before(y, x)
    BY <1>2
  <2> QED
    BY <1>1, <2>2, <2>3
<1>4. ASSUME NEW x \in places, NEW y \in places, NEW z \in places,
             <<x, y>> \in Onwards(places), <<y, z>> \in Onwards(places)
      PROVE  <<x, z>> \in Onwards(places)
  <2>1. before(x, y) /\ before(y, z)
    BY <1>1, <1>4
  <2>2. before(x, z)
    BY <1>2, <2>1
  <2> QED
    BY <1>1, <2>2
<1> QED
  BY <1>3, <1>4 DEF StrictlyOrders

LEMMA JoinedType ==
    ASSUME NEW T, NEW m \in Nat, NEW many \in [1..m -> Seq(T)]
    PROVE  Joined(many) \in Seq(T)
<1> DEFINE row(n) == {n} \X (DOMAIN many[n])
           rows == {row(n) : n \in 1..m}
           f == [n \in 1..m |-> row(n)]
           P == PlacesIn(many)
<1>1. P = UNION rows
  BY DEF PlacesIn
<1>2. ASSUME NEW n \in 1..m PROVE IsFiniteSet(row(n))
  <2>1. many[n] \in Seq(T)
    OBVIOUS
  <2>2. IsFiniteSet(DOMAIN many[n])
    <3> DEFINE k == Len(many[n])
    <3>1. k \in Nat /\ DOMAIN many[n] = 1..k
      BY <2>1, LenProperties
    <3> HIDE DEF k
    <3>2. 1 \in Int /\ k \in Int
      BY <3>1
    <3> QED
      BY <3>1, <3>2, FS_Interval
  <2>3. IsFiniteSet({n})
    BY FS_Singleton
  <2> QED
    BY <2>2, <2>3, FS_Product
<1>3. IsFiniteSet(rows)
  <2>1. f \in Surjection(1..m, rows)
    BY DEF Surjection
  <2>2. IsFiniteSet(1..m)
    BY FS_Interval
  <2> HIDE DEF f, rows
  <2> QED
    BY <2>1, <2>2, FS_Surjection
<1>4. IsFiniteSet(P)
  <2>1. \A r \in rows : IsFiniteSet(r)
    BY <1>2
  <2> HIDE DEF rows
  <2> QED
    BY <1>1, <1>3, <2>1, FS_UNION
<1>5. \A x \in P : x = <<x[1], x[2]>> /\ x[1] \in 1..m /\ x[2] \in DOMAIN many[x[1]]
  BY DEF PlacesIn
<1>6. \A n \in 1..m : \A j \in DOMAIN many[n] : j \in Int /\ many[n][j] \in T
  <2> TAKE n \in 1..m
  <2>1. many[n] \in Seq(T)
    OBVIOUS
  <2> QED
    BY <2>1, LenProperties
<1>7. P \in SUBSET (Int \X Int)
  <2> SUFFICES ASSUME NEW x \in P PROVE x \in Int \X Int
    OBVIOUS
  <2>1. x[1] \in Int /\ x[2] \in Int /\ x = <<x[1], x[2]>>
    BY <1>5, <1>6
  <2> HIDE DEF P
  <2> QED
    BY <2>1
<1> DEFINE place == Ranked(P, Onwards(P))
           k == Cardinality(P)
<1>8. k \in Nat /\ place \in [1..k -> P]
  BY <1>4, <1>7, OnwardsOrders, RankedProperties
<1>9. Joined(many) = [i \in 1..k |-> many[place[i][1]][place[i][2]]]
  BY DEF Joined
<1> HIDE DEF P, place, k
<1>10. Joined(many) \in [1..k -> T]
  <2>1. \A i \in 1..k : many[place[i][1]][place[i][2]] \in T
    BY <1>5, <1>6, <1>8
  <2> QED
    BY <1>9, <2>1
<1> QED
  BY <1>8, <1>10, SeqDef

(* Words one behind the other.                                             *)
LEMMA JoinedWords ==
    ASSUME NEW m \in Nat, NEW many, DOMAIN many = 1..m, \A n \in 1..m : DOMAIN many[n] = {1}
    PROVE  Joined(many) = [k \in 1..m |-> many[k][1]]
<1> DEFINE P == PlacesIn(many)
           f == [k \in 1..m |-> <<k, 1>>]
<1>1. \A x : x \in P <=> \E n \in 1..m : x = <<n, 1>>
  BY DEF PlacesIn
<1>2. P \in SUBSET (Int \X Int)
  <2>1. \A n \in 1..m : <<n, 1>> \in Int \X Int
    OBVIOUS
  <2> HIDE DEF P
  <2> QED
    BY <1>1, <2>1
<1>3. f \in [1..m -> P] /\ Reaches(f, m, P)
  BY <1>1 DEF Reaches
<1>4. Rises(f, m, Onwards(P))
  <2> SUFFICES ASSUME NEW i \in 1..m, NEW j \in 1..m, i < j
               PROVE  <<f[i], f[j]>> \in Onwards(P)
    BY DEF Rises
  <2>1. f[i] \in P /\ f[j] \in P /\ f[i] = <<i, 1>> /\ f[j] = <<j, 1>>
    BY <1>3
  <2> HIDE DEF P
  <2> QED
    BY <2>1 DEF Onwards
<1> HIDE DEF P, f
<1>5. Cardinality(P) = m /\ Ranked(P, Onwards(P)) = f
  BY <1>2, <1>3, <1>4, OnwardsOrders, RankedUnique
<1>6. Joined(many) = [k \in 1..m |-> many[f[k][1]][f[k][2]]]
  BY <1>5 DEF Joined, P
<1> QED
  BY <1>6 DEF f

(***************************************************************************)
(* The servers.                                                            *)
(***************************************************************************)
LEMMA SrvCardinality == \A S : Srv!Cardinality(S) = Cardinality(S)
BY Zenon DEF Srv!Cardinality, Cardinality
LEMMA SrvRanked == \A S, order : Srv!Ranked(S, order) = Ranked(S, order)
BY Zenon DEF Srv!Ranked, Ranked, Srv!Below, Below, Srv!Cardinality, Cardinality
LEMMA SrvJoined == \A many : Srv!Joined(many) = Joined(many)
BY Zenon DEF Srv!Joined, Joined, Srv!PlacesIn, PlacesIn, Srv!Onwards, Onwards, Srv!Ranked, Ranked,
   Srv!Below, Below, Srv!Cardinality, Cardinality
LEMMA SrvFinite == \A S : Srv!IsFiniteSet(S) <=> IsFiniteSet(S)
BY DEF Srv!IsFiniteSet, IsFiniteSet

SubIdSet == Srv!Range(SubIds)
LEMMA SrvConstants ==
    /\ IsFiniteSet(Links) /\ SubIds \in Seq(SubIdSet) /\ Found \in SUBSET Links
    /\ \A subs \in Lists : subs \in [SubIdSet -> Seq(Links)]
    /\ NameOf \in [Links -> Nat] /\ TypeOf \in [Links -> Nat]
    /\ MaxLatency \in 0..9999 /\ MaxAsked \in Nat
BY PageListsAssumption, SrvFinite DEF Srv!ServerListAssumption, SubIdSet
LEMMA ServerTabsAre == Srv!Tabs = {"all", "favorites"} \cup SubIdSet
BY DEF Srv!Tabs, SubIdSet

Pages == [subs: Lists, tab: Srv!Tabs, favorites: SUBSET Links, pings: [Links -> Srv!PingValues],
          mode: Srv!SortModes, searching: BOOLEAN, active: Links \cup {NoLink}]

LEMMA AllLinksType == ASSUME NEW subs \in Lists PROVE Srv!AllLinks(subs) \in Seq(Links)
<1> DEFINE m == Len(SubIds)
           many == [i \in DOMAIN SubIds |-> subs[SubIds[i]]]
<1>1. m \in Nat /\ DOMAIN SubIds = 1..m /\ \A i \in 1..m : SubIds[i] \in SubIdSet
  BY SrvConstants, LenProperties, ElementOfSeq
<1>2. many \in [1..m -> Seq(Links)]
  BY <1>1, SrvConstants
<1> HIDE DEF many, m
<1>3. Joined(many) \in Seq(Links)
  BY <1>1, <1>2, JoinedType
<1> QED
  BY <1>3, SrvJoined DEF Srv!AllLinks, many

LEMMA ListedType == ASSUME NEW p \in Pages PROVE Srv!Listed(p) \in Seq(Links)
<1>0. p.subs \in Lists /\ p.tab \in Srv!Tabs /\ p.favorites \in SUBSET Links
  BY DEF Pages
<1>1. CASE p.tab = "all"
  BY <1>0, <1>1, AllLinksType DEF Srv!Listed
<1>2. CASE p.tab = "favorites"
  <2> DEFINE S == p.favorites
             n == Cardinality(S)
  <2>1. IsFiniteSet(S)
    BY <1>0, SrvConstants, FS_Subset
  <2>2. n \in Nat /\ \E f \in [1..n -> S] : Srv!IsInjective(f)
    BY <2>1, FS_CardinalityType DEF ExistsBijection, Bijection, Injection, IsInjective,
       Srv!IsInjective
  <2>3. Srv!SetToSeq(S) = CHOOSE f \in [1..n -> S] : Srv!IsInjective(f)
    BY SrvCardinality DEF Srv!SetToSeq
  <2>4. Srv!SetToSeq(S) \in [1..n -> S]
    BY <2>2, <2>3
  <2>5. Srv!SetToSeq(S) \in [1..n -> Links]
    BY <1>0, <2>4
  <2>6. Srv!SetToSeq(S) \in Seq(Links)
    BY <2>2, <2>5, SeqDef
  <2> QED
    BY <1>2, <2>6 DEF Srv!Listed
<1>3. CASE p.tab # "all" /\ p.tab # "favorites"
  <2>1. p.tab \in SubIdSet
    BY <1>0, <1>3, ServerTabsAre
  <2>2. p.subs[p.tab] \in Seq(Links)
    BY <1>0, <2>1, SrvConstants
  <2> QED
    BY <1>3, <2>2 DEF Srv!Listed
<1> QED
  BY <1>1, <1>2, <1>3

(* The cards of a page stand at these places of the list, in this order.   *)
ShownAt(p) == Srv!Places(Srv!Listed(p), p)
OrderOf(p) == Srv!Sooner(Srv!Listed(p), ShownAt(p), p.mode, p.pings)
PlaceOf(p) == Ranked(ShownAt(p), OrderOf(p))
HowMany(p) == Cardinality(ShownAt(p))
RankAt(p, i) == Srv!RankIn(p.mode, p.pings, Srv!Listed(p)[i])

LEMMA ShownAtType ==
    ASSUME NEW p \in Pages
    PROVE  /\ IsFiniteSet(ShownAt(p))
           /\ \A i \in ShownAt(p) : i \in Int /\ Srv!Listed(p)[i] \in Links
<1> DEFINE list == Srv!Listed(p)
           n == Len(list)
<1>1. n \in Nat /\ DOMAIN list = 1..n /\ \A i \in 1..n : list[i] \in Links
  BY ListedType, LenProperties, ElementOfSeq
<1>2. ShownAt(p) \in SUBSET (1..n)
  BY <1>1 DEF ShownAt, Srv!Places
<1> HIDE DEF list, n
<1>3. 1 \in Int /\ n \in Int
  BY <1>1
<1>4. IsFiniteSet(1..n)
  BY <1>3, FS_Interval
<1>5. IsFiniteSet(ShownAt(p))
  BY <1>2, <1>4, FS_Subset
<1> QED
  BY <1>1, <1>2, <1>5 DEF list

LEMMA RankType ==
    ASSUME NEW p \in Pages, NEW i \in ShownAt(p) PROVE RankAt(p, i) \in Nat
<1>1. Srv!Listed(p)[i] \in Links
  BY ShownAtType
<1>2. p.mode \in Srv!SortModes /\ p.pings \in [Links -> Srv!PingValues]
  BY DEF Pages
<1>3. p.pings[Srv!Listed(p)[i]] \in Srv!PingValues
  BY <1>1, <1>2
<1>4. Srv!latencyRank(p.pings[Srv!Listed(p)[i]]) \in Nat
  BY <1>3, SrvConstants DEF Srv!latencyRank, Srv!PingValues, Srv!Unmeasured, Srv!Pinging, Srv!Failed
<1>5. NameOf[Srv!Listed(p)[i]] \in Nat /\ TypeOf[Srv!Listed(p)[i]] \in Nat
  BY <1>1, SrvConstants
<1> QED
  BY <1>4, <1>5 DEF RankAt, Srv!RankIn

LEMMA OrderIs ==
    ASSUME NEW p \in Pages
    PROVE  \A i, j \in ShownAt(p) :
              <<i, j>> \in OrderOf(p) <=>
                 RankAt(p, i) < RankAt(p, j) \/ (RankAt(p, i) = RankAt(p, j) /\ i < j)
BY Zenon DEF OrderOf, Srv!Sooner, RankAt

LEMMA OrderIsStrict == ASSUME NEW p \in Pages PROVE StrictlyOrders(OrderOf(p), ShownAt(p))
<1> DEFINE S == ShownAt(p)
           rank == [i \in S |-> RankAt(p, i)]
<1>1. S \in SUBSET Int /\ rank \in [S -> Nat]
  BY ShownAtType, RankType
<1>2. \A i, j \in S : <<i, j>> \in OrderOf(p) <=>
         rank[i] < rank[j] \/ (rank[i] = rank[j] /\ i < j)
  BY OrderIs
<1> HIDE DEF S, rank
<1>3. ASSUME NEW i \in S, NEW j \in S
      PROVE  /\ i # j => <<i, j>> \in OrderOf(p) \/ <<j, i>> \in OrderOf(p)
             /\ <<i, j>> \in OrderOf(p) => <<j, i>> \notin OrderOf(p)
             /\ \A k \in S : <<i, j>> \in OrderOf(p) /\ <<j, k>> \in OrderOf(p) =>
                   <<i, k>> \in OrderOf(p)
  <2>1. rank[i] \in Int /\ rank[j] \in Int /\ i \in Int /\ j \in Int
    BY <1>1
  <2>2. /\ i # j => <<i, j>> \in OrderOf(p) \/ <<j, i>> \in OrderOf(p)
        /\ <<i, j>> \in OrderOf(p) => <<j, i>> \notin OrderOf(p)
    BY <1>2, <2>1
  <2>3. ASSUME NEW k \in S, <<i, j>> \in OrderOf(p), <<j, k>> \in OrderOf(p)
        PROVE  <<i, k>> \in OrderOf(p)
    <3>1. rank[k] \in Int /\ k \in Int
      BY <1>1
    <3>2. /\ rank[i] < rank[j] \/ (rank[i] = rank[j] /\ i < j)
          /\ rank[j] < rank[k] \/ (rank[j] = rank[k] /\ j < k)
      BY <1>2, <2>3
    <3>3. rank[i] < rank[k] \/ (rank[i] = rank[k] /\ i < k)
      BY <2>1, <3>1, <3>2
    <3> QED
      BY <1>2, <3>3
  <2> QED
    BY <2>2, <2>3
<1> QED
  BY <1>3 DEF StrictlyOrders, S

LEMMA CardsAre ==
    ASSUME NEW p \in Pages
    PROVE  /\ HowMany(p) \in Nat /\ PlaceOf(p) \in [1..HowMany(p) -> ShownAt(p)]
           /\ Rises(PlaceOf(p), HowMany(p), OrderOf(p)) /\ Reaches(PlaceOf(p), HowMany(p), ShownAt(p))
           /\ Srv!renderCards(p) =
                 [k \in 1..HowMany(p) |-> Srv!CardOf(Srv!Listed(p)[PlaceOf(p)[k]], p)]
           /\ \A k \in 1..HowMany(p) : Srv!Listed(p)[PlaceOf(p)[k]] \in Links
           /\ Srv!renderCards(p) \in Seq(Srv!Card) /\ Len(Srv!renderCards(p)) = HowMany(p)
<1>1. /\ HowMany(p) \in Nat /\ PlaceOf(p) \in [1..HowMany(p) -> ShownAt(p)]
      /\ Rises(PlaceOf(p), HowMany(p), OrderOf(p)) /\ Reaches(PlaceOf(p), HowMany(p), ShownAt(p))
  BY ShownAtType, OrderIsStrict, RankedProperties DEF HowMany, PlaceOf
<1>2. Srv!renderCards(p) =
         [k \in 1..HowMany(p) |-> Srv!CardOf(Srv!Listed(p)[PlaceOf(p)[k]], p)]
  BY SrvRanked, SrvCardinality
     DEF Srv!renderCards, Srv!sortServers, HowMany, PlaceOf, OrderOf, ShownAt
<1>3. \A k \in 1..HowMany(p) : Srv!Listed(p)[PlaceOf(p)[k]] \in Links
  BY <1>1, ShownAtType
<1>4. ASSUME NEW l \in Links PROVE Srv!CardOf(l, p) \in Srv!Card
  <2>1. p.pings[l] \in Srv!PingValues
    BY DEF Pages
  <2> QED
    BY <2>1 DEF Srv!CardOf, Srv!Card
<1>5. Srv!renderCards(p) \in [1..HowMany(p) -> Srv!Card]
  BY <1>2, <1>3, <1>4
<1>6. \A w, m : m \in Nat /\ w \in [1..m -> Srv!Card] => w \in Seq(Srv!Card) /\ Len(w) = m
  BY SeqDef
<1> QED
  BY <1>1, <1>2, <1>3, <1>5, <1>6

(* What a page without the latencies has.                                  *)
Alike(p, q) == /\ p.subs = q.subs /\ p.tab = q.tab /\ p.favorites = q.favorites /\ p.mode = q.mode
               /\ p.searching = q.searching /\ p.active = q.active

LEMMA AlikeAreListedAlike ==
    ASSUME NEW p \in Pages, NEW q \in Pages, Alike(p, q)
    PROVE  Srv!Listed(q) = Srv!Listed(p) /\ ShownAt(q) = ShownAt(p) /\ HowMany(q) = HowMany(p)
<1>1. Srv!Listed(q) = Srv!Listed(p)
  BY DEF Alike, Srv!Listed
<1>2. ShownAt(q) = ShownAt(p)
  BY <1>1 DEF ShownAt, Srv!Places, Alike
<1> QED
  BY <1>1, <1>2 DEF HowMany

MarkOf(l, p) == [link |-> l, selected |-> l = p.active, starred |-> l \in p.favorites]
LEMMA MarksAre ==
    ASSUME NEW p \in Pages
    PROVE  Srv!Marks(Srv!renderCards(p)) = {MarkOf(Srv!Listed(p)[i], p) : i \in ShownAt(p)}
<1> DEFINE c == Srv!renderCards(p)
           n == HowMany(p)
           f == PlaceOf(p)
           at(i) == Srv!Listed(p)[i]
<1>1. /\ Len(c) = n /\ f \in [1..n -> ShownAt(p)] /\ Reaches(f, n, ShownAt(p))
      /\ c = [k \in 1..n |-> Srv!CardOf(at(f[k]), p)]
  BY CardsAre
<1>2. \A k \in 1..n : c[k].link = at(f[k]) /\ c[k].selected = (at(f[k]) = p.active)
                      /\ c[k].starred = (at(f[k]) \in p.favorites)
  BY <1>1 DEF Srv!CardOf
<1> HIDE DEF c, n, f, at
<1>3. Srv!Marks(c) = {MarkOf(at(f[k]), p) : k \in 1..n}
  BY <1>1, <1>2 DEF Srv!Marks, MarkOf
<1>4. {MarkOf(at(f[k]), p) : k \in 1..n} = {MarkOf(at(i), p) : i \in ShownAt(p)}
  <2>1. \A k \in 1..n : f[k] \in ShownAt(p)
    BY <1>1
  <2>2. \A i \in ShownAt(p) : \E k \in 1..n : f[k] = i
    BY <1>1 DEF Reaches
  <2> QED
    BY <2>1, <2>2
<1> QED
  BY <1>3, <1>4 DEF c, at

LEMMA SameCards ==
    ASSUME NEW p \in Pages, NEW q \in Pages, Alike(p, q)
    PROVE  /\ Len(Srv!renderCards(q)) = Len(Srv!renderCards(p))
           /\ Srv!Marks(Srv!renderCards(q)) = Srv!Marks(Srv!renderCards(p))
<1>1. \A l : MarkOf(l, q) = MarkOf(l, p)
  BY DEF MarkOf, Alike
<1>2. Srv!Listed(q) = Srv!Listed(p) /\ ShownAt(q) = ShownAt(p) /\ HowMany(q) = HowMany(p)
  BY AlikeAreListedAlike
<1>3. /\ Len(Srv!renderCards(q)) = HowMany(q) /\ Len(Srv!renderCards(p)) = HowMany(p)
  BY CardsAre
<1>4. /\ Srv!Marks(Srv!renderCards(q)) = {MarkOf(Srv!Listed(q)[i], q) : i \in ShownAt(q)}
      /\ Srv!Marks(Srv!renderCards(p)) = {MarkOf(Srv!Listed(p)[i], p) : i \in ShownAt(p)}
  BY MarksAre
<1>5. {MarkOf(Srv!Listed(q)[i], q) : i \in ShownAt(q)} =
      {MarkOf(Srv!Listed(p)[i], p) : i \in ShownAt(p)}
  BY <1>1, <1>2
<1> QED
  BY <1>2, <1>3, <1>4, <1>5

Written(c, link, value) ==
    [i \in 1..Len(c) |-> IF c[i].link = link THEN [c[i] EXCEPT !.latency = value] ELSE c[i]]
(* Unless the list is sorted by latency, a latency changes one card only.  *)
LEMMA WrittenInPlace ==
    ASSUME NEW p \in Pages, NEW q \in Pages, Alike(p, q), p.mode # "ping",
           NEW link \in Links, NEW value, q.pings = [p.pings EXCEPT ![link] = value]
    PROVE  Srv!renderCards(q) = Written(Srv!renderCards(p), link, value)
<1> DEFINE n == HowMany(p)
           at(k) == Srv!Listed(p)[PlaceOf(p)[k]]
<1>1. Srv!Listed(q) = Srv!Listed(p) /\ ShownAt(q) = ShownAt(p) /\ HowMany(q) = n
  BY AlikeAreListedAlike
<1>2. q.mode = p.mode
  BY DEF Alike
<1>3. \A l : Srv!RankIn(q.mode, q.pings, l) = Srv!RankIn(p.mode, p.pings, l)
  BY <1>2 DEF Srv!RankIn
<1>4. OrderOf(q) = OrderOf(p)
  BY <1>1, <1>3 DEF OrderOf, Srv!Sooner
<1>5. PlaceOf(q) = PlaceOf(p)
  BY <1>1, <1>4 DEF PlaceOf
<1>6. /\ Srv!renderCards(p) = [k \in 1..n |-> Srv!CardOf(at(k), p)]
      /\ Srv!renderCards(q) = [k \in 1..n |-> Srv!CardOf(at(k), q)]
      /\ Len(Srv!renderCards(p)) = n /\ \A k \in 1..n : at(k) \in Links
  BY <1>1, <1>5, CardsAre
<1>7. ASSUME NEW l \in Links
      PROVE  Srv!CardOf(l, q) = IF Srv!CardOf(l, p).link = link
                                THEN [Srv!CardOf(l, p) EXCEPT !.latency = value]
                                ELSE Srv!CardOf(l, p)
  <2>1. q.pings[l] = IF l = link THEN value ELSE p.pings[l]
    BY DEF Pages
  <2>2. q.active = p.active /\ q.favorites = p.favorites
    BY DEF Alike
  <2> QED
    BY <2>1, <2>2 DEF Srv!CardOf
<1> DEFINE c == Srv!renderCards(p)
           written(x) == IF x.link = link THEN [x EXCEPT !.latency = value] ELSE x
<1> HIDE DEF n, at
<1>8. \A k \in 1..n : Srv!CardOf(at(k), q) = written(c[k])
  BY <1>6, <1>7
<1>9. Srv!renderCards(q) = [k \in 1..Len(c) |-> written(c[k])]
  <2> HIDE DEF written, c
  <2>1. Len(c) = n
    BY <1>6 DEF c
  <2>2. Srv!renderCards(q) = [k \in 1..n |-> Srv!CardOf(at(k), q)]
    BY <1>6
  <2> QED
    BY <1>8, <2>1, <2>2
<1> QED
  BY <1>9 DEF Written

(* Only a list sorted by latency lags behind, and only until it is redrawn *)
(* (onPingResult); who waits has been asked.                               *)
CardsInv ==
    \/ cards = Srv!renderCards(Srv!Page)
    \/ /\ cardsUpdateTimer /\ currentSortMode = "ping"
       /\ Len(cards) = Len(Srv!renderCards(Srv!Page))
       /\ Srv!Marks(cards) = Srv!Marks(Srv!renderCards(Srv!Page))
PingsInv == \A l \in Links : /\ pings[l] <= rounds
                             /\ pingData[l] = Srv!Pinging => pings[l] > 0
SrvInv == Srv!TypeOK /\ CardsInv /\ PingsInv

LEMMA PageIs == ASSUME Srv!TypeOK PROVE Srv!Page \in Pages
BY DEF Srv!TypeOK, Srv!Page, Pages

(* A page drawn anew is current.                                           *)
LEMMA DrawnAnew ==
    ASSUME Srv!updateCards,
           subscriptions' \in Lists, currentActiveSubId' \in Srv!Tabs,
           favoriteLinks' \in SUBSET Links, pingData' \in [Links -> Srv!PingValues],
           currentSortMode' \in Srv!SortModes, searching' \in BOOLEAN,
           activeServerLink' \in Links \cup {NoLink}
    PROVE  cards' \in Seq(Srv!Card) /\ CardsInv'
<1>1. Srv!Page' \in Pages
  BY DEF Srv!Page, Pages
<1>2. cards' = Srv!renderCards(Srv!Page')
  BY DEF Srv!updateCards, Srv!Page
<1>3. Srv!renderCards(Srv!Page') \in Seq(Srv!Card)
  BY <1>1, CardsAre
<1>4. Srv!renderCards(Srv!Page)' = Srv!renderCards(Srv!Page')
  BY DEF Srv!renderCards, Srv!Listed, Srv!Places, Srv!CardOf, Srv!AllLinks, Srv!Joined, Srv!sortServers, Srv!Sooner
<1> QED
  BY <1>2, <1>3, <1>4 DEF CardsInv

LEMMA SrvInit == Srv!Init => SrvInv
<1> SUFFICES ASSUME Srv!Init PROVE SrvInv
  OBVIOUS
<1>1. /\ subscriptions \in Lists /\ currentActiveSubId = "all"
      /\ favoriteLinks \in {{}, Links} /\ pingData = [l \in Links |-> Srv!Unmeasured]
      /\ currentSortMode = "default" /\ searching = FALSE
      /\ activeServerLink \in Links \cup {NoLink} /\ cards = Srv!renderCards(Srv!Page)
      /\ cardsUpdateTimer = FALSE /\ pings = [l \in Links |-> 0] /\ rounds = 0 /\ searchingBest = {}
  BY DEF Srv!Init
<1>2. Srv!Page \in Pages
  BY <1>1, ServerTabsAre DEF Srv!Page, Pages, Srv!PingValues, Srv!SortModes
<1>3. cards \in Seq(Srv!Card)
  BY <1>1, <1>2, CardsAre
<1>4. pingData \in [Links -> Srv!PingValues]
  BY <1>1 DEF Srv!PingValues
<1>5. pings \in [Links -> 0..MaxAsked] /\ rounds \in 0..MaxAsked
  BY <1>1, SrvConstants
<1>6. PingsInv
  BY <1>1 DEF PingsInv, Srv!Unmeasured, Srv!Pinging
<1>7. Srv!TypeOK
  BY <1>1, <1>3, <1>4, <1>5, ServerTabsAre DEF Srv!TypeOK, Srv!SortModes
<1> QED
  BY <1>1, <1>6, <1>7 DEF SrvInv, CardsInv

LEMMA AskKeeps ==
    ASSUME SrvInv, NEW S \in SUBSET Links, Srv!Ask(S), searchingBest' \in SUBSET Links
    PROVE  SrvInv'
<1>1. /\ rounds < MaxAsked /\ rounds' = rounds + 1
      /\ pingData' = [l \in Links |-> IF l \in S THEN Srv!Pinging ELSE pingData[l]]
      /\ pings' = [l \in Links |-> IF l \in S THEN pings[l] + 1 ELSE pings[l]]
      /\ UNCHANGED <<subscriptions, currentActiveSubId, favoriteLinks, currentSortMode, searching,
                     activeServerLink, cardsUpdateTimer>>
      /\ Srv!updateCards
  BY DEF Srv!Ask, Srv!TimerKeeps
<1>2. /\ subscriptions \in Lists /\ currentActiveSubId \in Srv!Tabs
      /\ favoriteLinks \in SUBSET Links /\ pingData \in [Links -> Srv!PingValues]
      /\ currentSortMode \in Srv!SortModes /\ searching \in BOOLEAN
      /\ activeServerLink \in Links \cup {NoLink} /\ cardsUpdateTimer \in BOOLEAN
      /\ pings \in [Links -> 0..MaxAsked] /\ rounds \in 0..MaxAsked
  BY DEF SrvInv, Srv!TypeOK
<1>3. \A l \in Links : pings[l] <= rounds /\ (pingData[l] = Srv!Pinging => pings[l] > 0)
  BY DEF SrvInv, PingsInv
<1>4. pingData' \in [Links -> Srv!PingValues]
  BY <1>1, <1>2 DEF Srv!PingValues
<1>5. rounds' \in 0..MaxAsked
  BY <1>1, <1>2, SrvConstants
<1>6. ASSUME NEW l \in Links
      PROVE  /\ pings'[l] \in 0..MaxAsked /\ pings'[l] <= rounds'
             /\ pingData'[l] = Srv!Pinging => pings'[l] > 0
  <2>1. pings[l] \in 0..MaxAsked /\ rounds \in Int /\ MaxAsked \in Int
    BY <1>2, SrvConstants
  <2>2. CASE l \in S
    <3>1. pings'[l] = pings[l] + 1
      BY <1>1, <2>2
    <3> QED
      BY <1>1, <1>3, <2>1, <3>1
  <2>3. CASE l \notin S
    <3>1. pings'[l] = pings[l] /\ pingData'[l] = pingData[l]
      BY <1>1, <2>3
    <3> QED
      BY <1>1, <1>3, <2>1, <3>1
  <2> QED
    BY <2>2, <2>3
<1>7. pings' \in [Links -> 0..MaxAsked] /\ PingsInv'
  <2>1. pings' = [l \in Links |-> pings'[l]]
    BY <1>1
  <2>2. pings' \in [Links -> 0..MaxAsked]
    BY <1>6, <2>1
  <2> QED
    BY <1>6, <2>2 DEF PingsInv
<1>8. cards' \in Seq(Srv!Card) /\ CardsInv'
  BY <1>1, <1>2, <1>4, DrawnAnew
<1> QED
  BY <1>1, <1>2, <1>4, <1>5, <1>7, <1>8 DEF SrvInv, Srv!TypeOK

LEMMA OnPingResultKeeps ==
    ASSUME SrvInv, NEW link \in Links, Srv!onPingResult(link) PROVE SrvInv'
<1>1. PICK value \in {Srv!Failed} \cup 0..MaxLatency :
         pingData' = [pingData EXCEPT ![link] = value] /\ Srv!Shown(link, value)
  BY DEF Srv!onPingResult
<1>2. /\ pings[link] > 0 /\ pings' = [pings EXCEPT ![link] = @ - 1]
      /\ UNCHANGED <<subscriptions, currentActiveSubId, favoriteLinks, currentSortMode, searching,
                     activeServerLink, rounds, searchingBest>>
  BY DEF Srv!onPingResult
<1>3. Srv!TypeOK
  BY DEF SrvInv
<1>4. /\ pingData \in [Links -> Srv!PingValues] /\ pings \in [Links -> 0..MaxAsked]
      /\ rounds \in 0..MaxAsked
  BY <1>3 DEF Srv!TypeOK
<1>5. value \in Srv!PingValues /\ value # Srv!Pinging
  BY <1>1, SrvConstants DEF Srv!PingValues, Srv!Failed, Srv!Pinging
<1>6. pingData' \in [Links -> Srv!PingValues]
  BY <1>1, <1>4, <1>5
<1>7. pings' \in [Links -> 0..MaxAsked] /\ PingsInv'
  <2>1. ASSUME NEW l \in Links
        PROVE  /\ pings'[l] \in 0..MaxAsked /\ pings'[l] <= rounds'
               /\ pingData'[l] = Srv!Pinging => pings'[l] > 0
    <3>1. pings[l] \in 0..MaxAsked /\ rounds \in Int /\ MaxAsked \in Int
      BY <1>4, SrvConstants
    <3>2. pings[l] <= rounds /\ (pingData[l] = Srv!Pinging => pings[l] > 0)
      BY DEF SrvInv, PingsInv
    <3>3. CASE l = link
      <4>1. pings'[l] = pings[l] - 1 /\ pingData'[l] = value /\ pings[l] > 0
        BY <1>1, <1>2, <1>4, <3>3
      <4> QED
        BY <1>2, <1>5, <3>1, <3>2, <4>1
    <3>4. CASE l # link
      <4>1. pings'[l] = pings[l] /\ pingData'[l] = pingData[l]
        BY <1>1, <1>2, <1>4, <3>4
      <4> QED
        BY <1>2, <3>1, <3>2, <4>1
    <3> QED
      BY <3>3, <3>4
  <2>2. pings' \in [Links -> 0..MaxAsked]
    BY <1>2, <1>4, <2>1
  <2> QED
    BY <2>1, <2>2 DEF PingsInv
<1> DEFINE p == Srv!Page
           q == [p EXCEPT !.pings = pingData']
<1>8. p \in Pages
  BY <1>3, PageIs
<1>9. q \in Pages /\ Alike(p, q) /\ q.pings = [p.pings EXCEPT ![link] = value]
      /\ p.mode = currentSortMode
  BY <1>1, <1>6, <1>8 DEF Pages, Alike, Srv!Page
<1>10. Srv!renderCards(Srv!Page)' = Srv!renderCards(q)
  <2>1. Srv!Page' = q
    BY <1>2 DEF Srv!Page
  <2>2. Srv!renderCards(Srv!Page)' = Srv!renderCards(Srv!Page')
    BY DEF Srv!renderCards
  <2> QED
    BY <2>1, <2>2
<1>11. cards \in Seq(Srv!Card) /\ cardsUpdateTimer \in BOOLEAN
  BY <1>3 DEF Srv!TypeOK
<1> HIDE DEF p, q
<1>12. CASE currentSortMode = "ping"
  <2>1. cardsUpdateTimer' = TRUE /\ cards' = cards
    BY <1>1, <1>12 DEF Srv!Shown
  <2>2. /\ Len(cards) = Len(Srv!renderCards(p))
        /\ Srv!Marks(cards) = Srv!Marks(Srv!renderCards(p))
    BY DEF SrvInv, CardsInv, p
  <2>3. Srv!Marks(cards)' = Srv!Marks(cards)
    BY <2>1 DEF Srv!Marks
  <2>4. CardsInv'
    <3>1. Srv!Marks(Srv!renderCards(Srv!Page))' = Srv!Marks(Srv!renderCards(q))
      BY <1>10 DEF Srv!Marks
    <3>2. /\ Len(Srv!renderCards(q)) = Len(Srv!renderCards(p))
          /\ Srv!Marks(Srv!renderCards(q)) = Srv!Marks(Srv!renderCards(p))
      BY <1>8, <1>9, SameCards
    <3> QED
      BY <1>2, <1>10, <1>12, <2>1, <2>2, <2>3, <3>1, <3>2 DEF CardsInv
  <2> QED
    BY <1>2, <1>3, <1>6, <1>7, <1>11, <2>1, <2>4 DEF SrvInv, Srv!TypeOK
<1>13. CASE currentSortMode # "ping"
  <2>1. cardsUpdateTimer' = cardsUpdateTimer /\ Srv!updateCardPing(link, value)
    BY <1>1, <1>13 DEF Srv!Shown
  <2>2. cards = Srv!renderCards(p)
    BY <1>13 DEF SrvInv, CardsInv, p
  <2>3. cards' = Srv!renderCards(q)
    <3>1. p.mode # "ping" /\ link \in Links /\ value = value
      BY <1>9, <1>13
    <3>2. Srv!renderCards(q) = Written(Srv!renderCards(p), link, value)
      BY <1>8, <1>9, <3>1, WrittenInPlace
    <3> QED
      BY <2>1, <2>2, <3>2 DEF Srv!updateCardPing, Written
  <2>4. cards' \in Seq(Srv!Card)
    BY <1>9, <2>3, CardsAre
  <2>5. CardsInv'
    BY <1>10, <2>3 DEF CardsInv
  <2> QED
    BY <1>2, <1>3, <1>6, <1>7, <1>11, <2>1, <2>4, <2>5 DEF SrvInv, Srv!TypeOK
<1> QED
  BY <1>12, <1>13

LEMMA SameCardsSameInv ==
    ASSUME SrvInv, searchingBest' \in SUBSET Links,
           UNCHANGED <<subscriptions, currentActiveSubId, favoriteLinks, pingData,
                       currentSortMode, searching, activeServerLink, cards, cardsUpdateTimer,
                       pings, rounds>>
    PROVE  SrvInv'
<1>1. Srv!Page' = Srv!Page
  BY DEF Srv!Page
<1>2. Srv!renderCards(Srv!Page)' = Srv!renderCards(Srv!Page)
  <2>1. Srv!renderCards(Srv!Page)' = Srv!renderCards(Srv!Page')
    BY DEF Srv!renderCards
  <2> QED
    BY <1>1, <2>1
<1>3. Srv!Marks(cards)' = Srv!Marks(cards)
      /\ Srv!Marks(Srv!renderCards(Srv!Page))' = Srv!Marks(Srv!renderCards(Srv!Page))
  BY <1>2 DEF Srv!Marks
<1>4. CardsInv'
  BY <1>2, <1>3 DEF SrvInv, CardsInv
<1>5. PingsInv'
  BY DEF SrvInv, PingsInv
<1>6. Srv!TypeOK'
  BY DEF SrvInv, Srv!TypeOK
<1> QED
  BY <1>4, <1>5, <1>6 DEF SrvInv

LEMMA SrvSteps == SrvInv /\ [Srv!Next]_srvVars => SrvInv'
<1> SUFFICES ASSUME SrvInv, [Srv!Next]_srvVars PROVE SrvInv'
  OBVIOUS
<1>1. Srv!TypeOK /\ CardsInv /\ PingsInv
  BY DEF SrvInv
<1>2. ASSUME /\ subscriptions' \in Lists /\ currentActiveSubId' \in Srv!Tabs
             /\ favoriteLinks' \in SUBSET Links /\ currentSortMode' \in Srv!SortModes
             /\ searching' \in BOOLEAN /\ activeServerLink' \in Links \cup {NoLink}
             /\ cardsUpdateTimer' \in BOOLEAN /\ searchingBest' \in SUBSET Links
             /\ UNCHANGED <<pingData, pings, rounds>> /\ Srv!updateCards
      PROVE  SrvInv'
  <2>1. pingData \in [Links -> Srv!PingValues] /\ pingData' = pingData /\ pings' = pings
        /\ rounds' = rounds /\ pings \in [Links -> 0..MaxAsked] /\ rounds \in 0..MaxAsked
    BY <1>1, <1>2 DEF Srv!TypeOK
  <2>2. cards' \in Seq(Srv!Card) /\ CardsInv'
    BY <1>2, <2>1, DrawnAnew
  <2>3. PingsInv'
    BY <1>1, <2>1 DEF PingsInv
  <2> QED
    BY <1>2, <2>1, <2>2, <2>3 DEF SrvInv, Srv!TypeOK
<1>3. /\ subscriptions \in Lists /\ currentActiveSubId \in Srv!Tabs /\ "all" \in Srv!Tabs
      /\ favoriteLinks \in SUBSET Links /\ currentSortMode \in Srv!SortModes
      /\ searching \in BOOLEAN /\ activeServerLink \in Links \cup {NoLink}
      /\ cardsUpdateTimer \in BOOLEAN /\ searchingBest \in SUBSET Links
  BY <1>1, ServerTabsAre DEF Srv!TypeOK
<1>4. CASE Srv!loadSubscriptions
  BY <1>2, <1>3, <1>4 DEF Srv!loadSubscriptions, Srv!PingsKeep, Srv!TimerKeeps
<1>5. CASE Srv!Search
  <2>1. searching' \in BOOLEAN
    BY <1>5 DEF Srv!Search
  <2> QED
    BY <1>2, <1>3, <1>5, <2>1 DEF Srv!Search, Srv!PingsKeep, Srv!TimerKeeps
<1>6. ASSUME NEW S \in SUBSET Links, Srv!Ask(S), searchingBest' \in SUBSET Links PROVE SrvInv'
  BY <1>6, AskKeeps
<1> DEFINE all == Srv!Range(Srv!AllLinks(subscriptions))
<1>7. all \in SUBSET Links
  <2>1. Srv!AllLinks(subscriptions) \in Seq(Links)
    BY <1>3, AllLinksType
  <2> QED
    BY <2>1, ElementOfSeq, LenProperties DEF Srv!Range
<1> HIDE DEF all
<1>8. CASE Srv!pingAll
  BY <1>3, <1>6, <1>7, <1>8 DEF Srv!pingAll, all
<1>9. CASE Srv!bestServer
  BY <1>6, <1>7, <1>9 DEF Srv!bestServer, all
<1>10. CASE Srv!TakeBest
  <2>1. searchingBest' = {} /\ {} \in SUBSET Links
    BY <1>10 DEF Srv!TakeBest
  <2>2. CASE UNCHANGED <<subscriptions, currentActiveSubId, favoriteLinks, pingData,
                         currentSortMode, searching, activeServerLink, cards, cardsUpdateTimer,
                         pings, rounds>>
    BY <2>1, <2>2, SameCardsSameInv
  <2>3. CASE \E l \in searchingBest :
                /\ activeServerLink' = l
                /\ UNCHANGED <<subscriptions, currentActiveSubId, favoriteLinks, currentSortMode,
                               searching, pingData, pings, rounds, cardsUpdateTimer>>
                /\ Srv!updateCards
    <3>1. activeServerLink' \in Links \cup {NoLink}
      BY <1>3, <2>3
    <3> QED
      BY <1>2, <1>3, <2>1, <2>3, <3>1
  <2> QED
    BY <1>10, <2>2, <2>3 DEF Srv!TakeBest
<1>11. CASE Srv!cardsUpdateDue
  <2>1. cardsUpdateTimer' \in BOOLEAN
    BY <1>11 DEF Srv!cardsUpdateDue
  <2> QED
    BY <1>2, <1>3, <1>11, <2>1 DEF Srv!cardsUpdateDue, Srv!PingsKeep
<1>12. ASSUME NEW tab \in Srv!Tabs, Srv!ShowTab(tab) PROVE SrvInv'
  BY <1>2, <1>3, <1>12 DEF Srv!ShowTab, Srv!PingsKeep, Srv!TimerKeeps
<1>13. ASSUME NEW link \in Links, Srv!onToggleFavorite(link) PROVE SrvInv'
  <2>1. favoriteLinks' \in SUBSET Links
    BY <1>3, <1>13 DEF Srv!onToggleFavorite
  <2> QED
    BY <1>2, <1>3, <1>13, <2>1 DEF Srv!onToggleFavorite, Srv!PingsKeep, Srv!TimerKeeps
<1>14. ASSUME NEW link \in Links, Srv!Choose(link) PROVE SrvInv'
  BY <1>2, <1>3, <1>14 DEF Srv!Choose, Srv!PingsKeep, Srv!TimerKeeps
<1>15. ASSUME NEW link \in Links, Srv!onPingResult(link) PROVE SrvInv'
  BY <1>15, OnPingResultKeeps
<1>16. ASSUME NEW mode \in Srv!SortModes, Srv!setSortMode(mode) PROVE SrvInv'
  BY <1>2, <1>3, <1>16 DEF Srv!setSortMode, Srv!PingsKeep, Srv!TimerKeeps
<1>17. CASE UNCHANGED srvVars
  BY <1>3, <1>17, SameCardsSameInv DEF srvVars
<1> QED
  BY <1>4, <1>5, <1>8, <1>9, <1>10, <1>11, <1>12, <1>13, <1>14, <1>15, <1>16, <1>17
     DEF Srv!Next

(* The tab of servers is what it would be if it were built now, or lags    *)
(* behind the answers only until the redraw that is due (renderCards).     *)
THEOREM ServersCorrect == Srv!Spec => []SrvInv
<1>1. SrvInv /\ [Srv!Next]_Srv!vars => SrvInv'
  BY SrvSteps DEF Srv!vars, srvVars
<1> QED
  BY SrvInit, <1>1, PTL DEF Srv!Spec

LEMMA SrvShown == SrvInv => Srv!ListIsCurrent /\ Srv!FastestFirst
<1> SUFFICES ASSUME SrvInv PROVE Srv!ListIsCurrent /\ Srv!FastestFirst
  OBVIOUS
<1>1. Srv!ListIsCurrent
  BY DEF SrvInv, CardsInv, Srv!ListIsCurrent
<1>2. ASSUME ~cardsUpdateTimer PROVE cards = Srv!renderCards(Srv!Page)
  BY <1>2 DEF SrvInv, CardsInv
<1> DEFINE p == Srv!Page
           n == HowMany(p)
           f == PlaceOf(p)
           at(k) == Srv!Listed(p)[f[k]]
<1>3. p \in Pages /\ p.pings = pingData /\ p.mode = currentSortMode
  BY PageIs DEF SrvInv, Srv!Page
<1>4. /\ n \in Nat /\ f \in [1..n -> ShownAt(p)] /\ Rises(f, n, OrderOf(p))
      /\ Srv!renderCards(p) = [k \in 1..n |-> Srv!CardOf(at(k), p)]
      /\ Len(Srv!renderCards(p)) = n /\ \A k \in 1..n : at(k) \in Links
  BY <1>3, CardsAre
<1> HIDE DEF p, n, f
<1>5. ASSUME ~cardsUpdateTimer, NEW k \in 1..Len(cards)
      PROVE  /\ k \in 1..n /\ cards[k].link = at(k) /\ cards[k].latency = pingData[at(k)]
             /\ at(k) \in Links
  <2>1. cards = Srv!renderCards(p) /\ k \in 1..n
    BY <1>2, <1>4, <1>5 DEF p
  <2>2. cards[k] = Srv!CardOf(at(k), p)
    BY <1>4, <2>1
  <2> QED
    BY <1>3, <1>4, <2>1, <2>2 DEF Srv!CardOf
<1>6. ASSUME ~cardsUpdateTimer, NEW k \in 1..Len(cards), cards[k].latency = Srv!Pinging
      PROVE  pings[cards[k].link] > 0
  BY <1>5, <1>6 DEF SrvInv, PingsInv
<1>7. ASSUME ~cardsUpdateTimer, currentSortMode = "ping", NEW i \in 1..Len(cards),
             NEW j \in 1..Len(cards), i < j, cards[j].latency >= 0
      PROVE  cards[i].latency \in 0..cards[j].latency
  <2> DEFINE a == cards[i].latency
             b == cards[j].latency
  <2>1. /\ i \in 1..n /\ j \in 1..n /\ a = pingData[at(i)] /\ b = pingData[at(j)]
        /\ at(i) \in Links /\ at(j) \in Links
    BY <1>5, <1>7
  <2>2. a \in Srv!PingValues /\ b \in Srv!PingValues
    BY <2>1 DEF SrvInv, Srv!TypeOK
  <2>3. /\ f[i] \in ShownAt(p) /\ f[j] \in ShownAt(p) /\ <<f[i], f[j]>> \in OrderOf(p)
    BY <1>4, <1>7, <2>1 DEF Rises
  <2>4. RankAt(p, f[i]) <= RankAt(p, f[j])
    BY <1>3, <2>3, OrderIs, RankType
  <2>5. RankAt(p, f[i]) = Srv!latencyRank(a) /\ RankAt(p, f[j]) = Srv!latencyRank(b)
    BY <1>3, <1>7, <2>1 DEF RankAt, Srv!RankIn
  <2>6. b >= 0
    BY <1>7
  <2> HIDE DEF a, b
  <2>7. Srv!latencyRank(b) = b /\ b \in 0..9999
    <3>1. b \in {-1, -2, -3} \cup 0..MaxLatency
      BY <2>2 DEF Srv!PingValues, Srv!Unmeasured, Srv!Pinging, Srv!Failed
    <3>2. b \in 0..MaxLatency
      BY <2>6, <3>1
    <3>3. b \in 0..9999
      BY <3>2, SrvConstants
    <3> QED
      BY <3>3 DEF Srv!latencyRank, Srv!Failed
  <2>8. Srv!latencyRank(a) <= 9999 => Srv!latencyRank(a) = a /\ a >= 0
    BY <2>2, SrvConstants DEF Srv!latencyRank, Srv!PingValues, Srv!Unmeasured, Srv!Pinging,
       Srv!Failed
  <2>9. a \in Int
    BY <2>2, SrvConstants DEF Srv!PingValues, Srv!Unmeasured, Srv!Pinging, Srv!Failed
  <2>10. Srv!latencyRank(a) <= b /\ Srv!latencyRank(a) \in Int
    BY <2>4, <2>5, <2>7, <2>9 DEF Srv!latencyRank
  <2>11. a \in 0..b
    BY <2>7, <2>8, <2>9, <2>10
  <2> QED
    BY <2>11 DEF a, b
<1>8. Srv!FastestFirst
  BY <1>6, <1>7 DEF Srv!FastestFirst
<1> QED
  BY <1>1, <1>8

(***************************************************************************)
(* The folders of connections.                                             *)
(***************************************************************************)
LEMMA ConCardinality == \A S : Con!Cardinality(S) = Cardinality(S)
BY Zenon DEF Con!Cardinality, Cardinality
LEMMA ConRanked == \A S, order : Con!Ranked(S, order) = Ranked(S, order)
BY Zenon DEF Con!Ranked, Ranked, Con!Below, Below, Con!Cardinality, Cardinality
LEMMA ConPicked == \A list, places : Con!Picked(list, places) = Picked(list, places)
BY Zenon DEF Con!Picked, Picked, Con!Upwards, Upwards, Con!Ranked, Ranked, Con!Below, Below,
   Con!Cardinality, Cardinality
LEMMA ConJoined == \A many : Con!Joined(many) = Joined(many)
BY Zenon DEF Con!Joined, Joined, Con!PlacesIn, PlacesIn, Con!Onwards, Onwards, Con!Ranked, Ranked,
   Con!Below, Below, Con!Cardinality, Cardinality
LEMMA ConFinite == \A S : Con!IsFiniteSet(S) <=> IsFiniteSet(S)
BY DEF Con!IsFiniteSet, IsFiniteSet
LEMMA ConOrders == \A order, S : Con!StrictlyOrders(order, S) <=> StrictlyOrders(order, S)
BY DEF Con!StrictlyOrders, StrictlyOrders

LEMMA ConConstants ==
    /\ IsFiniteSet(ConnectionIds) /\ MaxBytes \in Nat
    /\ \A kind \in Con!GroupKinds : StrictlyOrders(Before, Con!Keys(kind))
BY PageListsAssumption, ConFinite, ConOrders DEF Con!ConnectionsAssumption

(* A snapshot has the traffic of some connections.                         *)
IsSnapshot(s) == DOMAIN s \subseteq ConnectionIds /\ s \in [DOMAIN s -> 0..MaxBytes]
KeysOf(kind, s) == {Con!KeyOf(kind, id) : id \in DOMAIN s} \ {<<>>}
GroupsOf(kind, s) == {[key |-> key, traffic |-> Con!Traffic(kind, key, s)] : key \in KeysOf(kind, s)}
GroupOrder(kind, s, order) ==
    {p \in GroupsOf(kind, s) \X GroupsOf(kind, s) :
        IF order = "traffic" /\ p[1].traffic # p[2].traffic
        THEN p[1].traffic > p[2].traffic ELSE <<p[1].key, p[2].key>> \in Before}

LEMMA KeysOfType ==
    ASSUME NEW kind \in Con!GroupKinds, NEW s, IsSnapshot(s)
    PROVE  KeysOf(kind, s) \in SUBSET Con!Keys(kind) /\ IsFiniteSet(KeysOf(kind, s))
<1> DEFINE D == DOMAIN s
           all == {Con!KeyOf(kind, id) : id \in D}
           f == [id \in D |-> Con!KeyOf(kind, id)]
<1>1. IsFiniteSet(D) /\ D \in SUBSET ConnectionIds
  BY ConConstants, FS_Subset DEF IsSnapshot
<1>2. f \in Surjection(D, all)
  BY DEF Surjection
<1>3. IsFiniteSet(all)
  <2> HIDE DEF D, all, f
  <2> QED
    BY <1>1, <1>2, FS_Surjection
<1>4. KeysOf(kind, s) \in SUBSET all
  BY DEF KeysOf
<1>5. IsFiniteSet(KeysOf(kind, s))
  BY <1>3, <1>4, FS_Subset
<1>6. KeysOf(kind, s) \in SUBSET Con!Keys(kind)
  BY <1>1 DEF KeysOf, Con!Keys
<1> QED
  BY <1>5, <1>6

LEMMA TrafficType ==
    ASSUME NEW kind, NEW key, NEW s, IsSnapshot(s) PROVE Con!Traffic(kind, key, s) \in Nat
<1> DEFINE rows == Con!RowsOf(kind, key, s)
           S == {b \in rows \X (1..MaxBytes) : b[2] <= s[b[1]]}
<1>1. IsFiniteSet(rows)
  <2>1. rows \in SUBSET ConnectionIds
    BY DEF Con!RowsOf, IsSnapshot
  <2> QED
    BY <2>1, ConConstants, FS_Subset
<1>2. IsFiniteSet(1..MaxBytes)
  <2>1. 1 \in Int /\ MaxBytes \in Int
    BY ConConstants
  <2> QED
    BY <2>1, FS_Interval
<1>3. IsFiniteSet(rows \X (1..MaxBytes))
  BY <1>1, <1>2, FS_Product
<1>4. IsFiniteSet(S)
  BY <1>3, FS_Subset
<1>5. Con!Traffic(kind, key, s) = Cardinality(S)
  BY ConCardinality DEF Con!Traffic
<1> QED
  BY <1>4, <1>5, FS_CardinalityType

LEMMA GroupOrderIsStrict ==
    ASSUME NEW kind \in Con!GroupKinds, NEW s, IsSnapshot(s), NEW order
    PROVE  StrictlyOrders(GroupOrder(kind, s, order), GroupsOf(kind, s))
<1> DEFINE G == GroupsOf(kind, s)
           O == GroupOrder(kind, s, order)
           K == Con!Keys(kind)
<1>1. \A g \in G : /\ g.key \in K /\ g.traffic \in Int
                   /\ g = [key |-> g.key, traffic |-> g.traffic]
                   /\ g.traffic = Con!Traffic(kind, g.key, s)
  BY KeysOfType, TrafficType DEF GroupsOf
<1>2. StrictlyOrders(Before, K)
  BY ConConstants
<1>3. \A g, h \in G : <<g, h>> \in O <=>
         IF order = "traffic" /\ g.traffic # h.traffic
         THEN g.traffic > h.traffic ELSE <<g.key, h.key>> \in Before
  BY Zenon DEF GroupOrder
<1> HIDE DEF G, O, K
<1>4. \A x, y \in K : /\ x # y => <<x, y>> \in Before \/ <<y, x>> \in Before
                      /\ <<x, y>> \in Before => <<y, x>> \notin Before
                      /\ \A z \in K : <<x, y>> \in Before /\ <<y, z>> \in Before => <<x, z>> \in Before
  BY <1>2 DEF StrictlyOrders
<1>5. ASSUME NEW g \in G, NEW h \in G
      PROVE  /\ g # h => <<g, h>> \in O \/ <<h, g>> \in O
             /\ <<g, h>> \in O => <<h, g>> \notin O
             /\ \A i \in G : <<g, h>> \in O /\ <<h, i>> \in O => <<g, i>> \in O
  <2>1. g.key \in K /\ h.key \in K /\ g.traffic \in Int /\ h.traffic \in Int
    BY <1>1
  <2>2. g # h => g.key # h.key
    BY <1>1
  <2>3. /\ g.key # h.key => <<g.key, h.key>> \in Before \/ <<h.key, g.key>> \in Before
        /\ <<g.key, h.key>> \in Before => <<h.key, g.key>> \notin Before
    BY <1>4, <2>1
  <2>4. /\ g # h => <<g, h>> \in O \/ <<h, g>> \in O
        /\ <<g, h>> \in O => <<h, g>> \notin O
    <3>1. CASE order = "traffic" /\ g.traffic # h.traffic
      <4>1. /\ <<g, h>> \in O <=> g.traffic > h.traffic
            /\ <<h, g>> \in O <=> h.traffic > g.traffic
        BY <1>3, <3>1
      <4> QED
        BY <2>1, <3>1, <4>1
    <3>2. CASE ~(order = "traffic" /\ g.traffic # h.traffic)
      <4>1. /\ <<g, h>> \in O <=> <<g.key, h.key>> \in Before
            /\ <<h, g>> \in O <=> <<h.key, g.key>> \in Before
        BY <1>3, <3>2
      <4> QED
        BY <2>2, <2>3, <4>1
    <3> QED
      BY <3>1, <3>2
  <2>5. ASSUME NEW i \in G, <<g, h>> \in O, <<h, i>> \in O PROVE <<g, i>> \in O
    <3>1. i.key \in K /\ i.traffic \in Int
      BY <1>1
    <3>2. <<g.key, h.key>> \in Before /\ <<h.key, i.key>> \in Before => <<g.key, i.key>> \in Before
      BY <1>4, <2>1, <3>1
    <3> QED
      BY <1>3, <2>1, <2>5, <3>1, <3>2
  <2> QED
    BY <2>4, <2>5
<1>6. StrictlyOrders(O, G)
  BY <1>5 DEF StrictlyOrders
<1> QED
  BY <1>6 DEF O, G

LEMMA GroupsAreMany ==
    ASSUME NEW kind \in Con!GroupKinds, NEW s, IsSnapshot(s)
    PROVE  /\ IsFiniteSet(GroupsOf(kind, s))
           /\ Cardinality(GroupsOf(kind, s)) = Cardinality(KeysOf(kind, s))
<1> DEFINE K == KeysOf(kind, s)
           G == GroupsOf(kind, s)
           f == [key \in K |-> [key |-> key, traffic |-> Con!Traffic(kind, key, s)]]
<1>1. f \in [K -> G] /\ (\A x, y \in K : f[x] = f[y] => x = y) /\ \A g \in G : \E x \in K : f[x] = g
  BY DEF GroupsOf
<1> HIDE DEF f, K, G
<1>2. f \in Bijection(K, G)
  BY <1>1 DEF Bijection, Injection, Surjection, IsInjective
<1>3. IsFiniteSet(K)
  BY KeysOfType DEF K
<1>4. IsFiniteSet(G) /\ Cardinality(G) = Cardinality(K)
  BY <1>2, <1>3, FS_Bijection DEF ExistsBijection
<1> QED
  BY <1>4 DEF K, G

(* Sites and programs of a snapshot, every one of them a key.              *)
LEMMA GroupConnectionsAre ==
    ASSUME NEW kind \in Con!GroupKinds, NEW s, IsSnapshot(s), NEW order
    PROVE  Con!groupConnections(kind, s, order) \in Seq(KeysOf(kind, s))
<1> DEFINE K == KeysOf(kind, s)
           n == Cardinality(K)
           G == GroupsOf(kind, s)
           R == Ranked(G, GroupOrder(kind, s, order))
<1>1. Con!groupConnections(kind, s, order) = [k \in 1..n |-> R[k].key]
  BY ConRanked, ConCardinality, Zenon DEF Con!groupConnections, KeysOf, GroupsOf, GroupOrder
<1>2. n \in Nat /\ R \in [1..n -> G]
  BY GroupsAreMany, GroupOrderIsStrict, RankedProperties
<1>3. \A g \in G : g.key \in K
  BY DEF GroupsOf
<1> HIDE DEF K, n, G, R
<1>4. Con!groupConnections(kind, s, order) \in [1..n -> K]
  BY <1>1, <1>2, <1>3
<1>5. \A w, m : m \in Nat /\ w \in [1..m -> K] => w \in Seq(K) /\ Len(w) = m
  BY SeqDef
<1> QED
  BY <1>2, <1>4, <1>5 DEF K

LEMMA NothingHasNoGroups ==
    /\ IsSnapshot(Con!Nothing)
    /\ \A kind \in Con!GroupKinds : \A order : Con!groupConnections(kind, Con!Nothing, order) = <<>>
<1>1. IsSnapshot(Con!Nothing) /\ DOMAIN Con!Nothing = {}
  BY DEF IsSnapshot, Con!Nothing
<1>2. ASSUME NEW kind \in Con!GroupKinds, NEW order
      PROVE  Con!groupConnections(kind, Con!Nothing, order) = <<>>
  <2>1. KeysOf(kind, Con!Nothing) = {}
    BY <1>1 DEF KeysOf
  <2>2. Con!groupConnections(kind, Con!Nothing, order) \in Seq({})
    BY <1>1, <2>1, GroupConnectionsAre
  <2> DEFINE w == Con!groupConnections(kind, Con!Nothing, order)
  <2>3. Len(w) = 0
    <3>1. Len(w) \in Nat /\ \A i \in 1..Len(w) : w[i] \in {}
      BY <2>2, LenProperties, ElementOfSeq
    <3>2. Len(w) > 0 => 1 \in 1..Len(w)
      BY <3>1
    <3> QED
      BY <3>1, <3>2
  <2> QED
    BY <2>2, <2>3, EmptySeq
<1> QED
  BY <1>1, <1>2

LEMMA GroupKindsAre == Con!GroupKinds = {"site", "process"} /\ DOMAIN Con!NoFolders = Con!GroupKinds
                  /\ \A kind \in Con!GroupKinds : Con!NoFolders[kind] = <<>>
BY DEF Con!GroupKinds, Con!NoFolders

LEMMA DisplayedIs ==
    \A many, g : g \in Con!Displayed(many) <=>
        \E kind \in Con!GroupKinds : \E i \in DOMAIN many[kind] : g = <<kind, many[kind][i]>>
<1> TAKE many, g
<1>1. g \in Con!Displayed(many) <=>
         \E kind \in Con!GroupKinds : g \in {kind} \X Con!ToSet(many[kind])
  BY Zenon DEF Con!Displayed
<1>2. ASSUME NEW kind \in Con!GroupKinds
      PROVE  g \in {kind} \X Con!ToSet(many[kind]) <=>
                \E i \in DOMAIN many[kind] : g = <<kind, many[kind][i]>>
  BY DEF Con!ToSet
<1> QED
  BY <1>1, <1>2

(* Folders placed are keys.                                                *)
LEMMA PlacedType ==
    ASSUME NEW T, NEW list \in Seq(T), NEW keys \in Seq(T), NEW changed
    PROVE  Con!Placed(list, keys, changed) \in Seq(T)
<1>1. Con!Kept(list, keys) \in Seq(T)
  <2> DEFINE P == {i \in DOMAIN list : list[i] \in Con!ToSet(keys)}
  <2>1. P \in SUBSET DOMAIN list
    OBVIOUS
  <2> HIDE DEF P
  <2>2. Picked(list, P) \in Seq(T)
    BY <2>1, PickedProperties
  <2> QED
    BY <2>2, ConPicked DEF Con!Kept, P
<1>2. Con!New(list, keys) \in Seq(T)
  <2> DEFINE P == {i \in DOMAIN keys : keys[i] \notin Con!ToSet(list)}
  <2>1. P \in SUBSET DOMAIN keys
    OBVIOUS
  <2> HIDE DEF P
  <2>2. Picked(keys, P) \in Seq(T)
    BY <2>1, PickedProperties
  <2> QED
    BY <2>2, ConPicked DEF Con!New, P
<1>3. Con!Kept(list, keys) \o Con!New(list, keys) \in Seq(T)
  BY <1>1, <1>2, ConcatProperties
<1> QED
  BY <1>3 DEF Con!Placed

(* Folders that are the ones to be displayed, and in this order, remain.   *)
LEMMA PlacedAgain ==
    ASSUME NEW T, NEW list \in Seq(T), NEW changed PROVE Con!Placed(list, list, changed) = list
<1>1. {i \in DOMAIN list : list[i] \in Con!ToSet(list)} = DOMAIN list
      /\ {i \in DOMAIN list : list[i] \notin Con!ToSet(list)} = {}
  BY DEF Con!ToSet
<1>2. Con!Kept(list, list) = list
  BY <1>1, ConPicked, PickedAll DEF Con!Kept
<1>3. Con!New(list, list) = <<>>
  BY <1>1, ConPicked, PickedNone DEF Con!New
<1>4. list \o <<>> = list
  BY ConcatEmptySeq
<1> QED
  BY <1>2, <1>3, <1>4 DEF Con!Placed

(***************************************************************************)
(* Every name of a program is one word: the keys joined with spaces, which *)
(* the tab compares, then tell which keys they are.                        *)
(***************************************************************************)
OneWord == \A id \in ConnectionIds : \E word : ProcessOf[id] \in {<<>>, <<word>>}

LEMMA KeysAreOneWord ==
    ASSUME OneWord, NEW kind \in Con!GroupKinds
    PROVE  \A key \in Con!Keys(kind) : DOMAIN key = {1} /\ key = <<key[1]>>
<1> TAKE key \in Con!Keys(kind)
<1>1. PICK id \in ConnectionIds : key = Con!KeyOf(kind, id) /\ key # <<>>
  BY DEF Con!Keys
<1>2. \E word : key = <<word>>
  <2>1. CASE kind = "site"
    BY <1>1, <2>1 DEF Con!KeyOf, Con!siteKey
  <2>2. CASE kind # "site"
    BY <1>1, <2>2 DEF Con!KeyOf, OneWord
  <2> QED
    BY <2>1, <2>2
<1> QED
  BY <1>2

LEMMA JoinedTells ==
    ASSUME OneWord, NEW kind \in Con!GroupKinds,
           NEW s \in Seq(Con!Keys(kind)), NEW t \in Seq(Con!Keys(kind)), Con!Joined(s) = Con!Joined(t)
    PROVE  s = t
<1> DEFINE m == Len(s)
           n == Len(t)
           K == Con!Keys(kind)
<1>1. /\ m \in Nat /\ DOMAIN s = 1..m /\ s \in [1..m -> K]
      /\ n \in Nat /\ DOMAIN t = 1..n /\ t \in [1..n -> K]
  BY LenProperties
<1>2. \A key \in K : DOMAIN key = {1} /\ key = <<key[1]>>
  BY KeysAreOneWord
<1> HIDE DEF m, n, K
<1>3. (\A k \in 1..m : DOMAIN s[k] = {1} /\ s[k] = <<s[k][1]>>)
      /\ \A k \in 1..n : DOMAIN t[k] = {1} /\ t[k] = <<t[k][1]>>
  BY <1>1, <1>2
<1>4. Joined(s) = [k \in 1..m |-> s[k][1]]
  BY <1>1, <1>3, JoinedWords
<1>5. Joined(t) = [k \in 1..n |-> t[k][1]]
  BY <1>1, <1>3, JoinedWords
<1>6. 1..m = 1..n /\ \A k \in 1..m : s[k][1] = t[k][1]
  <2> DEFINE a == [k \in 1..m |-> s[k][1]]
             b == [k \in 1..n |-> t[k][1]]
  <2>1. DOMAIN a = 1..m /\ DOMAIN b = 1..n /\ (\A k \in 1..m : a[k] = s[k][1])
        /\ \A k \in 1..n : b[k] = t[k][1]
    OBVIOUS
  <2>2. a = b
    BY <1>4, <1>5, ConJoined
  <2> HIDE DEF a, b
  <2>3. 1..m = 1..n
    BY <2>1, <2>2
  <2>4. ASSUME NEW k \in 1..m PROVE s[k][1] = t[k][1]
    <3>1. k \in 1..n
      BY <2>3
    <3>2. a[k] = s[k][1] /\ b[k] = t[k][1]
      BY <2>1, <3>1
    <3> QED
      BY <2>2, <3>2
  <2> QED
    BY <2>3, <2>4
<1>7. \A k \in 1..m : s[k] = t[k]
  BY <1>3, <1>6
<1> QED
  BY <1>1, <1>6, <1>7

LEMMA JoinedOfNone == Con!Joined(<<>>) = <<>>
<1>1. DOMAIN <<>> = 1..0 /\ \A n \in 1..0 : DOMAIN (<<>>)[n] = {1}
  OBVIOUS
<1>2. Joined(<<>>) = [k \in 1..0 |-> (<<>>)[k][1]]
  BY <1>1, JoinedWords
<1> QED
  BY <1>2, ConJoined

LEMMA RenderDoes ==
    ASSUME NEW s, NEW order, Con!renderConnectionsGrouped(s, order)
    PROVE  /\ conDrawn' = s /\ lastDrawn' = s /\ DOMAIN dom' = Con!GroupKinds
           /\ \A kind \in Con!GroupKinds :
                 /\ signature'[kind] = Con!Joined(Con!groupConnections(kind, s, order))
                 /\ dom'[kind] = Con!Placed(dom[kind], Con!groupConnections(kind, s, order),
                                            signature'[kind] # signature[kind])
           /\ openFolders' = Con!Displayed(dom') \cap
                                (openFolders \cup (expanded \ Con!Displayed(dom)))
           /\ DOMAIN members' = Con!Displayed(dom')
           /\ \A g \in DOMAIN members' : members'[g] \in {{}, Con!RowsOf(g[1], g[2], s)}
<1> DEFINE keys(kind) == IF kind = "site" THEN Con!groupConnections("site", s, order)
                         ELSE Con!groupConnections("process", s, order)
<1>1. /\ conDrawn' = s /\ lastDrawn' = s
      /\ signature' = [kind \in Con!GroupKinds |-> Con!Joined(keys(kind))]
      /\ dom' = [kind \in Con!GroupKinds |->
                    Con!Placed(dom[kind], keys(kind), signature'[kind] # signature[kind])]
      /\ openFolders' = Con!Displayed(dom') \cap (openFolders \cup (expanded \ Con!Displayed(dom)))
      /\ members' = [g \in Con!Displayed(dom') |->
                        IF g \in openFolders' THEN Con!RowsOf(g[1], g[2], s) ELSE {}]
  BY Zenon DEF Con!renderConnectionsGrouped
<1>2. \A kind \in Con!GroupKinds : keys(kind) = Con!groupConnections(kind, s, order)
  BY GroupKindsAre
<1> HIDE DEF keys
<1> QED
  BY <1>1, <1>2

LEMMA GroupIdsAre ==
    \A kind, key : <<kind, key>> \in Con!GroupIds <=> kind \in Con!GroupKinds /\ key \in Con!Keys(kind)
<1> TAKE kind, key
<1>1. <<kind, key>> \in Con!GroupIds <=>
         \E k \in Con!GroupKinds : <<kind, key>> \in {k} \X Con!Keys(k)
  BY Zenon DEF Con!GroupIds
<1> QED
  BY <1>1

(* Folders have keys of their kind, so that what is displayed has a type.  *)
ConTyped == Con!TypeOK /\ \A kind \in Con!GroupKinds : dom[kind] \in Seq(Con!Keys(kind))

LEMMA DisplayedType ==
    ASSUME NEW many, \A kind \in Con!GroupKinds : many[kind] \in Seq(Con!Keys(kind))
    PROVE  Con!Displayed(many) \in SUBSET Con!GroupIds
<1> SUFFICES ASSUME NEW g \in Con!Displayed(many) PROVE g \in Con!GroupIds
  OBVIOUS
<1>0. PICK kind \in Con!GroupKinds : \E i \in DOMAIN many[kind] : g = <<kind, many[kind][i]>>
  BY DisplayedIs
<1>1. PICK i \in DOMAIN many[kind] : g = <<kind, many[kind][i]>>
  BY <1>0
<1>2. many[kind][i] \in Con!Keys(kind)
  <2>1. many[kind] \in Seq(Con!Keys(kind))
    OBVIOUS
  <2> QED
    BY <2>1, LenProperties
<1> QED
  BY <1>1, <1>2, GroupIdsAre

LEMMA SeqOfItsOwn == ASSUME NEW T, NEW s \in Seq(T) PROVE s \in Seq(Con!ToSet(s))
<1> DEFINE n == Len(s)
<1>1. n \in Nat /\ DOMAIN s = 1..n /\ s \in [1..n -> T]
  BY LenProperties
<1> HIDE DEF n
<1>2. s \in [1..n -> Con!ToSet(s)]
  BY <1>1 DEF Con!ToSet
<1> QED
  BY <1>1, <1>2, SeqDef

LEMMA RenderTyped ==
    ASSUME ConTyped, NEW s, IsSnapshot(s), NEW order, Con!renderConnectionsGrouped(s, order),
           conSort' \in {"name", "traffic"}, expanded' = expanded
    PROVE  ConTyped'
<1>1. /\ conDrawn' = s /\ lastDrawn' = s /\ DOMAIN dom' = Con!GroupKinds
      /\ \A kind \in Con!GroupKinds :
            dom'[kind] = Con!Placed(dom[kind], Con!groupConnections(kind, s, order),
                                    signature'[kind] # signature[kind])
      /\ openFolders' \in SUBSET Con!Displayed(dom') /\ DOMAIN members' = Con!Displayed(dom')
      /\ \A g \in DOMAIN members' : members'[g] \in {{}, Con!RowsOf(g[1], g[2], s)}
  BY RenderDoes
<1>2. ASSUME NEW kind \in Con!GroupKinds PROVE dom'[kind] \in Seq(Con!Keys(kind))
  <2>1. dom[kind] \in Seq(Con!Keys(kind))
    BY DEF ConTyped
  <2>2. Con!groupConnections(kind, s, order) \in Seq(Con!Keys(kind))
    <3>1. Con!groupConnections(kind, s, order) \in Seq(KeysOf(kind, s))
      BY GroupConnectionsAre
    <3>2. KeysOf(kind, s) \in SUBSET Con!Keys(kind)
      BY KeysOfType
    <3> QED
      BY <3>1, <3>2, LenProperties, SeqDef
  <2> QED
    BY <1>1, <2>1, <2>2, PlacedType
<1>3. Con!Displayed(dom') \in SUBSET Con!GroupIds
  BY <1>2, DisplayedType
<1>4. \A kind \in Con!GroupKinds : dom'[kind] \in Seq(Con!ToSet(dom'[kind]))
  BY <1>2, SeqOfItsOwn
<1>5. \A g \in DOMAIN members' : members'[g] \subseteq ConnectionIds
  BY <1>1 DEF Con!RowsOf, IsSnapshot
<1>6. expanded \in SUBSET Con!GroupIds
  BY DEF ConTyped, Con!TypeOK
<1>7. \A g \in DOMAIN members' \cup openFolders' \cup expanded' : g \in Con!GroupIds
  BY <1>1, <1>3, <1>6
<1>8. /\ Con!Displayed(dom)' = Con!Displayed(dom')
      /\ \A kind : Con!ToSet(dom[kind])' = Con!ToSet(dom'[kind])
  BY DEF Con!Displayed, Con!ToSet
<1>9. Con!TypeOK'
  BY <1>1, <1>4, <1>5, <1>7, <1>8 DEF Con!TypeOK, IsSnapshot
<1> QED
  BY <1>2, <1>9 DEF ConTyped

LEMMA SnapshotsAre == \A s \in Con!Snapshots : IsSnapshot(s)
BY DEF Con!Snapshots, IsSnapshot

LEMMA NoneDisplayed == Con!Displayed(Con!NoFolders) = {}
BY GroupKindsAre, DisplayedIs

LEMMA ConInitTyped == Con!Init => ConTyped
<1> SUFFICES ASSUME Con!Init PROVE ConTyped
  OBVIOUS
<1>1. /\ conDrawn = Con!Nothing /\ lastDrawn = Con!Nothing /\ dom = Con!NoFolders
      /\ members = Con!Nothing /\ openFolders = {} /\ expanded = {} /\ conSort = "name"
  BY DEF Con!Init
<1>2. IsSnapshot(conDrawn) /\ IsSnapshot(lastDrawn) /\ DOMAIN members = {}
  BY <1>1, NothingHasNoGroups DEF Con!Nothing
<1>3. DOMAIN dom = Con!GroupKinds /\ \A kind \in Con!GroupKinds : dom[kind] = <<>>
  BY <1>1, GroupKindsAre
<1>4. \A T : <<>> \in Seq(T)
  OBVIOUS
<1>5. Con!Displayed(dom) = {}
  BY <1>1, NoneDisplayed
<1>6. Con!TypeOK
  BY <1>1, <1>2, <1>3, <1>4, <1>5 DEF Con!TypeOK, IsSnapshot
<1> QED
  BY <1>3, <1>4, <1>6 DEF ConTyped

LEMMA ConStepsTyped == ConTyped /\ [Con!Next]_conVars => ConTyped'
<1> SUFFICES ASSUME ConTyped, [Con!Next]_conVars PROVE ConTyped'
  OBVIOUS
<1>1. /\ conSort \in {"name", "traffic"} /\ IsSnapshot(conDrawn) /\ IsSnapshot(lastDrawn)
      /\ openFolders \in SUBSET Con!GroupIds /\ expanded \in SUBSET Con!GroupIds
      /\ DOMAIN dom = Con!GroupKinds /\ DOMAIN members = Con!Displayed(dom)
      /\ \A g \in DOMAIN members : members[g] \subseteq ConnectionIds /\ g \in Con!GroupIds
      /\ \A kind \in Con!GroupKinds : dom[kind] \in Seq(Con!Keys(kind))
      /\ \A kind \in Con!GroupKinds : dom[kind] \in Seq(Con!ToSet(dom[kind]))
  BY DEF ConTyped, Con!TypeOK, IsSnapshot
<1>2. CASE Con!Poll
  <2>1. PICK s \in Con!Snapshots : Con!renderConnectionsGrouped(s, conSort)
    BY <1>2 DEF Con!Poll
  <2>2. IsSnapshot(s)
    BY SnapshotsAre
  <2>3. conSort' = conSort /\ expanded' = expanded
    BY <1>2 DEF Con!Poll
  <2> QED
    BY <1>1, <2>1, <2>2, <2>3, RenderTyped
<1>3. CASE Con!setConnectionsSort
  <2>1. /\ conSort' \in {"name", "traffic"} /\ expanded' = expanded
        /\ Con!renderConnectionsGrouped(lastDrawn, conSort')
    BY <1>3 DEF Con!setConnectionsSort
  <2> QED
    BY <1>1, <2>1, RenderTyped
<1>4. CASE Con!resetConnectionsView
  <2>1. /\ conDrawn' = Con!Nothing /\ dom' = Con!NoFolders /\ members' = Con!Nothing
        /\ openFolders' = {} /\ UNCHANGED <<conSort, lastDrawn, expanded>>
    BY <1>4 DEF Con!resetConnectionsView
  <2>2. IsSnapshot(conDrawn') /\ DOMAIN members' = {}
    BY <2>1, NothingHasNoGroups DEF Con!Nothing
  <2>3. DOMAIN dom' = Con!GroupKinds /\ \A kind \in Con!GroupKinds : dom'[kind] = <<>>
    BY <2>1, GroupKindsAre
  <2>4. \A T : <<>> \in Seq(T)
    OBVIOUS
  <2>5. Con!Displayed(dom)' = {}
    <3>1. Con!Displayed(dom)' = Con!Displayed(dom')
      BY DEF Con!Displayed, Con!ToSet
    <3> QED
      BY <2>1, <3>1, NoneDisplayed
  <2>6. Con!TypeOK'
    BY <1>1, <2>1, <2>2, <2>3, <2>4, <2>5 DEF Con!TypeOK, IsSnapshot
  <2> QED
    BY <2>3, <2>4, <2>6 DEF ConTyped
<1>5. ASSUME NEW g \in Con!Displayed(dom), Con!setGroupExpanded(g) PROVE ConTyped'
  <2>1. g \in Con!GroupIds
    BY <1>1
  <2>2. /\ openFolders' \in {openFolders \ {g}, openFolders \cup {g}}
        /\ expanded' \in {expanded \ {g}, expanded \cup {g}}
        /\ UNCHANGED <<conSort, conDrawn, lastDrawn, dom, signature, members>>
    BY <1>5 DEF Con!setGroupExpanded
  <2>3. openFolders' \in SUBSET Con!GroupIds /\ expanded' \in SUBSET Con!GroupIds
    BY <1>1, <2>1, <2>2
  <2>4. Con!Displayed(dom)' = Con!Displayed(dom) /\ \A kind : Con!ToSet(dom[kind])' = Con!ToSet(dom[kind])
    BY <2>2 DEF Con!Displayed, Con!ToSet
  <2>5. Con!TypeOK'
    BY <1>1, <2>2, <2>3, <2>4 DEF Con!TypeOK, IsSnapshot
  <2> QED
    BY <1>1, <2>2, <2>5 DEF ConTyped
<1>6. CASE UNCHANGED conVars
  <2>1. UNCHANGED <<conSort, conDrawn, lastDrawn, dom, signature, openFolders, members, expanded>>
    BY <1>6 DEF conVars
  <2>2. Con!Displayed(dom)' = Con!Displayed(dom) /\ \A kind : Con!ToSet(dom[kind])' = Con!ToSet(dom[kind])
    BY <2>1 DEF Con!Displayed, Con!ToSet
  <2>3. Con!TypeOK'
    BY <1>1, <2>1, <2>2 DEF Con!TypeOK, IsSnapshot
  <2> QED
    BY <1>1, <2>1, <2>3 DEF ConTyped
<1> QED
  BY <1>2, <1>3, <1>4, <1>5, <1>6 DEF Con!Next

(* The state of the folders has its type, whatever the names are.          *)
THEOREM FoldersTyped == Con!Spec => []ConTyped
<1>1. ConTyped /\ [Con!Next]_Con!vars => ConTyped'
  BY ConStepsTyped DEF Con!vars, conVars
<1> QED
  BY ConInitTyped, <1>1, PTL DEF Con!Spec

(* The folders displayed are those of the snapshot in the order chosen,    *)
(* and their signature is the one that goes with it.                       *)
ConInv ==
    /\ ConTyped /\ Con!FoldersInOrder /\ Con!FoldersStayOpen
    /\ \A kind \in Con!GroupKinds : signature[kind] = Con!Joined(dom[kind])

LEMMA RenderOrders ==
    ASSUME OneWord, ConInv, NEW s, IsSnapshot(s), NEW order, Con!renderConnectionsGrouped(s, order),
           conSort' \in {"name", "traffic"}, conSort' = order, expanded' = expanded
    PROVE  ConInv'
<1>1. /\ conDrawn' = s
      /\ \A kind \in Con!GroupKinds :
            /\ signature'[kind] = Con!Joined(Con!groupConnections(kind, s, order))
            /\ dom'[kind] = Con!Placed(dom[kind], Con!groupConnections(kind, s, order),
                                       signature'[kind] # signature[kind])
      /\ openFolders' = Con!Displayed(dom') \cap (openFolders \cup (expanded \ Con!Displayed(dom)))
      /\ \A g \in DOMAIN members' : members'[g] \in {{}, Con!RowsOf(g[1], g[2], s)}
  BY RenderDoes
<1>2. ConTyped'
  BY RenderTyped DEF ConInv
<1>3. ASSUME NEW kind \in Con!GroupKinds PROVE dom'[kind] = Con!groupConnections(kind, s, order)
  <2> DEFINE keys == Con!groupConnections(kind, s, order)
  <2>1. keys \in Seq(Con!Keys(kind)) /\ dom[kind] \in Seq(Con!Keys(kind))
    <3>1. keys \in Seq(KeysOf(kind, s)) /\ KeysOf(kind, s) \in SUBSET Con!Keys(kind)
      BY GroupConnectionsAre, KeysOfType
    <3>2. keys \in Seq(Con!Keys(kind))
      BY <3>1, LenProperties, SeqDef
    <3> QED
      BY <3>2 DEF ConInv, ConTyped
  <2>2. dom'[kind] = Con!Placed(dom[kind], keys, signature'[kind] # signature[kind])
        /\ signature'[kind] = Con!Joined(keys) /\ signature[kind] = Con!Joined(dom[kind])
    BY <1>1 DEF ConInv
  <2> HIDE DEF keys
  <2>3. CASE signature'[kind] # signature[kind]
    BY <2>2, <2>3 DEF Con!Placed, keys
  <2>4. CASE signature'[kind] = signature[kind]
    <3>1. dom[kind] = keys
      BY <2>1, <2>2, <2>4, JoinedTells
    <3>2. Con!Placed(keys, keys, signature'[kind] # signature[kind]) = keys
      BY <2>1, PlacedAgain
    <3> QED
      BY <2>2, <3>1, <3>2 DEF keys
  <2> QED
    BY <2>3, <2>4
<1>4. \A kind : Con!groupConnections(kind, conDrawn, conSort)' =
                Con!groupConnections(kind, conDrawn', conSort')
  BY DEF Con!groupConnections
<1>5. Con!FoldersInOrder'
  BY <1>1, <1>3, <1>4 DEF Con!FoldersInOrder
<1>6. \A kind \in Con!GroupKinds : signature'[kind] = Con!Joined(dom'[kind])
  BY <1>1, <1>3
<1>7. Con!Displayed(dom)' = Con!Displayed(dom')
      /\ (\A kind : Con!Joined(dom[kind])' = Con!Joined(dom'[kind]))
      /\ \A g : Con!RowsOf(g[1], g[2], conDrawn)' = Con!RowsOf(g[1], g[2], conDrawn')
  BY DEF Con!Displayed, Con!ToSet, Con!Joined, Con!RowsOf
<1>8. openFolders = expanded \cap Con!Displayed(dom)
  BY DEF ConInv, Con!FoldersStayOpen
<1>9. Con!FoldersStayOpen'
  <2>1. openFolders' = expanded' \cap Con!Displayed(dom')
    BY <1>1, <1>8
  <2> QED
    BY <1>1, <1>7, <2>1 DEF Con!FoldersStayOpen
<1> QED
  BY <1>2, <1>5, <1>6, <1>7, <1>9 DEF ConInv

LEMMA ConInitOrders == Con!Init => ConInv
<1> SUFFICES ASSUME Con!Init PROVE ConInv
  OBVIOUS
<1>1. /\ conDrawn = Con!Nothing /\ dom = Con!NoFolders /\ signature = Con!NoFolders
      /\ members = Con!Nothing /\ openFolders = {} /\ expanded = {}
  BY DEF Con!Init
<1>2. ConTyped
  BY ConInitTyped
<1>3. Con!FoldersInOrder
  BY <1>1, NothingHasNoGroups, GroupKindsAre DEF Con!FoldersInOrder
<1>4. \A kind \in Con!GroupKinds : signature[kind] = Con!Joined(dom[kind])
  BY <1>1, GroupKindsAre, JoinedOfNone
<1>5. Con!FoldersStayOpen
  BY <1>1, NoneDisplayed DEF Con!FoldersStayOpen, Con!Nothing
<1> QED
  BY <1>2, <1>3, <1>4, <1>5 DEF ConInv

LEMMA ConStepsOrder ==
    ASSUME OneWord PROVE ConInv /\ [Con!Next]_conVars => ConInv'
<1> SUFFICES ASSUME ConInv, [Con!Next]_conVars PROVE ConInv'
  OBVIOUS
<1>1. /\ conSort \in {"name", "traffic"} /\ IsSnapshot(conDrawn) /\ IsSnapshot(lastDrawn)
  BY DEF ConInv, ConTyped, Con!TypeOK, IsSnapshot
<1>0. ConTyped'
  BY ConStepsTyped DEF ConInv
<1>2. CASE Con!Poll
  <2>1. PICK s \in Con!Snapshots : Con!renderConnectionsGrouped(s, conSort)
    BY <1>2 DEF Con!Poll
  <2>2. IsSnapshot(s)
    BY SnapshotsAre
  <2>3. conSort' = conSort /\ expanded' = expanded
    BY <1>2 DEF Con!Poll
  <2> QED
    BY <1>1, <2>1, <2>2, <2>3, RenderOrders
<1>3. CASE Con!setConnectionsSort
  <2>1. /\ conSort' \in {"name", "traffic"} /\ expanded' = expanded
        /\ Con!renderConnectionsGrouped(lastDrawn, conSort')
    BY <1>3 DEF Con!setConnectionsSort
  <2> QED
    BY <1>1, <2>1, RenderOrders
<1>40. /\ (\A kind : Con!groupConnections(kind, conDrawn, conSort)' =
                Con!groupConnections(kind, conDrawn', conSort'))
       /\ Con!Displayed(dom)' = Con!Displayed(dom')
       /\ (\A kind : Con!Joined(dom[kind])' = Con!Joined(dom'[kind]))
       /\ \A g : Con!RowsOf(g[1], g[2], conDrawn)' = Con!RowsOf(g[1], g[2], conDrawn')
  BY DEF Con!groupConnections, Con!Displayed, Con!ToSet, Con!Joined, Con!RowsOf
<1>4. CASE Con!resetConnectionsView
  <2>1. /\ conDrawn' = Con!Nothing /\ dom' = Con!NoFolders /\ members' = Con!Nothing
        /\ signature' = Con!NoFolders /\ openFolders' = {}
    BY <1>4 DEF Con!resetConnectionsView
  <2>2. Con!FoldersInOrder'
    BY <1>40, <2>1, NothingHasNoGroups, GroupKindsAre DEF Con!FoldersInOrder
  <2>3. \A kind \in Con!GroupKinds : signature'[kind] = Con!Joined(dom'[kind])
    BY <2>1, GroupKindsAre, JoinedOfNone
  <2>4. Con!FoldersStayOpen'
    BY <1>40, <2>1, NoneDisplayed DEF Con!FoldersStayOpen, Con!Nothing
  <2> QED
    BY <1>0, <1>40, <2>2, <2>3, <2>4 DEF ConInv
<1>5. CASE UNCHANGED <<conSort, conDrawn, dom, signature, members>>
           /\ openFolders' = expanded' \cap Con!Displayed(dom)
  <2>1. Con!FoldersInOrder'
    BY <1>5, <1>40 DEF ConInv, Con!FoldersInOrder
  <2>2. Con!FoldersStayOpen'
    BY <1>5, <1>40 DEF ConInv, Con!FoldersStayOpen
  <2>3. \A kind \in Con!GroupKinds : signature'[kind] = Con!Joined(dom[kind])'
    BY <1>5, <1>40 DEF ConInv
  <2> QED
    BY <1>0, <2>1, <2>2, <2>3 DEF ConInv
<1>6. ASSUME NEW g \in Con!Displayed(dom), Con!setGroupExpanded(g) PROVE ConInv'
  <2>1. openFolders = expanded \cap Con!Displayed(dom)
    BY DEF ConInv, Con!FoldersStayOpen
  <2>2. openFolders' = expanded' \cap Con!Displayed(dom)
    BY <1>6, <2>1 DEF Con!setGroupExpanded
  <2> QED
    BY <1>5, <1>6, <2>2 DEF Con!setGroupExpanded
<1>7. CASE UNCHANGED conVars
  BY <1>5, <1>7 DEF conVars, ConInv, Con!FoldersStayOpen
<1> QED
  BY <1>2, <1>3, <1>4, <1>6, <1>7 DEF Con!Next

(* When names of programs are words, the folders are those of the snapshot *)
(* in the order chosen, and those the user opened are open.                *)
THEOREM FoldersCorrect == ASSUME OneWord PROVE Con!Spec => []ConInv
<1>1. ConInv /\ [Con!Next]_Con!vars => ConInv'
  BY ConStepsOrder DEF Con!vars, conVars
<1> QED
  BY ConInitOrders, <1>1, PTL DEF Con!Spec

(***************************************************************************)
(* The lists together.                                                     *)
(***************************************************************************)
(* The log ends with the lines that match and, unfiltered, is the log; the *)
(* servers are listed as if the list were built now, the fastest first;    *)
(* and the folders keep their order and stay open, when names of programs  *)
(* are words (addLogEntries, renderCards, renderGroupSection).             *)
THEOREM ListsCorrect ==
    ASSUME OneWord PROVE Log!Spec /\ Srv!Spec /\ Con!Spec => []ListsAreCurrent
<1>1. /\ LogInv => Log!TypeOK
      /\ ConInv => Con!TypeOK /\ Con!FoldersInOrder /\ Con!FoldersStayOpen
      /\ SrvInv => Srv!TypeOK
  BY DEF LogInv, ConInv, ConTyped, SrvInv
<1>2. LogInv /\ SrvInv /\ ConInv => ListsAreCurrent
  BY <1>1, LogShown, SrvShown DEF ListsAreCurrent
<1> QED
  BY <1>2, LogCorrect, ServersCorrect, FoldersCorrect, PTL
==============================================================================
