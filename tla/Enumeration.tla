----------------------------- MODULE Enumeration -----------------------------
(***************************************************************************)
(* Lists made of a set or of other lists, as the page sorts, filters and   *)
(* joins them.  A member's place is the number of those before it: nothing *)
(* here is recursive, so that it can be reasoned about.                    *)
(***************************************************************************)
EXTENDS Integers, Sequences, FiniteSets

(* The members of a finite set in the order, a set of pairs, in which one  *)
(* comes before another.                                                   *)
Below(x, S, order) == {y \in S : <<y, x>> \in order}
Ranked(S, order) ==
    [k \in 1..Cardinality(S) |-> CHOOSE x \in S : Cardinality(Below(x, S, order)) = k - 1]

(* What it takes: of two members one comes before the other.               *)
StrictlyOrders(order, S) ==
    \A x, y \in S :
        /\ x # y => <<x, y>> \in order \/ <<y, x>> \in order
        /\ <<x, y>> \in order => <<y, x>> \notin order
        /\ \A z \in S : <<x, y>> \in order /\ <<y, z>> \in order => <<x, z>> \in order

(* The entries of a list at some of its places, in their order (filter).   *)
Upwards(places) == {p \in places \X places : p[1] < p[2]}
Picked(list, places) ==
    LET place == Ranked(places, Upwards(places))
    IN  [k \in 1..Cardinality(places) |-> list[place[k]]]

(* Lists one behind the other (push, join).                                *)
PlacesIn(lists) == UNION {{n} \X (DOMAIN lists[n]) : n \in DOMAIN lists}
Onwards(places) == {p \in places \X places :
                       p[1][1] < p[2][1] \/ (p[1][1] = p[2][1] /\ p[1][2] < p[2][2])}
Joined(lists) ==
    LET place == Ranked(PlacesIn(lists), Onwards(PlacesIn(lists)))
    IN  [k \in 1..Cardinality(PlacesIn(lists)) |-> lists[place[k][1]][place[k][2]]]
=============================================================================
