------------------------------- MODULE Ordering -------------------------------
(***************************************************************************)
(* A finite set put in the order of a relation, a set of pairs: an element *)
(* comes after as many as there are pairs with it.  This is what ORDER BY  *)
(* and sorted() do where no two elements are alike.                        *)
(***************************************************************************)
EXTENDS Naturals, Sequences, FiniteSets

\* R leaves no two elements of S in the same place.
StrictlyOrders(R, S) ==
  /\ \A x \in S : <<x, x>> \notin R
  /\ \A x, y, z \in S : <<x, y>> \in R /\ <<y, z>> \in R => <<x, z>> \in R
  /\ \A x, y \in S : x = y \/ <<x, y>> \in R \/ <<y, x>> \in R

\* How many come before x.
Place(x, S, R) == Cardinality({y \in S : <<y, x>> \in R})

InOrder(S, R) ==
  [r \in 1 .. Cardinality(S) |-> CHOOSE x \in S : Place(x, S, R) = r - 1]

\* The numbers of I from the least to the greatest.
Less(I) == {p \in I \X I : p[1] < p[2]}
Ascending(I) == InOrder(I, Less(I))

\* What s has at the positions I, in its order.
Picked(s, I) == LET place == Ascending(I) IN [r \in DOMAIN place |-> s[place[r]]]

\* The last size elements, or all there are: deque(s, maxlen = size).
LastOf(s, size) ==
  IF Len(s) > size THEN SubSeq(s, Len(s) - size + 1, Len(s)) ELSE s
=============================================================================
