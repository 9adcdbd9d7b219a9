---------------------------- MODULE OrderingProofs ----------------------------
(***************************************************************************)
(* That a finite set in the order of a relation is what the name says: a   *)
(* sequence of its elements, each of them once, the earlier first.         *)
(***************************************************************************)
EXTENDS Ordering, FiniteSetTheorems, TLAPS

LEMMA PlaceIsCounted ==
  ASSUME NEW S, IsFiniteSet(S), NEW R, StrictlyOrders(R, S), NEW x \in S
  PROVE  Place(x, S, R) \in 0 .. (Cardinality(S) - 1)
<1> DEFINE before == {y \in S : <<y, x>> \in R}
<1>1. before \in SUBSET S /\ x \notin before
  BY DEF StrictlyOrders
<1>2. /\ IsFiniteSet(before) /\ Cardinality(before) <= Cardinality(S)
      /\ Cardinality(before) # Cardinality(S)
  BY <1>1, FS_Subset
<1>3. Cardinality(before) \in Nat /\ Cardinality(S) \in Nat
  BY <1>2, FS_CardinalityType
<1> QED
  BY <1>2, <1>3 DEF Place

\* What comes earlier has the smaller place.
LEMMA PlaceRises ==
  ASSUME NEW S, IsFiniteSet(S), NEW R, StrictlyOrders(R, S),
         NEW x \in S, NEW y \in S, <<x, y>> \in R
  PROVE  Place(x, S, R) < Place(y, S, R)
<1> DEFINE before(z) == {w \in S : <<w, z>> \in R}
<1>1. before(x) \in SUBSET before(y)
  BY DEF StrictlyOrders
<1>2. x \in before(y) /\ x \notin before(x)
  BY DEF StrictlyOrders
<1>3. before(y) \in SUBSET S
  OBVIOUS
<1>4. IsFiniteSet(before(y))
  BY <1>3, FS_Subset
<1>5. /\ IsFiniteSet(before(x)) /\ Cardinality(before(x)) <= Cardinality(before(y))
      /\ Cardinality(before(x)) # Cardinality(before(y))
  BY <1>1, <1>2, <1>4, FS_Subset
<1>6. Cardinality(before(x)) \in Nat /\ Cardinality(before(y)) \in Nat
  BY <1>4, <1>5, FS_CardinalityType
<1> QED
  BY <1>5, <1>6 DEF Place

\* A set in order is a sequence of its elements, with each in its place.
LEMMA OrderIsKept ==
  ASSUME NEW S, IsFiniteSet(S), NEW R, StrictlyOrders(R, S)
  PROVE  /\ InOrder(S, R) \in Seq(S)
         /\ Len(InOrder(S, R)) = Cardinality(S) /\ Cardinality(S) \in Nat
         /\ \A x \in S : /\ Place(x, S, R) + 1 \in DOMAIN InOrder(S, R)
                         /\ InOrder(S, R)[Place(x, S, R) + 1] = x
         /\ \A q, r \in DOMAIN InOrder(S, R) :
              q < r <=> <<InOrder(S, R)[q], InOrder(S, R)[r]>> \in R
<1> DEFINE n == Cardinality(S)
           P == [x \in S |-> Place(x, S, R)]
           s == InOrder(S, R)
<1>1. n \in Nat
  BY FS_CardinalityType
<1>2. P \in [S -> 0 .. (n - 1)]
  BY PlaceIsCounted
<1>3. ASSUME NEW x \in S, NEW y \in S, P[x] = P[y] PROVE x = y
  <2>1. ASSUME <<x, y>> \in R PROVE FALSE
    BY <1>2, <1>3, <2>1, PlaceRises
  <2>2. ASSUME <<y, x>> \in R PROVE FALSE
    BY <1>2, <1>3, <2>2, PlaceRises
  <2> QED
    BY <2>1, <2>2 DEF StrictlyOrders
<1>4. P \in Injection(S, 0 .. (n - 1))
  BY <1>2, <1>3 DEF Injection, IsInjective
<1>5. IsFiniteSet(0 .. (n - 1)) /\ Cardinality(0 .. (n - 1)) = n
  BY <1>1, FS_Interval
<1>6. P \in Surjection(S, 0 .. (n - 1))
  BY <1>4, <1>5, FS_Injection
<1>7. ASSUME NEW r \in 1 .. n PROVE s[r] \in S /\ Place(s[r], S, R) = r - 1
  <2>1. r - 1 \in 0 .. (n - 1)
    BY <1>1
  <2>2. \E x \in S : P[x] = r - 1
    BY <1>6, <2>1 DEF Surjection
  <2>3. \E x \in S : Place(x, S, R) = r - 1
    BY <2>2
  <2> QED
    BY <2>3 DEF InOrder
<1>8. s \in [1 .. n -> S] /\ s = [r \in 1 .. n |-> s[r]]
  BY <1>7 DEF InOrder
<1>9. s \in Seq(S) /\ Len(s) = n /\ DOMAIN s = 1 .. n
  BY <1>1, <1>8
<1>10. ASSUME NEW x \in S
       PROVE  Place(x, S, R) + 1 \in 1 .. n /\ s[Place(x, S, R) + 1] = x
  <2>1. Place(x, S, R) \in 0 .. (n - 1)
    BY PlaceIsCounted
  <2>2. Place(x, S, R) + 1 \in 1 .. n /\ (Place(x, S, R) + 1) - 1 = Place(x, S, R)
    BY <1>1, <2>1
  <2>3. s[Place(x, S, R) + 1] \in S /\ P[s[Place(x, S, R) + 1]] = P[x]
    BY <1>7, <2>2
  <2> QED
    BY <1>3, <2>2, <2>3
<1>11. ASSUME NEW q \in 1 .. n, NEW r \in 1 .. n
       PROVE  q < r <=> <<s[q], s[r]>> \in R
  <2>1. /\ s[q] \in S /\ s[r] \in S
        /\ Place(s[q], S, R) = q - 1 /\ Place(s[r], S, R) = r - 1
    BY <1>7
  <2>2. <<s[q], s[r]>> \in R => q < r
    BY <1>1, <2>1, PlaceRises
  <2>3. <<s[r], s[q]>> \in R => r < q
    BY <1>1, <2>1, PlaceRises
  <2>4. s[q] = s[r] => q = r
    BY <1>1, <2>1
  <2>5. s[q] = s[r] \/ <<s[q], s[r]>> \in R \/ <<s[r], s[q]>> \in R
    BY <2>1 DEF StrictlyOrders
  <2> QED
    BY <1>1, <2>2, <2>3, <2>4, <2>5
<1> QED
  BY <1>1, <1>9, <1>10, <1>11

LEMMA NumbersAreOrdered ==
  ASSUME NEW I \in SUBSET Nat
  PROVE  StrictlyOrders(Less(I), I)
BY DEF StrictlyOrders, Less

LEMMA HasGreatest ==
  ASSUME NEW S \in SUBSET Nat, IsFiniteSet(S), S # {}
  PROVE  \E m \in S : \A x \in S : x <= m
<1> DEFINE s == InOrder(S, Less(S))
           n == Cardinality(S)
<1>1. /\ s \in Seq(S) /\ Len(s) = n /\ n \in Nat
      /\ \A x \in S : Place(x, S, Less(S)) + 1 \in DOMAIN s /\ s[Place(x, S, Less(S)) + 1] = x
      /\ \A q, r \in DOMAIN s : q < r <=> <<s[q], s[r]>> \in Less(S)
  BY NumbersAreOrdered, OrderIsKept
<1> HIDE DEF s, n
<1>2. DOMAIN s = 1 .. n
  BY <1>1
<1>3. n \in DOMAIN s
  <2>1. PICK x \in S : TRUE
    OBVIOUS
  <2>2. PICK q \in DOMAIN s : s[q] = x
    BY <1>1
  <2> QED
    BY <1>1, <1>2, <2>2
<1>4. s[n] \in S
  BY <1>1, <1>3
<1>5. ASSUME NEW x \in S PROVE x <= s[n]
  <2>1. PICK q \in DOMAIN s : s[q] = x
    BY <1>1
  <2>2. q = n \/ q < n
    BY <1>1, <1>2
  <2>3. q < n => x < s[n]
    BY <1>1, <1>3, <2>1 DEF Less
  <2>4. x \in Nat /\ s[n] \in Nat
    BY <1>4
  <2> QED
    BY <2>1, <2>2, <2>3, <2>4
<1> QED
  BY <1>4, <1>5

\* A part of a sequence keeps its elements, each as often, in their order.
LEMMA PartsKeepOrder ==
  ASSUME NEW T, NEW s \in Seq(T), NEW I \in SUBSET (1 .. Len(s))
  PROVE  /\ Picked(s, I) \in Seq(T) /\ Len(Picked(s, I)) = Len(Ascending(I))
         /\ Ascending(I) \in Seq(I)
         /\ \A q, r \in DOMAIN Ascending(I) : q < r <=> Ascending(I)[q] < Ascending(I)[r]
         /\ \A i \in I : \E r \in DOMAIN Ascending(I) : Ascending(I)[r] = i
         /\ \A r \in DOMAIN Ascending(I) : Picked(s, I)[r] = s[Ascending(I)[r]]
<1> DEFINE a == Ascending(I)
<1>1. Len(s) \in Nat /\ I \in SUBSET Nat
  OBVIOUS
<1>2. IsFiniteSet(1 .. Len(s))
  BY <1>1, FS_Interval
<1>3. IsFiniteSet(I)
  BY <1>2, FS_Subset
<1>4. /\ a \in Seq(I)
      /\ \A q, r \in DOMAIN a : q < r <=> <<a[q], a[r]>> \in Less(I)
      /\ \A i \in I : \E r \in DOMAIN a : a[r] = i
  BY <1>1, <1>3, NumbersAreOrdered, OrderIsKept DEF Ascending
<1> HIDE DEF a
<1>5. \A r \in DOMAIN a : a[r] \in I /\ s[a[r]] \in T
  <2>1. \A r \in DOMAIN a : a[r] \in I
    BY <1>4
  <2>2. \A i \in I : s[i] \in T
    BY <1>1
  <2> QED
    BY <2>1, <2>2
<1>6. \A q, r \in DOMAIN a : q < r <=> a[q] < a[r]
  BY <1>4, <1>5 DEF Less
<1>7. DOMAIN a = 1 .. Len(a) /\ Len(a) \in Nat
  BY <1>4
<1>8. Picked(s, I) = [r \in 1 .. Len(a) |-> s[a[r]]]
  BY <1>7 DEF Picked, a
<1>9. Picked(s, I) \in Seq(T) /\ Len(Picked(s, I)) = Len(a)
  BY <1>5, <1>7, <1>8
<1> QED
  BY <1>4, <1>6, <1>7, <1>8, <1>9 DEF a

LEMMA TheLastOnes ==
  ASSUME NEW T, NEW s \in Seq(T), NEW size \in Nat
  PROVE  LET last == LastOf(s, size) IN
         /\ last \in Seq(T) /\ Len(last) = IF Len(s) > size THEN size ELSE Len(s)
         /\ \A i \in 1 .. Len(last) : /\ Len(s) - Len(last) + i \in 1 .. Len(s)
                                      /\ last[i] = s[Len(s) - Len(last) + i]
<1>1. Len(s) \in Nat
  OBVIOUS
<1>2. CASE Len(s) > size
  <2> DEFINE m == Len(s) - size + 1
  <2>1. m \in 1 .. (Len(s) + 1) /\ Len(s) - m + 1 = size /\ Len(s) - size = m - 1
    BY <1>1, <1>2
  <2>2. LastOf(s, size) = SubSeq(s, m, Len(s))
    BY <1>2 DEF LastOf
  <2> HIDE DEF m
  <2>3. /\ SubSeq(s, m, Len(s)) \in Seq(T) /\ Len(SubSeq(s, m, Len(s))) = size
        /\ \A i \in 1 .. size : SubSeq(s, m, Len(s))[i] = s[m - 1 + i]
    BY <1>1, <2>1
  <2>4. \A i \in 1 .. size : Len(s) - size + i \in 1 .. Len(s)
    BY <1>1, <1>2
  <2> QED
    BY <1>2, <2>1, <2>2, <2>3, <2>4
<1>3. CASE ~(Len(s) > size)
  <2>1. LastOf(s, size) = s
    BY <1>3 DEF LastOf
  <2>2. \A i \in 1 .. Len(s) : Len(s) - Len(s) + i = i
    BY <1>1
  <2> QED
    BY <1>3, <2>1, <2>2
<1> QED
  BY <1>2, <1>3
=============================================================================
